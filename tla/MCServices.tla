------------------------------ MODULE MCServices ------------------------------
(***************************************************************************)
(* Components that are modelled without one another, for TLC: one of them  *)
(* runs while the others rest in their initial states.  Three tickets are  *)
(* handed over by a pool of one thread with room for one more task; one    *)
(* panel shows a ticket with a message typed in it and one written         *)
(* elsewhere; the events of one ticket under two ids meet another ticket's *)
(* in a relay of two rows; two of four accounts are administrators; a      *)
(* customer and an agent share a browser; two searches under the lock and  *)
(* a cache check use chroma_rag, or three drafts use local_draft.          *)
(***************************************************************************)
EXTENDS TicketDispatcher, TicketThread, FailedAuthTracker, TraceRelay, LearningJobs,
        AttachmentCleanup, GeminiPool, AccountChanges, AuthSession, CircuitBreaker, TLC

CONSTANTS m1, m2, customer, corr, ticket, other, submit, received, persisted, step, sibling,
          draft, judge, classify, customerAccount, agentAccount

TypedBy == m1 :> customer
RowKey == (submit :> corr) @@ (received :> corr) @@ (persisted :> ticket)
          @@ (step :> ticket) @@ (sibling :> other)
CorrelationId == (submit :> corr) @@ (received :> corr) @@ (persisted :> corr)
Tries == (draft :> 3) @@ (judge :> 3) @@ (classify :> 1)
RolesOf == (customerAccount :> "user") @@ (agentAccount :> "agent")

VARIABLE part       \* which component runs

deliveryVars == <<lists, dispatcherVars>>
vars == <<part, deliveryVars, threadVars, trackerVars, relayVars, learningVars, cleanupVars,
          poolVars, accountVars, sessionVars, breakerVars>>

Init ==
    /\ part \in {"delivery", "thread", "tracker", "relay", "learning", "cleanup", "pool",
                "accounts", "session", "breaker"}
    /\ ticketQueue = <<>> /\ processing = <<>>
    /\ DispatcherInit /\ ThreadInit /\ TrackerInit /\ RelayInit
    /\ LearningInit /\ CleanupInit /\ PoolInit /\ AccountInit /\ SessionInit
    /\ BreakerInit
    /\ part # "session" => session = Nobody
    /\ part # "breaker" => onEventLoop

Delivery == /\ part = "delivery" /\ DispatcherNext
            /\ UNCHANGED <<threadVars, trackerVars, relayVars, learningVars, cleanupVars,
                           poolVars, accountVars, sessionVars, breakerVars>>
Thread == /\ part = "thread" /\ ThreadNext
          /\ UNCHANGED <<deliveryVars, trackerVars, relayVars, learningVars, cleanupVars,
                         poolVars, accountVars, sessionVars, breakerVars>>
Tracker == /\ part = "tracker" /\ TrackerNext
           /\ UNCHANGED <<deliveryVars, threadVars, relayVars, learningVars, cleanupVars,
                          poolVars, accountVars, sessionVars, breakerVars>>
Relay == /\ part = "relay" /\ RelayNext
         /\ UNCHANGED <<deliveryVars, threadVars, trackerVars, learningVars, cleanupVars,
                        poolVars, accountVars, sessionVars, breakerVars>>
Learning == /\ part = "learning" /\ LearningNext
            /\ UNCHANGED <<deliveryVars, threadVars, trackerVars, relayVars, cleanupVars,
                           poolVars, accountVars, sessionVars, breakerVars>>
Cleanup == /\ part = "cleanup" /\ CleanupNext
           /\ UNCHANGED <<deliveryVars, threadVars, trackerVars, relayVars, learningVars,
                          poolVars, accountVars, sessionVars, breakerVars>>
Pool == /\ part = "pool" /\ PoolNext
        /\ UNCHANGED <<deliveryVars, threadVars, trackerVars, relayVars, learningVars,
                       cleanupVars, accountVars, sessionVars, breakerVars>>
AccountsPart == /\ part = "accounts" /\ AccountNext
                /\ UNCHANGED <<deliveryVars, threadVars, trackerVars, relayVars, learningVars,
                               cleanupVars, poolVars, sessionVars, breakerVars>>
SessionPart == /\ part = "session" /\ SessionNext
               /\ UNCHANGED <<deliveryVars, threadVars, trackerVars, relayVars, learningVars,
                              cleanupVars, poolVars, accountVars, breakerVars>>
BreakerPart == /\ part = "breaker" /\ BreakerNext
               /\ UNCHANGED <<deliveryVars, threadVars, trackerVars, relayVars, learningVars,
                              cleanupVars, poolVars, accountVars, sessionVars>>

Next == /\ \/ Delivery \/ Thread \/ Tracker \/ Relay \/ Learning \/ Cleanup \/ Pool
           \/ AccountsPart \/ SessionPart \/ BreakerPart
        /\ UNCHANGED part

\* BreakerFairness would keep callers that rest from resting.
Spec ==
    /\ Init /\ [][Next]_vars
    /\ DispatcherFairness /\ CleanupFairness /\ SessionFairness
    /\ WF_breakerVars(Tick)
    /\ \A c \in Callers : WF_breakerVars(part = "breaker" /\ Call(c))
=============================================================================
