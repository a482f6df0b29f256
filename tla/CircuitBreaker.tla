---------------------------- MODULE CircuitBreaker ----------------------------
(***************************************************************************)
(* circuit_breaker.CircuitBreaker as its callers share it.  The class has  *)
(* no lock, so a method is modelled attribute access by attribute access.  *)
(* Two breakers exist in a process:                                        *)
(*   chroma_rag   used from worker threads by cache_check_node and, one at *)
(*                a time under _search_lock, by retrieve_context           *)
(*   local_draft  used by llm_client.generate on the event loop, where a   *)
(*                method runs to its end before another caller continues,  *)
(*                and where cancelling the ticket abandons the call        *)
(* A call takes any time to answer, and time may pass between any two      *)
(* steps.  It is counted since the breaker last opened, up to the cooldown:*)
(* allow_request asks nothing more of it.                                  *)
(***************************************************************************)
EXTENDS Naturals, Sequences

CONSTANTS
    Callers,            \* concurrent uses of the dependency
    Searchers,          \* those of them that search under _search_lock, in threads
    FailureThreshold, WindowSize, Cooldown

ASSUME BreakerAssumption ==
    /\ Searchers \subseteq Callers
    /\ FailureThreshold \in Nat \ {0} /\ WindowSize \in Nat \ {0} /\ Cooldown \in Nat

VARIABLES
    onEventLoop,        \* the breaker is local_draft, and not chroma_rag
    outcomes,           \* results in the rolling window, oldest first
    state, openedAt,    \* openedAt: time since opening, or Never for None
    inFlight,           \* _half_open_in_flight
    pc,                 \* the attribute access each caller is about to make
    probing,            \* callers that allow_request let through as the probe
    up                  \* the dependency answers, and its answers can be read

breaker == <<outcomes, state, openedAt, inFlight>>
breakerVars == <<onEventLoop, breaker, pc, probing, up>>

Never == Cooldown + 1           \* opened_at is None: `opened_at or 0` is long ago

AllowSteps   == {"read_open", "read_age", "set_half", "reset_flight", "read_half",
                 "read_flight", "take_flight"}
SuccessSteps == {"append_success", "close_state", "close_age", "close_flight"}
FailureSteps == {"append_failure", "fail_flight", "fail_state", "fail_sum", "open_state",
                 "open_age"}
Steps == {"idle", "calling"} \cup AllowSteps \cup SuccessSteps \cup FailureSteps

Outside(c) == pc[c] \in {"idle", "calling"}
Quiet == \A c \in Callers : Outside(c)

BreakerInit ==
    /\ onEventLoop \in BOOLEAN
    /\ outcomes = <<>> /\ state = "closed" /\ openedAt = Never /\ inFlight = FALSE
    /\ pc = [c \in Callers |-> "idle"]
    /\ probing = {}
    /\ up = TRUE

\* Caller c takes the step labelled from and is next at the step labelled to.
Go(c, from, to) ==
    /\ pc[c] = from
    /\ onEventLoop => \A d \in Callers \ {c} : Outside(d)
    /\ UNCHANGED onEventLoop
    /\ pc' = [pc EXCEPT ![c] = to]

-----------------------------------------------------------------------------
(* allow_request *)

Ask(c) ==
    /\ ~onEventLoop /\ c \in Searchers => \A d \in Searchers : pc[d] = "idle"
    /\ Go(c, "idle", IF state = "closed" THEN "calling" ELSE "read_open")
    /\ UNCHANGED <<breaker, probing, up>>

\* Mutant of ReadOpen: an open breaker denies before it looks at the cooldown.
ReadOpenDenies(c) ==
    /\ Go(c, "read_open", IF state = "open" THEN "idle" ELSE "read_half")
    /\ UNCHANGED <<breaker, probing, up>>
ReadOpen(c) ==
    /\ Go(c, "read_open", IF state = "open" THEN "read_age" ELSE "read_half")
    /\ UNCHANGED <<breaker, probing, up>>

\* Mutant of Cooled: an off-by-one in the comparison.
CooledEarly == openedAt + 1 >= Cooldown
Cooled == openedAt >= Cooldown
ReadAge(c) ==
    /\ Go(c, "read_age", IF Cooled THEN "set_half" ELSE "read_half")
    /\ UNCHANGED <<breaker, probing, up>>

SetHalf(c) ==
    /\ Go(c, "set_half", "reset_flight")
    /\ state' = "half_open"
    /\ UNCHANGED <<outcomes, openedAt, inFlight, probing, up>>

ResetFlight(c) ==
    /\ Go(c, "reset_flight", "read_half")
    /\ inFlight' = FALSE
    /\ UNCHANGED <<outcomes, state, openedAt, probing, up>>

ReadHalf(c) ==
    /\ Go(c, "read_half", IF state = "half_open" THEN "read_flight" ELSE "idle")
    /\ UNCHANGED <<breaker, probing, up>>

ReadFlight(c) ==
    /\ Go(c, "read_flight", IF inFlight THEN "idle" ELSE "take_flight")
    /\ UNCHANGED <<breaker, probing, up>>

\* Mutant of TakeFlight: the slot is granted and not taken.
TakeFlightForgotten(c) ==
    /\ Go(c, "take_flight", "calling")
    /\ probing' = probing \cup {c}
    /\ UNCHANGED <<outcomes, state, openedAt, inFlight, up>>
TakeFlight(c) ==
    /\ Go(c, "take_flight", "calling")
    /\ inFlight' = TRUE
    /\ probing' = probing \cup {c}
    /\ UNCHANGED <<outcomes, state, openedAt, up>>

-----------------------------------------------------------------------------
(* The call itself *)

Answer(c) ==
    /\ Go(c, "calling", IF up THEN "append_success" ELSE "append_failure")
    /\ UNCHANGED <<breaker, probing, up>>

\* CancelledError is not an Exception: generate records nothing.  A thread that
\* runs retrieve_context is not stopped by the cancellation.
Cancel(c) ==
    /\ onEventLoop
    /\ Go(c, "calling", "idle")
    /\ probing' = probing \ {c}
    /\ UNCHANGED <<breaker, up>>

-----------------------------------------------------------------------------
(* record_success and record_failure *)

\* deque(maxlen=WindowSize).append
Append1(o) ==
    outcomes' = IF Len(outcomes) < WindowSize THEN Append(outcomes, o)
                ELSE Append(Tail(outcomes), o)

AppendSuccess(c) ==
    /\ Go(c, "append_success", "close_state")
    /\ Append1(TRUE)
    /\ UNCHANGED <<state, openedAt, inFlight, probing, up>>

CloseState(c) ==
    /\ Go(c, "close_state", "close_age")
    /\ state' = "closed"
    /\ UNCHANGED <<outcomes, openedAt, inFlight, probing, up>>

CloseAge(c) ==
    /\ Go(c, "close_age", "close_flight")
    /\ openedAt' = Never
    /\ UNCHANGED <<outcomes, state, inFlight, probing, up>>

\* cache_check_node reads the answer after record_success, in the same try: when that
\* raises, it records a failure as well.
AfterSuccess(c) == {"idle"} \cup
    (IF ~onEventLoop /\ c \notin Searchers /\ ~up THEN {"append_failure"} ELSE {})
CloseFlight(c) ==
    /\ \E next \in AfterSuccess(c) : Go(c, "close_flight", next)
    /\ inFlight' = FALSE
    /\ probing' = probing \ {c}
    /\ UNCHANGED <<outcomes, state, openedAt, up>>

AppendFailure(c) ==
    /\ Go(c, "append_failure", "fail_flight")
    /\ Append1(FALSE)
    /\ UNCHANGED <<state, openedAt, inFlight, probing, up>>

\* Mutant of FailFlight: the flag is not reset.
FailFlightForgotten(c) ==
    /\ Go(c, "fail_flight", "fail_state")
    /\ probing' = probing \ {c}
    /\ UNCHANGED <<outcomes, state, openedAt, inFlight, up>>
FailFlight(c) ==
    /\ Go(c, "fail_flight", "fail_state")
    /\ inFlight' = FALSE
    /\ probing' = probing \ {c}
    /\ UNCHANGED <<outcomes, state, openedAt, up>>

FailState(c) ==
    /\ Go(c, "fail_state", IF state = "half_open" THEN "open_state" ELSE "fail_sum")
    /\ UNCHANGED <<breaker, probing, up>>

Failures == Len(SelectSeq(outcomes, LAMBDA o : ~o))
FailSum(c) ==
    /\ Go(c, "fail_sum", IF Failures >= FailureThreshold THEN "open_state" ELSE "idle")
    /\ UNCHANGED <<breaker, probing, up>>

\* Another thread's append while the sum iterates over the deque: the iterator
\* raises RuntimeError, and record_failure ends there.
FailSumTorn(c) ==
    /\ ~onEventLoop
    /\ pc[c] = "fail_sum"
    /\ \E d \in Callers :
          /\ pc[d] \in {"append_success", "append_failure"}
          /\ Append1(pc[d] = "append_success")
          /\ pc' = [pc EXCEPT ![c] = "idle",
                              ![d] = IF @ = "append_success" THEN "close_state"
                                     ELSE "fail_flight"]
    /\ UNCHANGED <<onEventLoop, state, openedAt, inFlight, probing, up>>

OpenState(c) ==
    /\ Go(c, "open_state", "open_age")
    /\ state' = "open"
    /\ UNCHANGED <<outcomes, openedAt, inFlight, probing, up>>

OpenAge(c) ==
    /\ Go(c, "open_age", "idle")
    /\ openedAt' = 0
    /\ UNCHANGED <<outcomes, state, inFlight, probing, up>>

-----------------------------------------------------------------------------
Tick ==
    /\ openedAt < Cooldown
    /\ openedAt' = openedAt + 1
    /\ UNCHANGED <<onEventLoop, outcomes, state, inFlight, pc, probing, up>>

Health ==
    /\ up' = ~up
    /\ UNCHANGED <<onEventLoop, breaker, pc, probing>>

Allow(c) == \/ ReadOpen(c) \/ ReadAge(c) \/ SetHalf(c) \/ ResetFlight(c)
            \/ ReadHalf(c) \/ ReadFlight(c) \/ TakeFlight(c)
Record(c) == \/ AppendSuccess(c) \/ CloseState(c) \/ CloseAge(c) \/ CloseFlight(c)
             \/ AppendFailure(c) \/ FailFlight(c) \/ FailState(c) \/ FailSum(c)
             \/ FailSumTorn(c) \/ OpenState(c) \/ OpenAge(c)
Call(c) == Ask(c) \/ Allow(c) \/ Answer(c) \/ Record(c)

BreakerNext ==
        \/ \E c \in Callers : Call(c) \/ Cancel(c)
        \/ Tick \/ Health

\* Threads and tasks are scheduled, tickets keep coming, clients have timeouts,
\* time passes.  Nothing is assumed of the dependency or of cancellations.
BreakerFairness == WF_breakerVars(Tick) /\ \A c \in Callers : WF_breakerVars(Call(c))

BreakerSpec == BreakerInit /\ [][BreakerNext]_breakerVars /\ BreakerFairness

-----------------------------------------------------------------------------
(* Properties *)

\* The attributes and the callers are in the states the class and its users know.
BreakerTypeOK ==
    /\ outcomes \in Seq(BOOLEAN) /\ Len(outcomes) <= WindowSize
    /\ state \in {"closed", "open", "half_open"}
    /\ openedAt \in 0..Never
    /\ onEventLoop \in BOOLEAN /\ inFlight \in BOOLEAN /\ up \in BOOLEAN
    /\ pc \in [Callers -> Steps]
    /\ probing \subseteq Callers

\* In threads: while _half_open_in_flight denies everyone, some probe is under way that
\* will clear it, however the unlocked methods interleave.  (Not with cancellations.)
FlightOwned == ~onEventLoop /\ inFlight => probing # {}

\* In threads: once the dependency answers for good, the breaker closes for good, however
\* late the failures of calls from before arrive.
Recovers == ~onEventLoop /\ <>[]up => <>[](state = "closed")

\* The same of a breaker on the event loop, where a ticket may be cancelled.
RecoversOnLoop == onEventLoop /\ <>[]up => <>[](state = "closed")

\* On the event loop the state of a breaker between two methods is accounted for.  A
\* half-open one has its slot taken: no later caller gets a probe of its own in the same
\* half-open window.  An open one has just seen a failure: a success that arrives after
\* it opened closes it.
StateAccounted ==
    onEventLoop /\ Quiet =>
        /\ state = "half_open" => inFlight
        /\ state = "open" => outcomes # <<>> /\ ~outcomes[Len(outcomes)]

\* On the event loop an open breaker becomes half-open when the cooldown since its last
\* opening has passed, never because opened_at was lost (`opened_at or 0`).
CooldownKept == [][onEventLoop /\ state = "open" /\ state' = "half_open"
                   => openedAt = Cooldown]_breakerVars
=============================================================================
