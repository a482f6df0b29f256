------------------------------ MODULE GeminiPool ------------------------------
(***************************************************************************)
(* The pool of Gemini keys that drafting, judging, classification and      *)
(* llm_invoke share, and the attempts of those calls: executor threads and *)
(* the event loop take a key under the pool's lock, call the API without   *)
(* it, and take the lock again to mark a key dead.  Keys are numbered in   *)
(* the order of the cycle.                                                 *)
(***************************************************************************)
EXTENDS Integers, FiniteSets

CONSTANTS
    KeyCount,           \* keys that are configured
    Calls,
    Attempts            \* per call: 3 for a draft or a judgement, 1 for the others

ASSUME PoolAssumption ==
    KeyCount \in Nat \ {0} /\ Attempts \in [Calls -> Nat \ {0}]

Keys == 0..KeyCount - 1
NoKey == -1

VARIABLES
    cycle,              \* the index next(_cycle) returns
    dead,               \* _dead
    phase,              \* of a call: "ready", "calling", "rejected", "done", "failed"
    client,             \* the key of its attempt
    attempt,            \* attempts that have failed
    handed              \* how often each key was handed out

poolVars == <<cycle, dead, phase, client, attempt, handed>>

PoolInit ==
    /\ cycle = 0 /\ dead = {}
    /\ phase = [c \in Calls |-> "ready"] /\ client = [c \in Calls |-> NoKey]
    /\ attempt = [c \in Calls |-> 0] /\ handed = [k \in Keys |-> 0]

-----------------------------------------------------------------------------
After(n) == (cycle + n) % KeyCount

\* Mutant of Skipped: the cycle is tried from its start at every call.
SkippedFromStart == CHOOSE n \in 0..KeyCount - 1 :
    /\ After(n) \notin dead \/ n = KeyCount - 1
    /\ \A m \in 0..KeyCount - 1 : After(m) \notin dead => After(n) <= After(m)
\* How many keys of the cycle are passed over: up to the first that is not dead, or all
\* but the last.
Skipped == CHOOSE n \in 0..KeyCount - 1 :
    /\ After(n) \notin dead \/ n = KeyCount - 1
    /\ \A m \in 0..n - 1 : After(m) \in dead

GeminiClient(c) ==
    /\ phase[c] = "ready"
    /\ client' = [client EXCEPT ![c] = After(Skipped)]
    /\ cycle' = After(Skipped + 1)
    /\ handed' = [handed EXCEPT ![After(Skipped)] = @ + 1]
    /\ phase' = [phase EXCEPT ![c] = "calling"]
    /\ UNCHANGED <<dead, attempt>>

Generated(c) ==
    /\ phase[c] = "calling"
    /\ phase' = [phase EXCEPT ![c] = "done"]
    /\ UNCHANGED <<cycle, dead, client, attempt, handed>>

\* The attempt is over: another one after a pause, or the call raises.
AttemptFails(c) ==
    /\ attempt' = [attempt EXCEPT ![c] = @ + 1]
    /\ phase' = [phase EXCEPT ![c] = IF attempt[c] + 1 < Attempts[c] THEN "ready" ELSE "failed"]

\* A rate limit, an outage, or an answer that does not parse.
Fails(c) ==
    /\ phase[c] = "calling"
    /\ AttemptFails(c)
    /\ UNCHANGED <<cycle, dead, client, handed>>

\* An error that will never go away: suspended, no permission, not valid.  Any use may
\* be answered so, also of a key that was accepted before; "a suspended key can still
\* sometimes succeed" (gemini_client).
Rejected(c) ==
    /\ phase[c] = "calling"
    /\ phase' = [phase EXCEPT ![c] = "rejected"]
    /\ UNCHANGED <<cycle, dead, client, attempt, handed>>

MarkDead(c) ==
    /\ phase[c] = "rejected"
    /\ dead' = dead \cup {client[c]}
    /\ AttemptFails(c)
    /\ UNCHANGED <<cycle, client, handed>>

PoolNext == \E c \in Calls : \/ GeminiClient(c) \/ Generated(c) \/ Fails(c)
                             \/ Rejected(c) \/ MarkDead(c)

-----------------------------------------------------------------------------
(* Properties *)

\* However the calls of several threads overlap, keys that are not dead are used in
\* turn, none twice more than another, and a dead key is handed out only if all are:
\* "the next client in the round-robin pool, skipping any key already marked dead".
KeysShared ==
    /\ [](\A j, k \in Keys \ dead : handed[j] <= handed[k] + 1)
    /\ [][\A k \in Keys : handed'[k] # handed[k] => k \notin dead \/ dead = Keys]_poolVars
=============================================================================
