--------------------------- MODULE FailedAuthTracker ---------------------------
(***************************************************************************)
(* FailedAuthTracker: the failed authentications of each remote address in *)
(* a sliding window, in bounded memory, and the alert that they raise.     *)
(* The gateway, ticket-core and agent-review services hold the same class, *)
(* called by the entry point that answers 401.  recordFailure is           *)
(* synchronized: one call is one step.                                     *)
(***************************************************************************)
EXTENDS Integers, Sequences, FiniteSets

CONSTANTS
    Sources,
    Threshold, Window,
    MaxTracked,         \* MAX_TRACKED_SOURCES
    MaxTime, MaxFailures    \* bounds: the clock, and the failures of a source that are counted

ASSUME TrackerAssumption ==
    /\ IsFiniteSet(Sources)
    /\ Threshold \in Nat \ {0} /\ Window \in Nat \ {0}
    /\ MaxTracked \in Nat \ {0} /\ MaxTime \in Nat /\ MaxFailures \in Nat

VARIABLES
    clock,
    sources,            \* per tracked source, its failures and lastAlertAt ({} for null)
    outcome,            \* what the last call did: "none", "counted", "alerted", "untracked"
    counted,            \* every failure counted so far, per source
    alerts              \* when alerts were raised, per source

trackerVars == <<clock, sources, outcome, counted, alerts>>

TrackerInit ==
    /\ clock = 0 /\ sources = <<>> /\ outcome = "none"
    /\ counted = [s \in Sources |-> <<>>]
    /\ alerts = [s \in Sources |-> {}]

Elapsed(t) == clock - t >= Window

-----------------------------------------------------------------------------
\* Mutant of Stale: judged by the oldest failure kept.
StaleByOldest(w) == w.failures # <<>> => Elapsed(w.failures[1])
\* purgeStale forgets a source whose newest failure has left the window.
Stale(w) == w.failures # <<>> => Elapsed(w.failures[Len(w.failures)])

Purged == LET fresh == {s \in DOMAIN sources : ~Stale(sources[s])}
          IN  [s \in fresh |-> sources[s]]

\* What is kept when a failure of s arrives: stale sources go only when s is new and
\* there is no room for it.
Kept(s) == IF s \notin DOMAIN sources /\ Cardinality(DOMAIN sources) >= MaxTracked
           THEN Purged ELSE sources

NewWindow == [failures |-> <<>>, lastAlertAt |-> {}]

\* The failures that leave the head of the deque, one by one, up to the first that is
\* still in the window.
Expired(failures) == CHOOSE n \in 0..Len(failures) :
    /\ \A i \in 1..n : Elapsed(failures[i])
    /\ n < Len(failures) => ~Elapsed(failures[n + 1])

Recorded(failures) == Append(SubSeq(failures, Expired(failures) + 1, Len(failures)), clock)

RecordFailure(s) ==
    LET kept    == Kept(s)
        tracked == IF s \in DOMAIN kept THEN kept[s] ELSE NewWindow
        failures == Recorded(tracked.failures)
        alert   == Len(failures) >= Threshold /\ \A t \in tracked.lastAlertAt : Elapsed(t)
    IN  /\ s \in DOMAIN kept \/ Cardinality(DOMAIN kept) < MaxTracked
        /\ Len(counted[s]) < MaxFailures
        /\ sources' = [x \in DOMAIN kept \cup {s} |->
                IF x = s THEN [failures |-> failures,
                               lastAlertAt |-> IF alert THEN {clock} ELSE tracked.lastAlertAt]
                ELSE kept[x]]
        /\ outcome' = IF alert THEN "alerted" ELSE "counted"
        /\ counted' = [counted EXCEPT ![s] = Append(@, clock)]
        /\ alerts' = IF alert THEN [alerts EXCEPT ![s] = @ \cup {clock}] ELSE alerts
        /\ UNCHANGED clock

\* Full of sources that are not stale: the failure of a new one is not counted.
NotTracked(s) ==
    /\ s \notin DOMAIN Kept(s) /\ Cardinality(DOMAIN Kept(s)) >= MaxTracked
    /\ sources' = Kept(s)
    /\ outcome' = "untracked"
    /\ UNCHANGED <<clock, counted, alerts>>

ClockAdvances ==
    /\ clock < MaxTime
    /\ clock' = clock + 1
    /\ outcome' = "none"
    /\ UNCHANGED <<sources, counted, alerts>>

TrackerNext == \/ \E s \in Sources : RecordFailure(s) \/ NotTracked(s)
               \/ ClockAdvances

-----------------------------------------------------------------------------
(* Properties *)

Recent(s) == {i \in DOMAIN counted[s] : ~Elapsed(counted[s][i])}

UncountedOnlyIfFull ==
    outcome = "untracked" => Cardinality({s \in Sources : Recent(s) # {}}) >= MaxTracked

AlertDue(s) == /\ Cardinality(Recent(s)') >= Threshold
               /\ \A t \in alerts[s] : Elapsed(t)

\* Whatever has been purged and forgotten: a counted failure raises an alert exactly if
\* its source has Threshold failures in the window and had no alert in it ("An alert
\* fires at most once per window per source"); and a failure goes uncounted only while
\* MaxTracked sources have failed within the window.
AlertsExact ==
    /\ []UncountedOnlyIfFull
    /\ [][\A s \in Sources :
             counted'[s] # counted[s] => (outcome' = "alerted" <=> AlertDue(s))]_trackerVars
=============================================================================
