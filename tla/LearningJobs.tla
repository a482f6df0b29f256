----------------------------- MODULE LearningJobs -----------------------------
(***************************************************************************)
(* The three jobs that learn from what customers, agents and admins did:   *)
(* each orchestrator process runs each of them every 24 hours from its own *)
(* start, over the rows stamped in the 24 hours before the run.  A run     *)
(* fetches its rows and goes through them one by one, beside the runs of   *)
(* the other jobs: they read different tables, so that the fetches of one  *)
(* process are one step here.                                              *)
(*                                                                         *)
(* A row is stamped by the request that writes it, before the write can be *)
(* seen; a run starts when the scheduler gets to it, up to the grace after *)
(* it was due, or not at all.  All clocks are taken to agree.              *)
(***************************************************************************)
EXTENDS Integers, FiniteSets

CONSTANTS
    Ratings, Edits, Overrides,  \* rows of customer_feedback, human_reviews, score overrides
    JudgedHigh,                 \* the ratings of replies that the judge had scored high
    Instances,                  \* the processes whose scheduler runs the jobs
    Period,                     \* 24 hours: the interval and the lookback
    Grace,                      \* misfire_grace_time: a run later than that is skipped
    MaxNow, MaxTouches, MaxDisturbances     \* bounds

ASSUME LearningAssumption ==
    /\ JudgedHigh \subseteq Ratings /\ IsFiniteSet(Instances)
    /\ Period \in Nat \ {0} /\ Grace \in Nat
    /\ {MaxNow, MaxTouches, MaxDisturbances} \subseteq Nat

Items == Ratings \cup Edits \cup Overrides
Jobs == {Ratings, Edits, Overrides}

VARIABLES
    now,
    writes,             \* requests that have stamped a row and not written it yet
    item,               \* per row, when it was stamped, what it says, and what crossed it
    due, last,          \* per instance, when its jobs run next, and ran or were set up last
    batch,              \* ... and, per job, the rows it has yet to go through
    pool,               \* rows with an exemplar or a takeaway in Chroma, under an id of their own
    lines,              \* lines of the disagreement file, per rating
    settled,            \* rows whose last write a run has gone through
    touches, disturbances,
    restarted, hurt     \* instances that were restarted, that had a run fail, skipped or cut off

learningVars == <<now, writes, item, due, last, batch, pool, lines, settled, touches,
                  disturbances, restarted, hurt>>

LearningInit ==
    /\ now = 0 /\ touches = 0 /\ disturbances = 0
    /\ writes = {} /\ item = [i \in Items |-> [at |-> 0, says |-> "nothing", crossed |-> {}]]
    /\ due = [p \in Instances |-> Period] /\ last = [p \in Instances |-> 0]
    /\ batch = [p \in Instances |-> [j \in Jobs |-> {}]]
    /\ pool = {} /\ lines = [i \in Ratings |-> 0]
    /\ settled = {} /\ restarted = {} /\ hurt = {}

-----------------------------------------------------------------------------
(* The requests that write the rows *)

\* What a row can say: a score, whether the draft was changed, which way the score went.
Content(i) == CASE i \in Ratings -> {"positive", "neutral", "negative"}
                [] i \in Edits -> {"changed", "same"}
                [] i \in Overrides -> {"up", "down"}

\* A customer may rate again; a review and an override are written once.
Stamp(i) ==
    /\ touches < MaxTouches /\ touches' = touches + 1
    /\ i \in Ratings \/ (item[i].says = "nothing" /\ \A w \in writes : w.row # i)
    /\ \E c \in Content(i) : writes' = writes \cup
            {[row |-> i, at |-> now, says |-> c,
              crossed |-> {p \in Instances : last[p] > now - Grace}]}
    /\ UNCHANGED <<now, item, due, last, batch, pool, lines, settled, disturbances, restarted,
                   hurt>>

\* The write can be seen: an upsert by ticket, an update or an insert.
Commit(w) ==
    /\ item' = [item EXCEPT ![w.row] = [at |-> w.at, says |-> w.says, crossed |-> w.crossed]]
    /\ writes' = writes \ {w} /\ settled' = settled \ {w.row}
    /\ UNCHANGED <<now, due, last, batch, pool, lines, touches, disturbances, restarted, hurt>>

-----------------------------------------------------------------------------
(* The scheduler *)

\* By the end of the grace a run has started or was skipped.
TimePasses ==
    /\ now < MaxNow /\ \A p \in Instances : now < due[p] + Grace
    /\ now' = now + 1
    /\ UNCHANGED <<writes, item, due, last, batch, pool, lines, settled, touches, disturbances,
                   restarted, hurt>>

Disturbance == disturbances < MaxDisturbances /\ disturbances' = disturbances + 1

Busy(p) == \E j \in Jobs : batch[p][j] # {}

\* Mutant of InLookback: what was stamped at the cutoff is left to the run before.
InLookbackStrict(i) == item[i].says # "nothing" /\ item[i].at > now - Period
\* gte("updated_at", cutoff)
InLookback(i) == item[i].says # "nothing" /\ item[i].at >= now - Period

RowOf(i) == [row |-> i, at |-> item[i].at, says |-> item[i].says, unlogged |-> FALSE]

\* The runs of p, unless the ones before are still under way; one may fail to fetch its
\* rows.  The next are due an interval after these were.
Start(p, failing) ==
    /\ due[p] <= now /\ ~Busy(p)
    /\ due' = [due EXCEPT ![p] = @ + Period] /\ last' = [last EXCEPT ![p] = now]
    /\ batch' = [batch EXCEPT ![p] = [j \in Jobs |->
            IF j \in failing THEN {} ELSE {RowOf(i) : i \in {k \in j : InLookback(k)}}]]
    /\ writes' = {[w EXCEPT !.crossed = @ \cup {p}] : w \in writes}
    /\ UNCHANGED <<now, item, pool, lines, settled, touches, restarted>>

Run(p) == Start(p, {}) /\ UNCHANGED <<disturbances, hurt>>

FetchFails(p, j) == Start(p, {j}) /\ Disturbance /\ hurt' = hurt \cup {p}

\* A misfire.
Skip(p) ==
    /\ due[p] <= now /\ Disturbance
    /\ due' = [due EXCEPT ![p] = @ + Period] /\ hurt' = hurt \cup {p}
    /\ UNCHANGED <<now, writes, item, last, batch, pool, lines, settled, touches, restarted>>

\* The interval starts again with the process.
Restart(p) ==
    /\ Disturbance
    /\ due' = [due EXCEPT ![p] = now + Period] /\ last' = [last EXCEPT ![p] = now]
    /\ batch' = [batch EXCEPT ![p] = [j \in Jobs |-> {}]]
    /\ restarted' = restarted \cup {p} /\ hurt' = IF Busy(p) THEN hurt \cup {p} ELSE hurt
    /\ UNCHANGED <<now, writes, item, pool, lines, settled, touches>>

-----------------------------------------------------------------------------
(* The rows of a run *)

\* The row is done with: for good, if it was not written since it was fetched.
Settle(p, j, r) ==
    /\ batch' = [batch EXCEPT ![p][j] = @ \ {r}]
    /\ settled' = IF item[r.row].at = r.at /\ item[r.row].says = r.says
                  THEN settled \cup {r.row} ELSE settled
    /\ UNCHANGED <<now, writes, item, due, last, touches, disturbances, restarted, hurt>>

\* An upsert under the row's own id.
Learns(r) == pool' = pool \cup {r.row}

\* _sync_one of the feedback job: a positive rating is an exemplar; a negative one of a
\* reply the judge liked is logged unless the file, read before it is appended to,
\* has the ticket.
SyncFeedback(p, r) ==
    \/ r.says = "positive" /\ Learns(r) /\ Settle(p, Ratings, r) /\ UNCHANGED lines
    \/ /\ r.says # "positive"
       /\ r.says = "negative" => r.row \notin JudgedHigh
       /\ Settle(p, Ratings, r) /\ UNCHANGED <<pool, lines>>
    \/ /\ r.says = "negative" /\ r.row \in JudgedHigh /\ ~r.unlogged /\ lines[r.row] > 0
       /\ Settle(p, Ratings, r) /\ UNCHANGED <<pool, lines>>
    \/ /\ r.says = "negative" /\ r.row \in JudgedHigh /\ ~r.unlogged /\ lines[r.row] = 0
       /\ batch' = [batch EXCEPT ![p][Ratings] = (@ \ {r}) \cup {[r EXCEPT !.unlogged = TRUE]}]
       /\ UNCHANGED <<now, writes, item, due, last, pool, lines, settled, touches,
                      disturbances, restarted, hurt>>
    \/ /\ r.unlogged
       /\ lines' = [lines EXCEPT ![r.row] = @ + 1]
       /\ Settle(p, Ratings, r) /\ UNCHANGED pool

\* A changed draft is learned unless the model finds no lesson or leaks PII into it.
SyncEdit(p, r) ==
    /\ IF r.says = "changed" THEN Learns(r) \/ UNCHANGED pool ELSE UNCHANGED pool
    /\ Settle(p, Edits, r) /\ UNCHANGED lines

SyncOverride(p, r) ==
    /\ IF r.says = "up" THEN Learns(r) ELSE UNCHANGED pool
    /\ Settle(p, Overrides, r) /\ UNCHANGED lines

\* A row that raises is skipped.
RowFails(p, j) ==
    /\ Disturbance
    /\ \E r \in batch[p][j] : batch' = [batch EXCEPT ![p][j] = @ \ {r}]
    /\ hurt' = hurt \cup {p}
    /\ UNCHANGED <<now, writes, item, due, last, pool, lines, settled, touches, restarted>>

LearningNext ==
    \/ \E i \in Items : Stamp(i)
    \/ \E w \in writes : Commit(w)
    \/ \E p \in Instances :
          \/ Run(p) \/ Skip(p) \/ Restart(p)
          \/ \E j \in Jobs : FetchFails(p, j) \/ RowFails(p, j)
          \/ \E r \in batch[p][Ratings] : SyncFeedback(p, r)
          \/ \E r \in batch[p][Edits] : SyncEdit(p, r)
          \/ \E r \in batch[p][Overrides] : SyncOverride(p, r)
    \/ TimePasses

LearningSpec == LearningInit /\ [][LearningNext]_learningVars

-----------------------------------------------------------------------------
(* Properties *)

\* A process that was not restarted and had no run fail or skipped misses a row only when
\* it started a run, or was set up, within the grace before the row was stamped, or a run
\* before the row could be seen.  Any other row has been gone through an interval after its
\* stamp, or is in a run that is still under way.
MissesHaveCauses == \A i \in Items, p \in Instances \ (restarted \cup hurt) :
    item[i].says # "nothing" /\ p \notin item[i].crossed /\ now > item[i].at + Period
        => i \in settled \/ Busy(p)

\* A rating is logged once per process at most, restarts and repeated runs included.
LoggedOncePerProcess == \A i \in Ratings : lines[i] <= Cardinality(Instances)

\* The learning jobs miss no row but for the causes named, and log none again and again.
LearningAccounted == MissesHaveCauses /\ LoggedOncePerProcess

\* What the comment at the scheduler says, "a restart mid-cycle is harmless": where processes
\* were restarted between their runs, no run went wrong and none crossed the row, two
\* intervals are enough for it.
RestartHarmless == \A i \in Items :
    /\ item[i].says # "nothing" /\ item[i].crossed = {} /\ hurt = {}
    /\ now > item[i].at + 2 * (Period + Grace)
    => i \in settled \/ \E p \in Instances : Busy(p)
=============================================================================
