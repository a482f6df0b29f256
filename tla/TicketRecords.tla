----------------------------- MODULE TicketRecords -----------------------------
(***************************************************************************)
(* The database rows of one ticket and everyone who writes them: runs of   *)
(* background_orchestration (main.py), staff answers and deletions (PUT    *)
(* and DELETE of the Next.js route), and the orchestrator's own DELETE,    *)
(* which also cancels the ticket's graph task.                             *)
(*                                                                         *)
(* A ticket may have several runs: the queue redelivers it after a crash,  *)
(* or while a second worker recovers it, and /process_ticket starts one in *)
(* the API process.  A delivery runs in a worker process of its own; the   *)
(* runs of /process_ticket share the API's event loop with the DELETE      *)
(* endpoint, and active_tasks is that process's dictionary.                *)
(*                                                                         *)
(* A run's stage is what it does next:                                     *)
(*   preparing    reading the attachment, no graph task yet                *)
(*   graph        awaiting its graph task                                  *)
(*   cancelling   the task is cancelled, the run has not noticed           *)
(*   finished     the task has returned, the run has not resumed           *)
(*   escalating   in `except Exception`, about to mark the ticket          *)
(*   a table      about to insert its row there                            *)
(*   status       about to update tickets.status                           *)
(*   done, stopped (exception or crash), cancelled                         *)
(* A row is <<table, writer>>.  The classification and the drafts of a run *)
(* are its "details": nothing here tells them apart.  Texts, attachments   *)
(* and precedents are left out.                                            *)
(***************************************************************************)
EXTENDS Naturals, Sequences, SequencesExt

CONSTANTS
    Deliveries,         \* runs in worker processes
    ApiRuns,            \* runs of /process_ticket
    Staff,              \* PUT requests
    None,
    MaxFaults           \* bound on failed writes and crashes

Runs == Deliveries \cup ApiRuns

ASSUME RecordsAssumption ==
    /\ Deliveries \cap ApiRuns = {} /\ Runs \cap Staff = {}
    /\ None \notin Runs \cup Staff
    /\ MaxFaults \in Nat

VARIABLES
    exists, owned, status,  \* the row of tickets: there, with a user_id, its status
    rows, decided,          \* rows of the other tables; runs whose review is decided
    stage, outcome,         \* per run; what its graph said
    active,                 \* active_tasks[ticket_id] of the API process
    step, seen,             \* per PUT: where it is, the pending review it holds
    deleting,               \* where the staff's DELETE is
    doubt,                  \* a failed write took effect all the same, or an undo failed
    faults

ticketVars == <<exists, owned, status>>
tableVars  == <<rows, decided>>
runVars    == <<stage, outcome, active>>
staffVars  == <<step, seen, deleting>>
faultVars  == <<doubt, faults>>
vars == <<ticketVars, tableVars, runVars, staffVars, faultVars>>

Tables  == {"details", "review", "resolution"}
Graph   == {"graph", "cancelling", "finished"}
Writing == Tables \cup {"status", "escalating"}
Ended   == {"done", "stopped", "cancelled"}

\* Mutant of Plan: the status comes first, as it once did.
StatusFirst(o) ==
    CASE o = "resolved"  -> <<"status", "details", "resolution", "done">>
      [] o = "escalated" -> <<"status", "details", "review", "resolution", "done">>
\* The writes of a run after its graph, in order.
Plan(o) ==
    CASE o = "resolved"  -> <<"details", "resolution", "status", "done">>
      [] o = "escalated" -> <<"details", "review", "resolution", "status", "done">>
Outcomes == {"resolved", "escalated"}

\* A non-escalated resolution row.
Answer(w) == <<"resolution", w>> \in rows /\ (w \in Runs => outcome[w] # "escalated")
Pending == {r \in Runs : <<"review", r>> \in rows /\ r \notin decided}

Init ==
    /\ exists = TRUE /\ owned = TRUE /\ status = "received"
    /\ rows = {} /\ decided = {}
    /\ stage = [r \in Runs |-> "idle"] /\ outcome = [r \in Runs |-> "none"]
    /\ active = None
    /\ step = [s \in Staff |-> "idle"] /\ seen = [s \in Staff |-> None]
    /\ deleting = "no"
    /\ doubt = FALSE /\ faults = 0

\* The API's event loop is free: none of its runs is between two of its
\* synchronous database calls.
LoopFree == \A r \in ApiRuns : stage[r] \notin Writing

Become(r, from, to) ==
    /\ stage[r] = from /\ stage' = [stage EXCEPT ![r] = to]
    /\ r \in ApiRuns /\ from \notin Writing => LoopFree

Fault == faults < MaxFaults /\ faults' = faults + 1

\* The finally block: whichever run's task the entry names goes.
Pop(r) == active' = IF r \in ApiRuns THEN None ELSE active

-----------------------------------------------------------------------------
(* background_orchestration *)

\* A worker takes a message as it is; process_ticket asks for the owner first.
Begin(r) ==
    /\ r \in ApiRuns => exists /\ owned
    /\ Become(r, "idle", "preparing")
    /\ UNCHANGED <<ticketVars, tableVars, outcome, active, staffVars, faultVars>>

Register(r) ==
    /\ Become(r, "preparing", "graph")
    /\ active' = IF r \in ApiRuns THEN r ELSE active
    /\ UNCHANGED <<ticketVars, tableVars, outcome, staffVars, faultVars>>

GraphEnds(r) ==
    /\ Become(r, "graph", "finished")
    /\ \E o \in Outcomes : outcome' = [outcome EXCEPT ![r] = o]
    /\ UNCHANGED <<ticketVars, tableVars, active, staffVars, faultVars>>

\* Mutant of Resume: no finally block.
ResumeUnpopped(r) ==
    /\ Become(r, "finished", Head(Plan(outcome[r])))
    /\ UNCHANGED <<ticketVars, tableVars, outcome, active, staffVars, faultVars>>
Resume(r) ==
    /\ Become(r, "finished", Head(Plan(outcome[r])))
    /\ Pop(r)
    /\ UNCHANGED <<ticketVars, tableVars, outcome, staffVars, faultVars>>

\* CancelledError: the run returns and writes nothing.
Cancelled(r) ==
    /\ Become(r, "cancelling", "cancelled")
    /\ Pop(r)
    /\ UNCHANGED <<ticketVars, tableVars, outcome, staffVars, faultVars>>

\* The attachment could not be read, or the graph raised.
Raises(r) ==
    /\ Become(r, "preparing", "escalating") \/ Become(r, "graph", "escalating")
    /\ UNCHANGED <<ticketVars, tableVars, outcome, active, staffVars, faultVars>>

\* Mutants of MarkEscalated: a status nobody reads; the exception is only logged.
MarkFailed(r) ==
    /\ Become(r, "escalating", "stopped")
    /\ status' = IF exists THEN "failed" ELSE status
    /\ Pop(r)
    /\ UNCHANGED <<exists, owned, tableVars, outcome, staffVars, faultVars>>
LogOnly(r) ==
    /\ Become(r, "escalating", "stopped")
    /\ Pop(r)
    /\ UNCHANGED <<ticketVars, tableVars, outcome, staffVars, faultVars>>
MarkEscalated(r) ==
    /\ Become(r, "escalating", "stopped")
    /\ status' = IF exists THEN "escalated" ELSE status
    /\ Pop(r)
    /\ UNCHANGED <<exists, owned, tableVars, outcome, staffVars, faultVars>>

\* What comes after write t in r's plan.
After(r, t) == LET plan == Plan(outcome[r])
                   i == CHOOSE i \in DOMAIN plan : plan[i] = t
               IN  plan[i + 1]

\* An insert; the foreign key refuses a row of a ticket that is gone.
Insert(r) ==
    /\ exists
    /\ \E t \in Tables :
          /\ Become(r, t, After(r, t))
          /\ rows' = rows \cup {<<t, r>>}
    /\ UNCHANGED <<ticketVars, decided, outcome, active, staffVars, faultVars>>

\* Mutant of InsertRefused: an insert that raises is skipped.
InsertSkipped(r) ==
    /\ ~exists \/ Fault
    /\ exists \/ UNCHANGED faults
    /\ \E t \in Tables : Become(r, t, After(r, t))
    /\ UNCHANGED <<ticketVars, tableVars, outcome, active, staffVars, doubt>>
\* An insert that raises ends the run: the ticket is gone, or the call failed,
\* having taken effect or not.
InsertRefused(r) ==
    /\ \E t \in Tables :
          /\ Become(r, t, "stopped")
          /\ \/ ~exists /\ UNCHANGED <<rows, faultVars>>
             \/ exists /\ Fault /\ UNCHANGED <<rows, doubt>>
             \/ exists /\ Fault /\ rows' = rows \cup {<<t, r>>} /\ doubt' = TRUE
    /\ UNCHANGED <<ticketVars, decided, outcome, active, staffVars>>

FinalStatus(r) == IF outcome[r] = "escalated" THEN "escalated" ELSE "resolved"

SetStatus(r) ==
    /\ Become(r, "status", After(r, "status"))
    /\ status' = IF exists THEN FinalStatus(r) ELSE status
    /\ UNCHANGED <<exists, owned, tableVars, outcome, active, staffVars, faultVars>>

StatusFails(r) ==
    /\ Fault
    /\ \/ Become(r, "status", "stopped") \/ (Become(r, "escalating", "stopped") /\ Pop(r))
    /\ stage[r] = "status" => UNCHANGED active
    /\ \/ UNCHANGED <<status, doubt>>
       \/ /\ exists /\ doubt' = TRUE
          /\ status' = IF stage[r] = "escalating" THEN "escalated" ELSE FinalStatus(r)
    /\ UNCHANGED <<exists, owned, tableVars, outcome, staffVars>>

\* A process dies with the runs in it.
Crash(r) ==
    LET dead == {q \in IF r \in ApiRuns THEN ApiRuns ELSE {r} :
                    stage[q] \notin Ended \cup {"idle"}}
    IN  /\ r \in dead /\ Fault
        /\ stage' = [q \in Runs |-> IF q \in dead THEN "stopped" ELSE stage[q]]
        /\ Pop(r)
        /\ UNCHANGED <<ticketVars, tableVars, outcome, staffVars, doubt>>

-----------------------------------------------------------------------------
(* DELETE /customer_tickets/{ticket_id}, on the API's event loop *)

\* task.cancel() does nothing to a task that has returned.
CancelTask == stage' = IF active # None /\ stage[active] = "graph"
                       THEN [stage EXCEPT ![active] = "cancelling"] ELSE stage

\* The owner's deletion, or an admin's without force, clears user_id.
SoftDelete ==
    /\ LoopFree
    /\ CancelTask
    /\ \/ owned' = (owned /\ ~exists) /\ UNCHANGED faults
       \/ Fault /\ UNCHANGED owned
    /\ UNCHANGED <<exists, status, tableVars, outcome, active, staffVars, doubt>>

\* An admin's removes the ticket, and the foreign keys cascade.
ForceDelete ==
    /\ LoopFree
    /\ CancelTask
    /\ \/ exists' = FALSE /\ rows' = {} /\ UNCHANGED faults
       \/ Fault /\ UNCHANGED <<exists, rows>>
    /\ UNCHANGED <<owned, status, decided, outcome, active, staffVars, doubt>>

-----------------------------------------------------------------------------
(* DELETE /api/tickets: table by table, and nothing is cancelled *)

NextTable == [details |-> "resolution", resolution |-> "review", review |-> "ticket"]

StartDelete ==
    /\ deleting = "no"
    /\ deleting' = "details"
    /\ UNCHANGED <<ticketVars, tableVars, runVars, step, seen, faultVars>>

\* The result of these deletions is not looked at.
DeleteTable ==
    /\ deleting \in Tables
    /\ deleting' = NextTable[deleting]
    /\ \/ rows' = {x \in rows : x[1] # deleting} /\ UNCHANGED faults
       \/ Fault /\ UNCHANGED rows
    /\ UNCHANGED <<ticketVars, decided, runVars, step, seen, doubt>>

DeleteTicket ==
    /\ deleting = "ticket"
    /\ deleting' = "ended"
    /\ \/ exists' = FALSE /\ rows' = {} /\ UNCHANGED faults
       \/ Fault /\ UNCHANGED <<exists, rows>>
    /\ UNCHANGED <<owned, status, decided, runVars, step, seen, doubt>>

-----------------------------------------------------------------------------
(* PUT /api/tickets *)

Advance(s, from, to) == step[s] = from /\ step' = [step EXCEPT ![s] = to]

AlreadyAnswered == status = "resolved" \/ \E w \in Runs \cup Staff : Answer(w)

\* 404, 409, or on with a pending review.
Check(s) ==
    /\ \/ /\ exists /\ ~AlreadyAnswered
          /\ Advance(s, "idle", "inserting")
          /\ \E r \in IF Pending = {} THEN {None} ELSE Pending : seen' = [seen EXCEPT ![s] = r]
       \/ /\ ~exists \/ AlreadyAnswered
          /\ Advance(s, "idle", "refused")
          /\ UNCHANGED seen
    /\ UNCHANGED <<ticketVars, tableVars, runVars, deleting, faultVars>>

InsertAnswer(s) ==
    /\ \/ /\ exists /\ Advance(s, "inserting", "resolving")
          /\ rows' = rows \cup {<<"resolution", s>>}
          /\ UNCHANGED faultVars
          /\ UNCHANGED seen
       \/ /\ ~exists /\ Advance(s, "inserting", "failed")
          /\ seen' = [seen EXCEPT ![s] = None]
          /\ UNCHANGED <<rows, faultVars>>
       \/ /\ exists /\ Fault /\ Advance(s, "inserting", "failed")
          /\ seen' = [seen EXCEPT ![s] = None]
          /\ \/ UNCHANGED <<rows, doubt>>
             \/ rows' = rows \cup {<<"resolution", s>>} /\ doubt' = TRUE
    /\ UNCHANGED <<ticketVars, decided, runVars, deleting>>

ResolveTicket(s) ==
    /\ \/ /\ Advance(s, "resolving", "reviewing")
          /\ status' = IF exists THEN "resolved" ELSE status
          /\ UNCHANGED faultVars
       \/ /\ Fault /\ Advance(s, "resolving", "undoing")
          /\ \/ UNCHANGED <<status, doubt>>
             \/ exists /\ status' = "resolved" /\ doubt' = TRUE
    /\ UNCHANGED <<exists, owned, tableVars, runVars, seen, deleting>>

\* Mutant of OwnAnswer: the compensation deletes by ticket.
AnyAnswer(s) == {x \in rows : x[1] = "resolution"}
OwnAnswer(s) == {<<"resolution", s>>}

\* Mutant of Undo: there is no compensation.
UndoForgotten(s) ==
    /\ Advance(s, "undoing", "failed")
    /\ seen' = [seen EXCEPT ![s] = None]
    /\ UNCHANGED <<ticketVars, tableVars, runVars, deleting, faultVars>>
\* The compensation, whose result is not looked at.
Undo(s) ==
    /\ Advance(s, "undoing", "failed")
    /\ \/ rows' = rows \ OwnAnswer(s) /\ UNCHANGED faultVars
       \/ Fault /\ doubt' = TRUE /\ UNCHANGED rows
    /\ seen' = [seen EXCEPT ![s] = None]
    /\ UNCHANGED <<ticketVars, decided, runVars, deleting>>

\* The review, best effort.
DecideReview(s) ==
    /\ Advance(s, "reviewing", "answered")
    /\ \/ /\ decided' = decided \cup ({seen[s]} \cap {r \in Runs : <<"review", r>> \in rows})
          /\ UNCHANGED faults
       \/ Fault /\ seen[s] # None /\ UNCHANGED decided
    /\ seen' = [seen EXCEPT ![s] = None]
    /\ UNCHANGED <<ticketVars, rows, runVars, deleting, doubt>>

-----------------------------------------------------------------------------
RunStep(r) == \/ Register(r) \/ GraphEnds(r) \/ Resume(r) \/ Cancelled(r) \/ MarkEscalated(r)
              \/ Insert(r) \/ InsertRefused(r) \/ SetStatus(r)
Put(s) == InsertAnswer(s) \/ ResolveTicket(s) \/ Undo(s) \/ DecideReview(s)

\* Nothing is under way.
Quiet == /\ \A r \in Runs : stage[r] \in Ended \cup {"idle"}
         /\ \A s \in Staff : step[s] \in {"idle", "refused", "answered", "failed"}
         /\ UNCHANGED vars

Next == \/ \E r \in Runs : Begin(r) \/ RunStep(r) \/ Raises(r) \/ StatusFails(r) \/ Crash(r)
        \/ SoftDelete \/ ForceDelete
        \/ StartDelete \/ DeleteTable \/ DeleteTicket
        \/ \E s \in Staff : Check(s) \/ Put(s)
        \/ Quiet

Spec == Init /\ [][Next]_vars

-----------------------------------------------------------------------------
(* Properties *)

\* Rows belong to a ticket that exists, a run that is idle or preparing is not in
\* active_tasks, and the other variables are in their types.
TypeOK ==
    /\ exists \in BOOLEAN /\ owned \in BOOLEAN
    /\ status \in {"received", "escalated", "resolved"}
    /\ rows \subseteq (Tables \X Runs) \cup ({"resolution"} \X Staff)
    /\ ~exists => rows = {}
    /\ decided \subseteq Runs
    /\ stage \in [Runs -> {"idle", "preparing"} \cup Graph \cup Writing \cup Ended]
    /\ outcome \in [Runs -> Outcomes \cup {"none"}]
    /\ active \in ApiRuns \cup {None}
    /\ step \in [Staff -> {"idle", "refused", "inserting", "resolving", "undoing",
                           "reviewing", "answered", "failed"}]
    /\ seen \in [Staff -> Runs \cup {None}]
    /\ deleting \in Tables \cup {"no", "ticket", "ended"}
    /\ doubt \in BOOLEAN
    /\ faults \in 0..MaxFaults

\* A run that ended well has all its rows, whoever else wrote, answered, took an
\* answer back or deleted meanwhile (main.py: "only after every supporting row
\* above has been written successfully").
FinishedIsComplete ==
    exists /\ deleting = "no" =>
        \A r \in Runs : stage[r] = "done" =>
            \A i \in DOMAIN Plan(outcome[r]) :
                Plan(outcome[r])[i] \in Tables => <<Plan(outcome[r])[i], r>> \in rows

\* A ticket marked resolved has an answer, with runs, PUTs and their compensations
\* interleaved.  Not so once a failed write took effect all the same: a PUT then
\* takes its answer back and leaves the status it has set.
ResolvedIsAnswered ==
    status = "resolved" /\ exists /\ deleting = "no" /\ ~doubt =>
        \E w \in Runs \cup Staff : Answer(w)

\* A PUT that told the agent it failed left no answer behind: else every retry
\* would be refused with 409.
FailedPutLeavesNothing ==
    \A s \in Staff : step[s] = "failed" /\ ~doubt => ~Answer(s)

\* active_tasks never keeps a run that has begun to write or has ended, so a
\* deletion cannot cut a run off between its rows.
ActiveIsLive == active # None => stage[active] \in Graph \cup {"escalating"}

\* The answer of a PUT that succeeds is not removed by another PUT or by a run.
AnswerKept ==
    [][\A s \in Staff : step[s] \in {"reviewing", "answered"} /\ Answer(s) /\ deleting = "no"
                          => Answer(s)' \/ ~exists']_vars

\* Where no write failed and no process died, a run that has ended without being
\* cancelled has given its ticket a final status, exceptions in the graph included.
EndIsVisible ==
    \A r \in Runs : stage[r] \in {"done", "stopped"} /\ exists /\ faults = 0 =>
        status # "received"

\* DELETE /customer_tickets, once it has cleared the owner: "Ticket deleted and
\* processing stopped."
ProcessingStopped ==
    ~owned => \A r \in Runs : stage[r] \in Ended \cup {"idle", "cancelling"}

\* The architecture document: optimistic locking prevents concurrent overwrites,
\* so two agents do not both answer a ticket.
OneAnswer == \A s, z \in Staff : Answer(s) /\ Answer(z) => s = z
=============================================================================
