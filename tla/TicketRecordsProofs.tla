-------------------------- MODULE TicketRecordsProofs --------------------------
(***************************************************************************)
(* Proofs about TicketRecords for any number of deliveries, API runs,      *)
(* agents and faults.  Inv adds to the properties what makes them          *)
(* inductive: what a run has written when it is about to write, and what   *)
(* an answer's PUT has behind it.                                          *)
(***************************************************************************)
EXTENDS TicketRecords, TLAPS

USE RecordsAssumption

Stages == {"idle", "preparing"} \cup Graph \cup Writing \cup Ended

-----------------------------------------------------------------------------
(* The actions, and what a run writes next *)

\* Every step is a step of one run, of one PUT, of a deletion, or a stutter.
LEMMA StepCases ==
    ASSUME [Next]_vars
    PROVE  \/ \E r \in Runs :
              \/ Begin(r) \/ Register(r) \/ GraphEnds(r) \/ Resume(r) \/ Cancelled(r)
              \/ Raises(r) \/ MarkEscalated(r) \/ Insert(r) \/ InsertRefused(r)
              \/ SetStatus(r) \/ StatusFails(r) \/ Crash(r)
           \/ SoftDelete \/ ForceDelete \/ StartDelete \/ DeleteTable \/ DeleteTicket
           \/ \E s \in Staff :
              \/ Check(s) \/ InsertAnswer(s) \/ ResolveTicket(s) \/ Undo(s) \/ DecideReview(s)
           \/ UNCHANGED vars
BY DEF Next, RunStep, Put, Quiet

\* The plan's order: details, the review of an escalated ticket, the resolution,
\* the status.
LEMMA PlanOrder ==
    ASSUME NEW r \in Runs, outcome[r] \in Outcomes
    PROVE  /\ Head(Plan(outcome[r])) = "details"
           /\ After(r, "details") = IF outcome[r] = "escalated" THEN "review" ELSE "resolution"
           /\ outcome[r] = "escalated" => After(r, "review") = "resolution"
           /\ After(r, "resolution") = "status"
           /\ After(r, "status") = "done"
<1>1. CASE outcome[r] = "resolved"
  <2>1. Plan(outcome[r]) = <<"details", "resolution", "status", "done">>
    BY <1>1 DEF Plan
  <2> QED
    BY <1>1, <2>1 DEF After
<1>2. CASE outcome[r] = "escalated"
  <2>1. Plan(outcome[r]) = <<"details", "review", "resolution", "status", "done">>
    BY <1>2 DEF Plan
  <2> QED
    BY <1>2, <2>1 DEF After
<1> QED
  BY <1>1, <1>2 DEF Outcomes

\* What an insertion does: the row, and the stage that follows in the plan.
LEMMA InsertWrites ==
    ASSUME NEW r \in Runs, Insert(r), outcome[r] \in Outcomes,
           stage[r] = "review" => outcome[r] = "escalated"
    PROVE  \/ /\ stage[r] = "details" /\ rows' = rows \cup {<<"details", r>>}
              /\ stage' = [stage EXCEPT ![r] = IF outcome[r] = "escalated" THEN "review"
                                               ELSE "resolution"]
           \/ /\ stage[r] = "review" /\ rows' = rows \cup {<<"review", r>>}
              /\ stage' = [stage EXCEPT ![r] = "resolution"]
           \/ /\ stage[r] = "resolution" /\ rows' = rows \cup {<<"resolution", r>>}
              /\ stage' = [stage EXCEPT ![r] = "status"]
BY PlanOrder DEF Insert, Become, Tables

\* What a run's graph has said by the time the run writes.
PlanInv ==
    \A r \in Runs :
        /\ stage[r] \in Tables \cup {"finished", "status", "done"} => outcome[r] \in Outcomes
        /\ stage[r] = "review" => outcome[r] = "escalated"

-----------------------------------------------------------------------------
(* Type correctness *)

\* A new ticket has no rows and nothing under way.
LEMMA InitType == Init => TypeOK /\ PlanInv
<1>1. 0 \in 0..MaxFaults
  OBVIOUS
<1> QED
  BY <1>1 DEF Init, TypeOK, PlanInv, Tables

\* The bound on faults is kept, and a fault is counted.
LEMMA FaultType ==
    ASSUME faults \in 0..MaxFaults, Fault
    PROVE  faults' \in 0..MaxFaults /\ faults' # 0
BY DEF Fault

\* No step, of whatever process, takes a variable out of its type, or leaves a
\* row of a ticket that is gone.
LEMMA TypeStep ==
    ASSUME TypeOK, PlanInv, [Next]_vars
    PROVE  TypeOK'
<1>1. ASSUME NEW r \in Runs, Begin(r) PROVE TypeOK'
  BY <1>1 DEF Begin, Become, TypeOK, ticketVars, tableVars, staffVars, faultVars
<1>2. ASSUME NEW r \in Runs, Register(r) PROVE TypeOK'
  BY <1>2
  DEF Register, Become, TypeOK, Graph, ticketVars, tableVars, staffVars, faultVars
<1>3. ASSUME NEW r \in Runs, GraphEnds(r) PROVE TypeOK'
  BY <1>3
  DEF GraphEnds, Become, TypeOK, Graph, ticketVars, tableVars, staffVars, faultVars
<1>4. ASSUME NEW r \in Runs, Resume(r) PROVE TypeOK'
  BY <1>4, PlanOrder
  DEF Resume, Become, Pop, TypeOK, PlanInv, Writing, Tables, ticketVars, tableVars,
      staffVars, faultVars
<1>5. ASSUME NEW r \in Runs, Cancelled(r) PROVE TypeOK'
  BY <1>5
  DEF Cancelled, Become, Pop, TypeOK, Ended, ticketVars, tableVars, staffVars, faultVars
<1>6. ASSUME NEW r \in Runs, Raises(r) PROVE TypeOK'
  BY <1>6
  DEF Raises, Become, TypeOK, Writing, ticketVars, tableVars, staffVars, faultVars
<1>7. ASSUME NEW r \in Runs, MarkEscalated(r) PROVE TypeOK'
  BY <1>7 DEF MarkEscalated, Become, Pop, TypeOK, Ended, tableVars, staffVars, faultVars
<1>8. ASSUME NEW r \in Runs, Insert(r) PROVE TypeOK'
  <2>1. outcome[r] \in Outcomes /\ (stage[r] = "review" => outcome[r] = "escalated")
    BY <1>8 DEF Insert, Become, PlanInv
  <2> QED
    BY <1>8, <2>1, InsertWrites
    DEF Insert, TypeOK, Writing, Tables, ticketVars, staffVars, faultVars
<1>9. ASSUME NEW r \in Runs, InsertRefused(r) PROVE TypeOK'
  <2> PICK t \in Tables :
        /\ Become(r, t, "stopped")
        /\ \/ ~exists /\ UNCHANGED <<rows, faultVars>>
           \/ exists /\ Fault /\ UNCHANGED <<rows, doubt>>
           \/ exists /\ Fault /\ rows' = rows \cup {<<t, r>>} /\ doubt' = TRUE
    BY <1>9 DEF InsertRefused
  <2>1. stage' = [stage EXCEPT ![r] = "stopped"]
    BY DEF Become
  <2>2. <<t, r>> \in Tables \X Runs
    OBVIOUS
  <2>3. /\ rows' \subseteq (Tables \X Runs) \cup ({"resolution"} \X Staff)
        /\ ~exists => rows' = {}
    BY <2>2 DEF TypeOK
  <2>4. faults' \in 0..MaxFaults /\ doubt' \in BOOLEAN
    BY FaultType DEF TypeOK, faultVars
  <2> QED
    BY <1>9, <2>1, <2>3, <2>4 DEF InsertRefused, TypeOK, Ended, ticketVars, staffVars
<1>10. ASSUME NEW r \in Runs, SetStatus(r) PROVE TypeOK'
  BY <1>10, PlanOrder
  DEF SetStatus, Become, FinalStatus, TypeOK, PlanInv, Ended, tableVars, staffVars,
      faultVars
<1>11. ASSUME NEW r \in Runs, StatusFails(r) PROVE TypeOK'
  BY <1>11, FaultType
  DEF StatusFails, Become, Pop, FinalStatus, TypeOK, Ended, tableVars, staffVars
<1>12. ASSUME NEW r \in Runs, Crash(r) PROVE TypeOK'
  BY <1>12, FaultType DEF Crash, Pop, TypeOK, Ended, ticketVars, tableVars, staffVars
<1>13. ASSUME SoftDelete PROVE TypeOK'
  BY <1>13, FaultType DEF SoftDelete, CancelTask, TypeOK, Graph, tableVars, staffVars
<1>14. ASSUME ForceDelete PROVE TypeOK'
  <2>1. stage' \in [Runs -> {"idle", "preparing"} \cup Graph \cup Writing \cup Ended]
    BY <1>14 DEF ForceDelete, CancelTask, TypeOK, Graph
  <2>2. faults' \in 0..MaxFaults
    BY <1>14, FaultType DEF ForceDelete, TypeOK
  <2>3. /\ exists' \in BOOLEAN /\ (~exists' => rows' = {})
        /\ rows' \subseteq (Tables \X Runs) \cup ({"resolution"} \X Staff)
    <3>1. CASE exists' = FALSE /\ rows' = {}
      BY <3>1
    <3>2. CASE UNCHANGED <<exists, rows>>
      BY <3>2 DEF TypeOK
    <3> QED
      BY <1>14, <3>1, <3>2 DEF ForceDelete
  <2> QED
    BY <1>14, <2>1, <2>2, <2>3 DEF ForceDelete, TypeOK, staffVars
<1>15. ASSUME StartDelete PROVE TypeOK'
  BY <1>15 DEF StartDelete, TypeOK, Tables, ticketVars, tableVars, runVars, faultVars
<1>16. ASSUME DeleteTable PROVE TypeOK'
  BY <1>16, FaultType DEF DeleteTable, NextTable, TypeOK, Tables, ticketVars, runVars
<1>17. ASSUME DeleteTicket PROVE TypeOK'
  BY <1>17, FaultType DEF DeleteTicket, TypeOK, runVars
<1>18. ASSUME NEW s \in Staff, Check(s) PROVE TypeOK'
  <2>1. seen' \in [Staff -> Runs \cup {None}]
    BY <1>18 DEF Check, TypeOK, Pending
  <2> QED
    BY <1>18, <2>1 DEF Check, Advance, TypeOK, ticketVars, tableVars, runVars, faultVars
<1>19. ASSUME NEW s \in Staff, InsertAnswer(s) PROVE TypeOK'
  <2>1. /\ step' \in [Staff -> {"idle", "refused", "inserting", "resolving", "undoing",
                               "reviewing", "answered", "failed"}]
        /\ seen' \in [Staff -> Runs \cup {None}]
    BY <1>19 DEF InsertAnswer, Advance, TypeOK
  <2>2. faults' \in 0..MaxFaults /\ doubt' \in BOOLEAN
    BY <1>19, FaultType DEF InsertAnswer, TypeOK, faultVars
  <2>3. <<"resolution", s>> \in {"resolution"} \X Staff
    OBVIOUS
  <2>4. /\ rows' \subseteq (Tables \X Runs) \cup ({"resolution"} \X Staff)
        /\ ~exists => rows' = {}
    BY <1>19, <2>3 DEF InsertAnswer, TypeOK
  <2> QED
    BY <1>19, <2>1, <2>2, <2>4 DEF InsertAnswer, TypeOK, ticketVars, runVars
<1>20. ASSUME NEW s \in Staff, ResolveTicket(s) PROVE TypeOK'
  BY <1>20, FaultType DEF ResolveTicket, Advance, TypeOK, tableVars, runVars, faultVars
<1>21. ASSUME NEW s \in Staff, Undo(s) PROVE TypeOK'
  BY <1>21, FaultType DEF Undo, Advance, TypeOK, ticketVars, runVars, faultVars
<1>22. ASSUME NEW s \in Staff, DecideReview(s) PROVE TypeOK'
  BY <1>22, FaultType DEF DecideReview, Advance, TypeOK, ticketVars, runVars
<1>23. ASSUME UNCHANGED vars PROVE TypeOK'
  BY <1>23 DEF vars, TypeOK, ticketVars, tableVars, runVars, staffVars, faultVars
<1> QED
  BY <1>1, <1>2, <1>3, <1>4, <1>5, <1>6, <1>7, <1>8, <1>9, <1>10, <1>11, <1>12, <1>13,
     <1>14, <1>15, <1>16, <1>17, <1>18, <1>19, <1>20, <1>21, <1>22, <1>23, StepCases

-----------------------------------------------------------------------------
(* The inductive invariant *)

\* What a run has written when it comes to a stage.
RunInv ==
    exists /\ deleting = "no" =>
        \A r \in Runs :
            /\ stage[r] \in {"review", "resolution", "status", "done"} =>
                  <<"details", r>> \in rows
            /\ stage[r] \in {"resolution", "status", "done"} /\ outcome[r] = "escalated" =>
                  <<"review", r>> \in rows
            /\ stage[r] \in {"status", "done"} => <<"resolution", r>> \in rows

\* A run has no rows before its graph has ended, so no graph ends that would turn
\* an escalated row into an answer or back.
EarlyInv ==
    \A r \in Runs : stage[r] \in {"idle", "preparing"} \cup Graph => <<"resolution", r>> \notin rows

\* An answer's row is there while its PUT goes on with it, and not before, nor
\* after the PUT has failed.
PutInv ==
    \A s \in Staff :
        /\ step[s] \in {"resolving", "reviewing", "answered"} /\ exists /\ deleting = "no" =>
              <<"resolution", s>> \in rows
        /\ step[s] \in {"idle", "refused", "inserting", "failed"} /\ ~doubt =>
              <<"resolution", s>> \notin rows

\* A resolved ticket has the answer of a run, or of a PUT that will not take it back.
SafeAnswer == \/ \E r \in Runs : Answer(r)
              \/ \E s \in Staff : step[s] \in {"reviewing", "answered"} /\ Answer(s)
AnswerInv ==
    status = "resolved" /\ exists /\ deleting = "no" /\ ~doubt => SafeAnswer

\* The parts, each of which uses those before it.
Inv == /\ TypeOK /\ PlanInv /\ ActiveIsLive /\ RunInv /\ EarlyInv
       /\ PutInv /\ AnswerInv /\ EndIsVisible

\* A graph's end gives the outcome by which the run then writes.
LEMMA PlanStep ==
    ASSUME TypeOK, PlanInv, [Next]_vars
    PROVE  PlanInv'
<1>1. ASSUME NEW r \in Runs, Begin(r) PROVE PlanInv'
  BY <1>1 DEF Begin, Become, PlanInv, TypeOK, Tables
<1>2. ASSUME NEW r \in Runs, Register(r) PROVE PlanInv'
  BY <1>2 DEF Register, Become, PlanInv, TypeOK, Tables
<1>3. ASSUME NEW r \in Runs, GraphEnds(r) PROVE PlanInv'
  BY <1>3 DEF GraphEnds, Become, PlanInv, TypeOK
<1>4. ASSUME NEW r \in Runs, Resume(r) PROVE PlanInv'
  BY <1>4, PlanOrder DEF Resume, Become, PlanInv, TypeOK
<1>5. ASSUME NEW r \in Runs, Cancelled(r) PROVE PlanInv'
  BY <1>5 DEF Cancelled, Become, PlanInv, TypeOK, Tables
<1>6. ASSUME NEW r \in Runs, Raises(r) PROVE PlanInv'
  BY <1>6 DEF Raises, Become, PlanInv, TypeOK, Tables
<1>7. ASSUME NEW r \in Runs, MarkEscalated(r) PROVE PlanInv'
  BY <1>7 DEF MarkEscalated, Become, PlanInv, TypeOK, Tables
<1>8. ASSUME NEW r \in Runs, Insert(r) PROVE PlanInv'
  <2>1. outcome[r] \in Outcomes /\ (stage[r] = "review" => outcome[r] = "escalated")
    BY <1>8 DEF Insert, Become, PlanInv
  <2> QED
    BY <1>8, <2>1, InsertWrites DEF Insert, TypeOK, PlanInv
<1>9. ASSUME NEW r \in Runs, InsertRefused(r) PROVE PlanInv'
  BY <1>9 DEF InsertRefused, Become, PlanInv, TypeOK
<1>10. ASSUME NEW r \in Runs, SetStatus(r) PROVE PlanInv'
  BY <1>10, PlanOrder DEF SetStatus, Become, PlanInv, TypeOK
<1>11. ASSUME NEW r \in Runs, StatusFails(r) PROVE PlanInv'
  BY <1>11 DEF StatusFails, Become, PlanInv, TypeOK, Tables
<1>12. ASSUME NEW r \in Runs, Crash(r) PROVE PlanInv'
  BY <1>12 DEF Crash, PlanInv, TypeOK, Tables
<1>13. ASSUME SoftDelete PROVE PlanInv'
  BY <1>13 DEF SoftDelete, CancelTask, PlanInv, TypeOK, Tables
<1>14. ASSUME ForceDelete PROVE PlanInv'
  BY <1>14 DEF ForceDelete, CancelTask, PlanInv, TypeOK, Tables
<1>15. ASSUME StartDelete PROVE PlanInv'
  BY <1>15 DEF StartDelete, PlanInv, TypeOK, runVars
<1>16. ASSUME DeleteTable PROVE PlanInv'
  BY <1>16 DEF DeleteTable, PlanInv, TypeOK, runVars
<1>17. ASSUME DeleteTicket PROVE PlanInv'
  BY <1>17 DEF DeleteTicket, PlanInv, TypeOK, runVars
<1>18. ASSUME NEW s \in Staff, Check(s) PROVE PlanInv'
  BY <1>18 DEF Check, PlanInv, TypeOK, runVars
<1>19. ASSUME NEW s \in Staff, InsertAnswer(s) PROVE PlanInv'
  BY <1>19 DEF InsertAnswer, PlanInv, TypeOK, runVars
<1>20. ASSUME NEW s \in Staff, ResolveTicket(s) PROVE PlanInv'
  BY <1>20 DEF ResolveTicket, PlanInv, TypeOK, runVars
<1>21. ASSUME NEW s \in Staff, Undo(s) PROVE PlanInv'
  BY <1>21 DEF Undo, PlanInv, TypeOK, runVars
<1>22. ASSUME NEW s \in Staff, DecideReview(s) PROVE PlanInv'
  BY <1>22 DEF DecideReview, PlanInv, TypeOK, runVars
<1>23. ASSUME UNCHANGED vars PROVE PlanInv'
  BY <1>23 DEF vars, PlanInv, TypeOK, runVars
<1> QED
  BY <1>1, <1>2, <1>3, <1>4, <1>5, <1>6, <1>7, <1>8, <1>9, <1>10, <1>11, <1>12, <1>13,
     <1>14, <1>15, <1>16, <1>17, <1>18, <1>19, <1>20, <1>21, <1>22, <1>23, StepCases

\* A run clears the entry before it writes, and no other run of its process is
\* in the middle of its writes when the entry is set.
LEMMA ActiveStep ==
    ASSUME TypeOK, PlanInv, ActiveIsLive, [Next]_vars
    PROVE  ActiveIsLive'
<1>1. ASSUME NEW r \in Runs, Begin(r) PROVE ActiveIsLive'
  BY <1>1 DEF Begin, Become, ActiveIsLive, TypeOK, Graph
<1>2. ASSUME NEW r \in Runs, Register(r) PROVE ActiveIsLive'
  BY <1>2 DEF Register, Become, ActiveIsLive, TypeOK, Graph
<1>3. ASSUME NEW r \in Runs, GraphEnds(r) PROVE ActiveIsLive'
  BY <1>3 DEF GraphEnds, Become, ActiveIsLive, TypeOK, Graph
<1>4. ASSUME NEW r \in Runs, Resume(r) PROVE ActiveIsLive'
  BY <1>4 DEF Resume, Become, Pop, ActiveIsLive, TypeOK
<1>5. ASSUME NEW r \in Runs, Cancelled(r) PROVE ActiveIsLive'
  BY <1>5 DEF Cancelled, Become, Pop, ActiveIsLive, TypeOK
<1>6. ASSUME NEW r \in Runs, Raises(r) PROVE ActiveIsLive'
  BY <1>6 DEF Raises, Become, ActiveIsLive, Runs, TypeOK
<1>7. ASSUME NEW r \in Runs, MarkEscalated(r) PROVE ActiveIsLive'
  BY <1>7 DEF MarkEscalated, Become, Pop, ActiveIsLive, TypeOK
<1>8. ASSUME NEW r \in Runs, Insert(r) PROVE ActiveIsLive'
  <2>1. outcome[r] \in Outcomes /\ (stage[r] = "review" => outcome[r] = "escalated")
    BY <1>8 DEF Insert, Become, PlanInv
  <2> QED
    BY <1>8, <2>1, InsertWrites DEF Insert, TypeOK, ActiveIsLive, Graph, Runs
<1>9. ASSUME NEW r \in Runs, InsertRefused(r) PROVE ActiveIsLive'
  BY <1>9 DEF InsertRefused, Become, ActiveIsLive, TypeOK, Graph, Tables
<1>10. ASSUME NEW r \in Runs, SetStatus(r) PROVE ActiveIsLive'
  BY <1>10 DEF SetStatus, Become, ActiveIsLive, TypeOK, Graph
<1>11. ASSUME NEW r \in Runs, StatusFails(r) PROVE ActiveIsLive'
  BY <1>11 DEF StatusFails, Become, Pop, ActiveIsLive, Runs, TypeOK, Graph
<1>12. ASSUME NEW r \in Runs, Crash(r) PROVE ActiveIsLive'
  BY <1>12 DEF Crash, Pop, ActiveIsLive, Runs, TypeOK
<1>13. ASSUME SoftDelete PROVE ActiveIsLive'
  BY <1>13 DEF SoftDelete, CancelTask, ActiveIsLive, TypeOK, Graph
<1>14. ASSUME ForceDelete PROVE ActiveIsLive'
  BY <1>14 DEF ForceDelete, CancelTask, ActiveIsLive, TypeOK, Graph
<1>15. ASSUME StartDelete PROVE ActiveIsLive'
  BY <1>15 DEF StartDelete, ActiveIsLive, TypeOK, runVars
<1>16. ASSUME DeleteTable PROVE ActiveIsLive'
  BY <1>16 DEF DeleteTable, ActiveIsLive, TypeOK, runVars
<1>17. ASSUME DeleteTicket PROVE ActiveIsLive'
  BY <1>17 DEF DeleteTicket, ActiveIsLive, TypeOK, runVars
<1>18. ASSUME NEW s \in Staff, Check(s) PROVE ActiveIsLive'
  BY <1>18 DEF Check, ActiveIsLive, TypeOK, runVars
<1>19. ASSUME NEW s \in Staff, InsertAnswer(s) PROVE ActiveIsLive'
  BY <1>19 DEF InsertAnswer, ActiveIsLive, TypeOK, runVars
<1>20. ASSUME NEW s \in Staff, ResolveTicket(s) PROVE ActiveIsLive'
  BY <1>20 DEF ResolveTicket, ActiveIsLive, TypeOK, runVars
<1>21. ASSUME NEW s \in Staff, Undo(s) PROVE ActiveIsLive'
  BY <1>21 DEF Undo, ActiveIsLive, TypeOK, runVars
<1>22. ASSUME NEW s \in Staff, DecideReview(s) PROVE ActiveIsLive'
  BY <1>22 DEF DecideReview, ActiveIsLive, TypeOK, runVars
<1>23. ASSUME UNCHANGED vars PROVE ActiveIsLive'
  BY <1>23 DEF vars, ActiveIsLive, TypeOK, runVars
<1> QED
  BY <1>1, <1>2, <1>3, <1>4, <1>5, <1>6, <1>7, <1>8, <1>9, <1>10, <1>11, <1>12, <1>13,
     <1>14, <1>15, <1>16, <1>17, <1>18, <1>19, <1>20, <1>21, <1>22, <1>23, StepCases

\* Rows go only with the ticket, with the staff's deletion, or with a PUT of their
\* own.
LEMMA RunStepInv ==
    ASSUME TypeOK, PlanInv, RunInv, [Next]_vars
    PROVE  RunInv'
<1>1. ASSUME NEW r \in Runs, Begin(r) PROVE RunInv'
  BY <1>1 DEF Begin, Become, RunInv, TypeOK, ticketVars, tableVars, staffVars
<1>2. ASSUME NEW r \in Runs, Register(r) PROVE RunInv'
  BY <1>2 DEF Register, Become, RunInv, TypeOK, ticketVars, tableVars, staffVars
<1>3. ASSUME NEW r \in Runs, GraphEnds(r) PROVE RunInv'
  BY <1>3 DEF GraphEnds, Become, RunInv, TypeOK, ticketVars, tableVars, staffVars
<1>4. ASSUME NEW r \in Runs, Resume(r) PROVE RunInv'
  BY <1>4, PlanOrder
  DEF Resume, Become, RunInv, TypeOK, ticketVars, tableVars, staffVars, PlanInv
<1>5. ASSUME NEW r \in Runs, Cancelled(r) PROVE RunInv'
  BY <1>5 DEF Cancelled, Become, RunInv, TypeOK, ticketVars, tableVars, staffVars
<1>6. ASSUME NEW r \in Runs, Raises(r) PROVE RunInv'
  BY <1>6 DEF Raises, Become, RunInv, TypeOK, ticketVars, tableVars, staffVars
<1>7. ASSUME NEW r \in Runs, MarkEscalated(r) PROVE RunInv'
  BY <1>7 DEF MarkEscalated, Become, RunInv, TypeOK, tableVars, staffVars
<1>8. ASSUME NEW r \in Runs, Insert(r) PROVE RunInv'
  <2>1. outcome[r] \in Outcomes /\ (stage[r] = "review" => outcome[r] = "escalated")
    BY <1>8 DEF Insert, Become, PlanInv
  <2>2. /\ rows \subseteq rows'
        /\ UNCHANGED <<exists, deleting, outcome>>
    BY <1>8 DEF Insert, ticketVars, staffVars
  <2> SUFFICES ASSUME exists, deleting = "no", NEW q \in Runs
               PROVE  RunInv!2!(q)'
    BY <2>2 DEF RunInv
  <2>3. CASE q = r
    BY <2>1, <2>2, <2>3, InsertWrites, <1>8 DEF RunInv, TypeOK
  <2>4. CASE q # r
    <3>1. stage'[q] = stage[q]
      BY <2>1, <2>4, InsertWrites, <1>8 DEF TypeOK
    <3> QED
      BY <2>2, <3>1 DEF RunInv
  <2> QED
    BY <2>3, <2>4
<1>9. ASSUME NEW r \in Runs, InsertRefused(r) PROVE RunInv'
  BY <1>9 DEF InsertRefused, Become, RunInv, TypeOK, ticketVars, staffVars
<1>10. ASSUME NEW r \in Runs, SetStatus(r) PROVE RunInv'
  BY <1>10 DEF SetStatus, Become, RunInv, TypeOK, tableVars, staffVars
<1>11. ASSUME NEW r \in Runs, StatusFails(r) PROVE RunInv'
  BY <1>11 DEF StatusFails, Become, RunInv, TypeOK, tableVars, staffVars
<1>12. ASSUME NEW r \in Runs, Crash(r) PROVE RunInv'
  BY <1>12 DEF Crash, RunInv, TypeOK, ticketVars, tableVars, staffVars
<1>13. ASSUME SoftDelete PROVE RunInv'
  BY <1>13 DEF SoftDelete, CancelTask, RunInv, TypeOK, tableVars, staffVars
<1>14. ASSUME ForceDelete PROVE RunInv'
  BY <1>14 DEF ForceDelete, CancelTask, RunInv, TypeOK, staffVars
<1>15. ASSUME StartDelete PROVE RunInv'
  BY <1>15 DEF StartDelete, RunInv, TypeOK
<1>16. ASSUME DeleteTable PROVE RunInv'
  <2>1. deleting' # "no"
    BY <1>16 DEF DeleteTable, NextTable, Tables
  <2> QED
    BY <2>1 DEF RunInv
<1>17. ASSUME DeleteTicket PROVE RunInv'
  BY <1>17 DEF DeleteTicket, RunInv, TypeOK
<1>18. ASSUME NEW s \in Staff, Check(s) PROVE RunInv'
  BY <1>18 DEF Check, RunInv, TypeOK, ticketVars, tableVars, runVars
<1>19. ASSUME NEW s \in Staff, InsertAnswer(s) PROVE RunInv'
  BY <1>19 DEF InsertAnswer, RunInv, TypeOK, ticketVars, runVars
<1>20. ASSUME NEW s \in Staff, ResolveTicket(s) PROVE RunInv'
  BY <1>20 DEF ResolveTicket, RunInv, TypeOK, tableVars, runVars
<1>21. ASSUME NEW s \in Staff, Undo(s) PROVE RunInv'
  BY <1>21 DEF Undo, OwnAnswer, RunInv, TypeOK, ticketVars, runVars
<1>22. ASSUME NEW s \in Staff, DecideReview(s) PROVE RunInv'
  BY <1>22 DEF DecideReview, RunInv, TypeOK, ticketVars, runVars
<1>23. ASSUME UNCHANGED vars PROVE RunInv'
  BY <1>23 DEF vars, RunInv, TypeOK, ticketVars, tableVars, runVars, staffVars
<1> QED
  BY <1>1, <1>2, <1>3, <1>4, <1>5, <1>6, <1>7, <1>8, <1>9, <1>10, <1>11, <1>12, <1>13,
     <1>14, <1>15, <1>16, <1>17, <1>18, <1>19, <1>20, <1>21, <1>22, <1>23, StepCases

\* A run writes only after its graph.
LEMMA EarlyStep ==
    ASSUME TypeOK, PlanInv, EarlyInv, [Next]_vars
    PROVE  EarlyInv'
<1>1. ASSUME NEW r \in Runs, Begin(r) PROVE EarlyInv'
  BY <1>1 DEF Begin, Become, EarlyInv, TypeOK, tableVars
<1>2. ASSUME NEW r \in Runs, Register(r) PROVE EarlyInv'
  BY <1>2 DEF Register, Become, EarlyInv, TypeOK, tableVars
<1>3. ASSUME NEW r \in Runs, GraphEnds(r) PROVE EarlyInv'
  BY <1>3 DEF GraphEnds, Become, EarlyInv, TypeOK, Graph, tableVars
<1>4. ASSUME NEW r \in Runs, Resume(r) PROVE EarlyInv'
  BY <1>4 DEF Resume, Become, EarlyInv, TypeOK, Graph, tableVars
<1>5. ASSUME NEW r \in Runs, Cancelled(r) PROVE EarlyInv'
  BY <1>5 DEF Cancelled, Become, EarlyInv, TypeOK, Graph, tableVars
<1>6. ASSUME NEW r \in Runs, Raises(r) PROVE EarlyInv'
  BY <1>6 DEF Raises, Become, EarlyInv, TypeOK, Graph, tableVars
<1>7. ASSUME NEW r \in Runs, MarkEscalated(r) PROVE EarlyInv'
  BY <1>7 DEF MarkEscalated, Become, EarlyInv, TypeOK, Graph, tableVars
<1>8. ASSUME NEW r \in Runs, Insert(r) PROVE EarlyInv'
  <2>1. outcome[r] \in Outcomes /\ (stage[r] = "review" => outcome[r] = "escalated")
    BY <1>8 DEF Insert, Become, PlanInv
  <2> QED
    BY <1>8, <2>1, InsertWrites DEF Insert, TypeOK, EarlyInv, Graph
<1>9. ASSUME NEW r \in Runs, InsertRefused(r) PROVE EarlyInv'
  BY <1>9 DEF InsertRefused, Become, EarlyInv, TypeOK, Graph
<1>10. ASSUME NEW r \in Runs, SetStatus(r) PROVE EarlyInv'
  BY <1>10, PlanOrder DEF SetStatus, Become, EarlyInv, TypeOK, Graph, tableVars, PlanInv
<1>11. ASSUME NEW r \in Runs, StatusFails(r) PROVE EarlyInv'
  BY <1>11 DEF StatusFails, Become, EarlyInv, TypeOK, Graph, tableVars
<1>12. ASSUME NEW r \in Runs, Crash(r) PROVE EarlyInv'
  BY <1>12 DEF Crash, EarlyInv, TypeOK, Graph, tableVars
<1>13. ASSUME SoftDelete PROVE EarlyInv'
  BY <1>13 DEF SoftDelete, CancelTask, EarlyInv, TypeOK, Graph, tableVars
<1>14. ASSUME ForceDelete PROVE EarlyInv'
  BY <1>14 DEF ForceDelete, CancelTask, EarlyInv, TypeOK, Graph
<1>15. ASSUME StartDelete PROVE EarlyInv'
  BY <1>15 DEF StartDelete, EarlyInv, TypeOK, tableVars, runVars
<1>16. ASSUME DeleteTable PROVE EarlyInv'
  BY <1>16 DEF DeleteTable, EarlyInv, TypeOK, runVars
<1>17. ASSUME DeleteTicket PROVE EarlyInv'
  BY <1>17 DEF DeleteTicket, EarlyInv, TypeOK, runVars
<1>18. ASSUME NEW s \in Staff, Check(s) PROVE EarlyInv'
  BY <1>18 DEF Check, EarlyInv, TypeOK, tableVars, runVars
<1>19. ASSUME NEW s \in Staff, InsertAnswer(s) PROVE EarlyInv'
  BY <1>19 DEF InsertAnswer, EarlyInv, TypeOK, runVars
<1>20. ASSUME NEW s \in Staff, ResolveTicket(s) PROVE EarlyInv'
  BY <1>20 DEF ResolveTicket, EarlyInv, TypeOK, tableVars, runVars
<1>21. ASSUME NEW s \in Staff, Undo(s) PROVE EarlyInv'
  BY <1>21 DEF Undo, EarlyInv, TypeOK, runVars
<1>22. ASSUME NEW s \in Staff, DecideReview(s) PROVE EarlyInv'
  BY <1>22 DEF DecideReview, EarlyInv, TypeOK, runVars
<1>23. ASSUME UNCHANGED vars PROVE EarlyInv'
  BY <1>23 DEF vars, EarlyInv, TypeOK, tableVars, runVars
<1> QED
  BY <1>1, <1>2, <1>3, <1>4, <1>5, <1>6, <1>7, <1>8, <1>9, <1>10, <1>11, <1>12, <1>13,
     <1>14, <1>15, <1>16, <1>17, <1>18, <1>19, <1>20, <1>21, <1>22, <1>23, StepCases

\* A PUT's row comes with its insertion and goes with its compensation.
LEMMA PutStep ==
    ASSUME TypeOK, PlanInv, PutInv, [Next]_vars
    PROVE  PutInv'
<1>1. ASSUME NEW r \in Runs, Begin(r) PROVE PutInv'
  BY <1>1 DEF Begin, PutInv, TypeOK, ticketVars, tableVars, staffVars, faultVars
<1>2. ASSUME NEW r \in Runs, Register(r) PROVE PutInv'
  BY <1>2 DEF Register, PutInv, TypeOK, ticketVars, tableVars, staffVars, faultVars
<1>3. ASSUME NEW r \in Runs, GraphEnds(r) PROVE PutInv'
  BY <1>3 DEF GraphEnds, PutInv, TypeOK, ticketVars, tableVars, staffVars, faultVars
<1>4. ASSUME NEW r \in Runs, Resume(r) PROVE PutInv'
  BY <1>4 DEF Resume, PutInv, TypeOK, ticketVars, tableVars, staffVars, faultVars
<1>5. ASSUME NEW r \in Runs, Cancelled(r) PROVE PutInv'
  BY <1>5 DEF Cancelled, PutInv, TypeOK, ticketVars, tableVars, staffVars, faultVars
<1>6. ASSUME NEW r \in Runs, Raises(r) PROVE PutInv'
  BY <1>6 DEF Raises, PutInv, TypeOK, ticketVars, tableVars, staffVars, faultVars
<1>7. ASSUME NEW r \in Runs, MarkEscalated(r) PROVE PutInv'
  BY <1>7 DEF MarkEscalated, PutInv, TypeOK, tableVars, staffVars, faultVars
<1>8. ASSUME NEW r \in Runs, Insert(r) PROVE PutInv'
  <2>1. outcome[r] \in Outcomes /\ (stage[r] = "review" => outcome[r] = "escalated")
    BY <1>8 DEF Insert, Become, PlanInv
  <2> QED
    BY <1>8, <2>1, InsertWrites DEF Insert, TypeOK, PutInv, staffVars, faultVars
<1>9. ASSUME NEW r \in Runs, InsertRefused(r) PROVE PutInv'
  <2>1. /\ rows \subseteq rows' /\ UNCHANGED <<exists, step, deleting>>
        /\ ~doubt' => ~doubt
    BY <1>9 DEF InsertRefused, ticketVars, staffVars, faultVars
  <2>2. \A s \in Staff : <<"resolution", s>> \in rows' => <<"resolution", s>> \in rows
    BY <1>9 DEF InsertRefused
  <2> QED
    BY <2>1, <2>2 DEF PutInv
<1>10. ASSUME NEW r \in Runs, SetStatus(r) PROVE PutInv'
  BY <1>10 DEF SetStatus, PutInv, TypeOK, tableVars, staffVars, faultVars
<1>11. ASSUME NEW r \in Runs, StatusFails(r) PROVE PutInv'
  <2>1. /\ UNCHANGED <<exists, step, deleting, rows>>
        /\ ~doubt' => ~doubt
    BY <1>11 DEF StatusFails, tableVars, staffVars
  <2> QED
    BY <2>1 DEF PutInv
<1>12. ASSUME NEW r \in Runs, Crash(r) PROVE PutInv'
  BY <1>12 DEF Crash, PutInv, TypeOK, ticketVars, tableVars, staffVars
<1>13. ASSUME SoftDelete PROVE PutInv'
  BY <1>13 DEF SoftDelete, PutInv, TypeOK, tableVars, staffVars
<1>14. ASSUME ForceDelete PROVE PutInv'
  BY <1>14 DEF ForceDelete, PutInv, TypeOK, staffVars
<1>15. ASSUME StartDelete PROVE PutInv'
  BY <1>15 DEF StartDelete, PutInv, TypeOK, tableVars, faultVars
<1>16. ASSUME DeleteTable PROVE PutInv'
  <2>1. /\ deleting' # "no" /\ rows' \subseteq rows
        /\ UNCHANGED <<step, doubt>>
    BY <1>16 DEF DeleteTable, NextTable, Tables
  <2> QED
    BY <2>1 DEF PutInv
<1>17. ASSUME DeleteTicket PROVE PutInv'
  BY <1>17 DEF DeleteTicket, PutInv, TypeOK
<1>18. ASSUME NEW s \in Staff, Check(s) PROVE PutInv'
  BY <1>18 DEF Check, Advance, PutInv, TypeOK, ticketVars, tableVars, faultVars
<1>19. ASSUME NEW s \in Staff, InsertAnswer(s) PROVE PutInv'
  <2>1. /\ rows \subseteq rows' /\ UNCHANGED <<exists, deleting>>
        /\ doubt' = doubt \/ doubt' = TRUE
        /\ rows' \subseteq rows \cup {<<"resolution", s>>}
    BY <1>19 DEF InsertAnswer, ticketVars, faultVars
  <2>2. \/ /\ step' = [step EXCEPT ![s] = "resolving"]
           /\ rows' = rows \cup {<<"resolution", s>>}
        \/ /\ step[s] = "inserting" /\ step' = [step EXCEPT ![s] = "failed"]
           /\ rows' = rows \/ doubt' = TRUE
    BY <1>19 DEF InsertAnswer, Advance
  <2> SUFFICES ASSUME NEW z \in Staff
               PROVE  PutInv!(z)'
    BY DEF PutInv
  <2>3. CASE z = s
    BY <2>1, <2>2, <2>3 DEF PutInv, TypeOK
  <2>4. CASE z # s
    <3>1. step'[z] = step[z] /\ (<<"resolution", z>> \in rows' <=> <<"resolution", z>> \in rows)
      BY <2>1, <2>2, <2>4 DEF TypeOK
    <3> QED
      BY <2>1, <3>1 DEF PutInv
  <2> QED
    BY <2>3, <2>4
<1>20. ASSUME NEW s \in Staff, ResolveTicket(s) PROVE PutInv'
  BY <1>20 DEF ResolveTicket, Advance, PutInv, TypeOK, tableVars, faultVars
<1>21. ASSUME NEW s \in Staff, Undo(s) PROVE PutInv'
  BY <1>21 DEF Undo, Advance, OwnAnswer, PutInv, TypeOK, ticketVars, faultVars
<1>22. ASSUME NEW s \in Staff, DecideReview(s) PROVE PutInv'
  BY <1>22 DEF DecideReview, Advance, PutInv, TypeOK, ticketVars
<1>23. ASSUME UNCHANGED vars PROVE PutInv'
  BY <1>23 DEF vars, PutInv, TypeOK, ticketVars, tableVars, staffVars, faultVars
<1> QED
  BY <1>1, <1>2, <1>3, <1>4, <1>5, <1>6, <1>7, <1>8, <1>9, <1>10, <1>11, <1>12, <1>13,
     <1>14, <1>15, <1>16, <1>17, <1>18, <1>19, <1>20, <1>21, <1>22, <1>23, StepCases


\* An answer stays while no row goes and no run or PUT changes its mind.
LEMMA AnswerStays ==
    ASSUME SafeAnswer, rows \subseteq rows', UNCHANGED <<outcome, step>>
    PROVE  SafeAnswer'
BY DEF SafeAnswer, Answer
\* Only a run with its resolution written and a PUT with its answer inserted set
\* the status to resolved, and neither's row goes while the ticket stays.
LEMMA AnswerStep ==
    ASSUME TypeOK, PlanInv, RunInv, EarlyInv, PutInv, AnswerInv, [Next]_vars
    PROVE  AnswerInv'
<1>1. ASSUME NEW r \in Runs, Begin(r) PROVE AnswerInv'
  BY <1>1
  DEF Begin, AnswerInv, SafeAnswer, Answer, TypeOK, ticketVars, tableVars, staffVars,
      faultVars
<1>2. ASSUME NEW r \in Runs, Register(r) PROVE AnswerInv'
  BY <1>2
  DEF Register, AnswerInv, SafeAnswer, Answer, TypeOK, ticketVars, tableVars, staffVars,
      faultVars
<1>3. ASSUME NEW r \in Runs, GraphEnds(r) PROVE AnswerInv'
  <2>1. <<"resolution", r>> \notin rows
    BY <1>3 DEF GraphEnds, Become, EarlyInv, Graph
  <2>2. \A q \in Runs : q # r => outcome'[q] = outcome[q]
    BY <1>3 DEF GraphEnds, TypeOK
  <2>3. UNCHANGED <<exists, status, rows, step, deleting, doubt>>
    BY <1>3 DEF GraphEnds, ticketVars, tableVars, staffVars, faultVars
  <2> QED
    BY <2>1, <2>2, <2>3 DEF AnswerInv, SafeAnswer, Answer
<1>4. ASSUME NEW r \in Runs, Resume(r) PROVE AnswerInv'
  BY <1>4
  DEF Resume, AnswerInv, SafeAnswer, Answer, TypeOK, ticketVars, tableVars, staffVars,
      faultVars
<1>5. ASSUME NEW r \in Runs, Cancelled(r) PROVE AnswerInv'
  BY <1>5
  DEF Cancelled, AnswerInv, SafeAnswer, Answer, TypeOK, ticketVars, tableVars,
      staffVars, faultVars
<1>6. ASSUME NEW r \in Runs, Raises(r) PROVE AnswerInv'
  BY <1>6
  DEF Raises, AnswerInv, SafeAnswer, Answer, TypeOK, ticketVars, tableVars, staffVars,
      faultVars
<1>7. ASSUME NEW r \in Runs, MarkEscalated(r) PROVE AnswerInv'
  BY <1>7 DEF MarkEscalated, AnswerInv, TypeOK
<1>8. ASSUME NEW r \in Runs, Insert(r) PROVE AnswerInv'
  <2>1. outcome[r] \in Outcomes /\ (stage[r] = "review" => outcome[r] = "escalated")
    BY <1>8 DEF Insert, Become, PlanInv
  <2> QED
    BY <1>8, <2>1, InsertWrites
    DEF Insert, TypeOK, AnswerInv, SafeAnswer, Answer, ticketVars, staffVars, faultVars
<1>9. ASSUME NEW r \in Runs, InsertRefused(r) PROVE AnswerInv'
  <2>1. /\ rows \subseteq rows' /\ (~doubt' => ~doubt)
        /\ UNCHANGED <<exists, status, outcome, step, deleting>>
    BY <1>9 DEF InsertRefused, TypeOK, ticketVars, staffVars, faultVars
  <2> QED
    BY <2>1, AnswerStays DEF AnswerInv
<1>10. ASSUME NEW r \in Runs, SetStatus(r) PROVE AnswerInv'
  BY <1>10
  DEF SetStatus, Become, FinalStatus, AnswerInv, SafeAnswer, Answer, TypeOK, tableVars,
      staffVars, RunInv
<1>11. ASSUME NEW r \in Runs, StatusFails(r) PROVE AnswerInv'
  <2>1. /\ rows \subseteq rows' /\ UNCHANGED <<exists, outcome, step, deleting>>
        /\ ~doubt' => ~doubt /\ UNCHANGED status
    BY <1>11 DEF StatusFails, TypeOK, tableVars, staffVars
  <2> QED
    BY <2>1, AnswerStays DEF AnswerInv
<1>12. ASSUME NEW r \in Runs, Crash(r) PROVE AnswerInv'
  BY <1>12
  DEF Crash, AnswerInv, SafeAnswer, Answer, TypeOK, ticketVars, tableVars, staffVars
<1>13. ASSUME SoftDelete PROVE AnswerInv'
  BY <1>13 DEF SoftDelete, AnswerInv, SafeAnswer, Answer, TypeOK, tableVars, staffVars
<1>14. ASSUME ForceDelete PROVE AnswerInv'
  BY <1>14 DEF ForceDelete, AnswerInv, SafeAnswer, Answer, TypeOK, staffVars
<1>15. ASSUME StartDelete PROVE AnswerInv'
  BY <1>15 DEF StartDelete, AnswerInv, TypeOK
<1>16. ASSUME DeleteTable PROVE AnswerInv'
  BY <1>16 DEF DeleteTable, NextTable, AnswerInv, TypeOK, Tables
<1>17. ASSUME DeleteTicket PROVE AnswerInv'
  BY <1>17 DEF DeleteTicket, AnswerInv, TypeOK
<1>18. ASSUME NEW s \in Staff, Check(s) PROVE AnswerInv'
  BY <1>18
  DEF Check, Advance, AnswerInv, SafeAnswer, Answer, TypeOK, ticketVars, tableVars,
      runVars, faultVars
<1>19. ASSUME NEW s \in Staff, InsertAnswer(s) PROVE AnswerInv'
  BY <1>19
  DEF InsertAnswer, Advance, AnswerInv, SafeAnswer, Answer, TypeOK, ticketVars, runVars,
      faultVars
<1>20. ASSUME NEW s \in Staff, ResolveTicket(s) PROVE AnswerInv'
  <2>1. UNCHANGED <<exists, rows, outcome, deleting>>
    BY <1>20 DEF ResolveTicket, tableVars, runVars
  <2>2. CASE Advance(s, "resolving", "reviewing") /\ UNCHANGED faultVars
    <3>1. exists /\ deleting = "no" => <<"resolution", s>> \in rows
      BY <2>2 DEF Advance, PutInv
    <3>2. step'[s] = "reviewing" /\ s \notin Runs
      BY <2>2 DEF Advance, TypeOK
    <3> QED
      BY <2>1, <3>1, <3>2 DEF AnswerInv, SafeAnswer, Answer
  <2>3. CASE Advance(s, "resolving", "undoing") /\ UNCHANGED <<status, doubt>>
    <3>1. \A z \in Staff : step[z] \in {"reviewing", "answered"} => step'[z] = step[z]
      BY <2>3 DEF Advance, TypeOK
    <3> QED
      BY <2>1, <2>3, <3>1 DEF AnswerInv, SafeAnswer, Answer
  <2>4. CASE doubt'
    BY <2>4 DEF AnswerInv
  <2> QED
    BY <1>20, <2>2, <2>3, <2>4 DEF ResolveTicket
<1>21. ASSUME NEW s \in Staff, Undo(s) PROVE AnswerInv'
  BY <1>21
  DEF Undo, Advance, OwnAnswer, AnswerInv, SafeAnswer, Answer, TypeOK, ticketVars,
      runVars, faultVars
<1>22. ASSUME NEW s \in Staff, DecideReview(s) PROVE AnswerInv'
  BY <1>22
  DEF DecideReview, Advance, AnswerInv, SafeAnswer, Answer, TypeOK, ticketVars, runVars
<1>23. ASSUME UNCHANGED vars PROVE AnswerInv'
  BY <1>23
  DEF vars, AnswerInv, SafeAnswer, Answer, TypeOK, ticketVars, tableVars, runVars,
      staffVars, faultVars
<1> QED
  BY <1>1, <1>2, <1>3, <1>4, <1>5, <1>6, <1>7, <1>8, <1>9, <1>10, <1>11, <1>12, <1>13,
     <1>14, <1>15, <1>16, <1>17, <1>18, <1>19, <1>20, <1>21, <1>22, <1>23, StepCases

\* A run ends by a status, by a fault, or because its ticket is gone.
LEMMA EndStep ==
    ASSUME TypeOK, PlanInv, EndIsVisible, [Next]_vars
    PROVE  EndIsVisible'
<1>1. ASSUME NEW r \in Runs, Begin(r) PROVE EndIsVisible'
  BY <1>1 DEF Begin, Become, EndIsVisible, TypeOK, ticketVars, faultVars
<1>2. ASSUME NEW r \in Runs, Register(r) PROVE EndIsVisible'
  BY <1>2 DEF Register, Become, EndIsVisible, TypeOK, ticketVars, faultVars
<1>3. ASSUME NEW r \in Runs, GraphEnds(r) PROVE EndIsVisible'
  BY <1>3 DEF GraphEnds, Become, EndIsVisible, TypeOK, ticketVars, faultVars
<1>4. ASSUME NEW r \in Runs, Resume(r) PROVE EndIsVisible'
  BY <1>4, PlanOrder
  DEF Resume, Become, EndIsVisible, TypeOK, ticketVars, faultVars, PlanInv
<1>5. ASSUME NEW r \in Runs, Cancelled(r) PROVE EndIsVisible'
  BY <1>5 DEF Cancelled, Become, EndIsVisible, TypeOK, ticketVars, faultVars
<1>6. ASSUME NEW r \in Runs, Raises(r) PROVE EndIsVisible'
  BY <1>6 DEF Raises, Become, EndIsVisible, TypeOK, ticketVars, faultVars
<1>7. ASSUME NEW r \in Runs, MarkEscalated(r) PROVE EndIsVisible'
  BY <1>7 DEF MarkEscalated, EndIsVisible, TypeOK
<1>8. ASSUME NEW r \in Runs, Insert(r) PROVE EndIsVisible'
  <2>1. outcome[r] \in Outcomes /\ (stage[r] = "review" => outcome[r] = "escalated")
    BY <1>8 DEF Insert, Become, PlanInv
  <2> QED
    BY <1>8, <2>1, InsertWrites DEF Insert, TypeOK, EndIsVisible, ticketVars, faultVars
<1>9. ASSUME NEW r \in Runs, InsertRefused(r) PROVE EndIsVisible'
  BY <1>9, FaultType DEF InsertRefused, EndIsVisible, TypeOK, ticketVars
<1>10. ASSUME NEW r \in Runs, SetStatus(r) PROVE EndIsVisible'
  BY <1>10 DEF SetStatus, FinalStatus, EndIsVisible, TypeOK
<1>11. ASSUME NEW r \in Runs, StatusFails(r) PROVE EndIsVisible'
  BY <1>11, FaultType DEF StatusFails, EndIsVisible, TypeOK
<1>12. ASSUME NEW r \in Runs, Crash(r) PROVE EndIsVisible'
  BY <1>12, FaultType DEF Crash, EndIsVisible, TypeOK
<1>13. ASSUME SoftDelete PROVE EndIsVisible'
  BY <1>13, FaultType DEF SoftDelete, CancelTask, EndIsVisible, TypeOK
<1>14. ASSUME ForceDelete PROVE EndIsVisible'
  BY <1>14, FaultType DEF ForceDelete, EndIsVisible, TypeOK
<1>15. ASSUME StartDelete PROVE EndIsVisible'
  BY <1>15 DEF StartDelete, EndIsVisible, TypeOK, ticketVars, runVars, faultVars
<1>16. ASSUME DeleteTable PROVE EndIsVisible'
  BY <1>16, FaultType DEF DeleteTable, EndIsVisible, TypeOK, ticketVars, runVars
<1>17. ASSUME DeleteTicket PROVE EndIsVisible'
  BY <1>17, FaultType DEF DeleteTicket, EndIsVisible, TypeOK
<1>18. ASSUME NEW s \in Staff, Check(s) PROVE EndIsVisible'
  BY <1>18 DEF Check, EndIsVisible, TypeOK, ticketVars, runVars, faultVars
<1>19. ASSUME NEW s \in Staff, InsertAnswer(s) PROVE EndIsVisible'
  BY <1>19, FaultType
  DEF InsertAnswer, EndIsVisible, TypeOK, ticketVars, runVars, faultVars
<1>20. ASSUME NEW s \in Staff, ResolveTicket(s) PROVE EndIsVisible'
  BY <1>20, FaultType DEF ResolveTicket, EndIsVisible, TypeOK
<1>21. ASSUME NEW s \in Staff, Undo(s) PROVE EndIsVisible'
  BY <1>21, FaultType DEF Undo, EndIsVisible, TypeOK, ticketVars, runVars, faultVars
<1>22. ASSUME NEW s \in Staff, DecideReview(s) PROVE EndIsVisible'
  BY <1>22, FaultType DEF DecideReview, EndIsVisible, TypeOK, ticketVars, runVars
<1>23. ASSUME UNCHANGED vars PROVE EndIsVisible'
  BY <1>23 DEF vars, EndIsVisible, TypeOK, ticketVars, runVars, faultVars
<1> QED
  BY <1>1, <1>2, <1>3, <1>4, <1>5, <1>6, <1>7, <1>8, <1>9, <1>10, <1>11, <1>12, <1>13,
     <1>14, <1>15, <1>16, <1>17, <1>18, <1>19, <1>20, <1>21, <1>22, <1>23, StepCases

-----------------------------------------------------------------------------
(* Theorems *)

\* The inductive invariant: what every run and every PUT has behind it.
THEOREM Invariance == Spec => []Inv
<1>1. Init => Inv
  <2>1. Init => ActiveIsLive /\ RunInv /\ EarlyInv /\ PutInv /\ AnswerInv /\ EndIsVisible
    BY DEF Init, ActiveIsLive, RunInv, EarlyInv, PutInv, AnswerInv, EndIsVisible
  <2> QED
    BY <2>1, InitType DEF Inv
<1>2. Inv /\ [Next]_vars => Inv'
  BY TypeStep, PlanStep, ActiveStep, RunStepInv, EarlyStep, PutStep, AnswerStep, EndStep
  DEF Inv
<1> QED
  BY <1>1, <1>2, PTL DEF Spec

\* Every variable keeps its type, and a row never outlives its ticket.
THEOREM TypeCorrect == Spec => []TypeOK
<1>1. Inv => TypeOK
  BY DEF Inv
<1> QED
  BY <1>1, Invariance, PTL

\* A run that ended well has all its rows (main.py: the status comes last).
THEOREM FinishedRunsComplete == Spec => []FinishedIsComplete
<1>1. Inv => FinishedIsComplete
  <2> SUFFICES ASSUME Inv, exists, deleting = "no", NEW r \in Runs, stage[r] = "done",
                      NEW i \in DOMAIN Plan(outcome[r]), Plan(outcome[r])[i] \in Tables
               PROVE  <<Plan(outcome[r])[i], r>> \in rows
    BY DEF FinishedIsComplete
  <2>1. outcome[r] \in {"resolved", "escalated"}
    BY DEF Inv, PlanInv, Outcomes
  <2>2. /\ <<"details", r>> \in rows /\ <<"resolution", r>> \in rows
        /\ outcome[r] = "escalated" => <<"review", r>> \in rows
    BY DEF Inv, RunInv
  <2>3. Plan(outcome[r])[i] \in {"details", "resolution", "review"}
    BY DEF Tables
  <2>4. outcome[r] = "resolved" => Plan(outcome[r])[i] # "review"
    <3>1. Plan("resolved") = <<"details", "resolution", "status", "done">>
      BY DEF Plan
    <3> QED
      BY <3>1
  <2> QED
    BY <2>1, <2>2, <2>3, <2>4
<1> QED
  BY <1>1, Invariance, PTL

\* A resolved ticket has an answer, unless a failed write took effect all the same.
THEOREM ResolvedTicketsAnswered == Spec => []ResolvedIsAnswered
<1>1. Inv => ResolvedIsAnswered
  BY DEF Inv, AnswerInv, SafeAnswer, ResolvedIsAnswered
<1> QED
  BY <1>1, Invariance, PTL

\* A PUT that reported a failure left no answer behind.
THEOREM FailedPutsLeaveNothing == Spec => []FailedPutLeavesNothing
<1>1. Inv => FailedPutLeavesNothing
  BY DEF Inv, PutInv, FailedPutLeavesNothing, Answer
<1> QED
  BY <1>1, Invariance, PTL

\* A deletion never cancels a run between its rows.
THEOREM ActiveRunsLive == Spec => []ActiveIsLive
<1>1. Inv => ActiveIsLive
  BY DEF Inv
<1> QED
  BY <1>1, Invariance, PTL

\* Without faults and cancellation, the end of a run shows in the ticket's status.
THEOREM EndsVisible == Spec => []EndIsVisible
<1>1. Inv => EndIsVisible
  BY DEF Inv
<1> QED
  BY <1>1, Invariance, PTL

\* No step takes an answer's row but with the ticket, or in the staff's deletion.
LEMMA KeptStep ==
    ASSUME TypeOK, NEW z \in Staff, step[z] \in {"reviewing", "answered"},
           <<"resolution", z>> \in rows, deleting = "no", [Next]_vars
    PROVE  <<"resolution", z>> \in rows' \/ ~exists'
<1>1. ASSUME NEW r \in Runs, Begin(r) PROVE <<"resolution", z>> \in rows' \/ ~exists'
  BY <1>1 DEF Begin, tableVars
<1>2. ASSUME NEW r \in Runs, Register(r) PROVE <<"resolution", z>> \in rows' \/ ~exists'
  BY <1>2 DEF Register, tableVars
<1>3. ASSUME NEW r \in Runs, GraphEnds(r) PROVE <<"resolution", z>> \in rows' \/ ~exists'
  BY <1>3 DEF GraphEnds, tableVars
<1>4. ASSUME NEW r \in Runs, Resume(r) PROVE <<"resolution", z>> \in rows' \/ ~exists'
  BY <1>4 DEF Resume, tableVars
<1>5. ASSUME NEW r \in Runs, Cancelled(r) PROVE <<"resolution", z>> \in rows' \/ ~exists'
  BY <1>5 DEF Cancelled, tableVars
<1>6. ASSUME NEW r \in Runs, Raises(r) PROVE <<"resolution", z>> \in rows' \/ ~exists'
  BY <1>6 DEF Raises, tableVars
<1>7. ASSUME NEW r \in Runs, MarkEscalated(r) PROVE <<"resolution", z>> \in rows' \/ ~exists'
  BY <1>7 DEF MarkEscalated, tableVars
<1>8. ASSUME NEW r \in Runs, Insert(r) PROVE <<"resolution", z>> \in rows' \/ ~exists'
  BY <1>8 DEF Insert
<1>9. ASSUME NEW r \in Runs, InsertRefused(r) PROVE <<"resolution", z>> \in rows' \/ ~exists'
  BY <1>9 DEF InsertRefused
<1>10. ASSUME NEW r \in Runs, SetStatus(r) PROVE <<"resolution", z>> \in rows' \/ ~exists'
  BY <1>10 DEF SetStatus, tableVars
<1>11. ASSUME NEW r \in Runs, StatusFails(r) PROVE <<"resolution", z>> \in rows' \/ ~exists'
  BY <1>11 DEF StatusFails, tableVars
<1>12. ASSUME NEW r \in Runs, Crash(r) PROVE <<"resolution", z>> \in rows' \/ ~exists'
  BY <1>12 DEF Crash, tableVars
<1>13. ASSUME SoftDelete PROVE <<"resolution", z>> \in rows' \/ ~exists'
  BY <1>13 DEF SoftDelete, tableVars
<1>14. ASSUME ForceDelete PROVE <<"resolution", z>> \in rows' \/ ~exists'
  BY <1>14 DEF ForceDelete
<1>15. ASSUME StartDelete PROVE <<"resolution", z>> \in rows' \/ ~exists'
  BY <1>15 DEF StartDelete, tableVars
<1>16. ASSUME DeleteTable PROVE <<"resolution", z>> \in rows' \/ ~exists'
  BY <1>16 DEF DeleteTable
<1>17. ASSUME DeleteTicket PROVE <<"resolution", z>> \in rows' \/ ~exists'
  BY <1>17 DEF DeleteTicket
<1>18. ASSUME NEW s \in Staff, Check(s) PROVE <<"resolution", z>> \in rows' \/ ~exists'
  BY <1>18 DEF Check, tableVars
<1>19. ASSUME NEW s \in Staff, InsertAnswer(s) PROVE <<"resolution", z>> \in rows' \/ ~exists'
  BY <1>19 DEF InsertAnswer
<1>20. ASSUME NEW s \in Staff, ResolveTicket(s) PROVE <<"resolution", z>> \in rows' \/ ~exists'
  BY <1>20 DEF ResolveTicket, tableVars
<1>21. ASSUME NEW s \in Staff, Undo(s) PROVE <<"resolution", z>> \in rows' \/ ~exists'
  BY <1>21 DEF Undo, Advance, OwnAnswer
<1>22. ASSUME NEW s \in Staff, DecideReview(s) PROVE <<"resolution", z>> \in rows' \/ ~exists'
  BY <1>22 DEF DecideReview
<1>23. ASSUME UNCHANGED vars PROVE <<"resolution", z>> \in rows' \/ ~exists'
  BY <1>23 DEF vars, tableVars
<1> QED
  BY <1>1, <1>2, <1>3, <1>4, <1>5, <1>6, <1>7, <1>8, <1>9, <1>10, <1>11, <1>12, <1>13,
     <1>14, <1>15, <1>16, <1>17, <1>18, <1>19, <1>20, <1>21, <1>22, <1>23, StepCases

\* No PUT and no run removes the answer of a PUT that succeeded.
THEOREM AnswersKept == Spec => AnswerKept
<1>1. Inv /\ [Next]_vars =>
        [\A s \in Staff : step[s] \in {"reviewing", "answered"} /\ Answer(s) /\ deleting = "no"
                           => Answer(s)' \/ ~exists']_vars
  BY KeptStep DEF Inv, Answer
<1> QED
  BY <1>1, Invariance, PTL DEF Spec, AnswerKept
================================================================================
