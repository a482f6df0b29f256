--------------------------- MODULE AttachmentCleanup ---------------------------
(***************************************************************************)
(* A ticket's picture: the object in the ticket-attachments bucket and the *)
(* path in the ticket's row that names it, which no transaction ties.      *)
(*   background_orchestration, in the API process and in the worker,       *)
(*                   uploads the object and then sets the path, again when *)
(*                   the ticket is delivered again                         *)
(*   delete_old_attachments, in the scheduler of either process, fetches   *)
(*                   the rows past their retention, and for each removes   *)
(*                   the object and then clears the path                   *)
(*   DELETE /customer_tickets?force removes the object of the path it has  *)
(*                   read and then deletes the row, also after a failure   *)
(*   DELETE /api/tickets, the console's, deletes the row alone             *)
(***************************************************************************)
EXTENDS Naturals

CONSTANTS
    Attachments,            \* the tickets that have a picture
    Schedulers,             \* the processes
    MaxUploads,             \* bound: deliveries
    MaxCleanupFaults        \* bound: requests that fail and processes that restart

ASSUME CleanupAssumption == MaxUploads \in Nat /\ MaxCleanupFaults \in Nat

VARIABLES
    expired,                \* pictures past RETENTION_DAYS
    kept,                   \* tickets that have their row
    object, path,           \* those in the bucket, those whose row has the path
    uploaded,               \* per process, what its run has uploaded and has no path yet
    deletion,               \* next step of a forced DELETE: "none", "remove", "row"
    toDelete,               \* per process, the rows its cleanup has left
    removed,                \* ... and the row whose object it has just removed
    exposed,                \* pictures something happened to that may orphan the object
    uploads, cleanupFaults

cleanupVars == <<expired, kept, object, path, uploaded, deletion, toDelete, removed, exposed,
                 uploads, cleanupFaults>>

CleanupInit ==
    /\ expired = {} /\ kept = Attachments /\ object = {} /\ path = {} /\ exposed = {}
    /\ uploaded = [s \in Schedulers |-> {}] /\ deletion = [a \in Attachments |-> "none"]
    /\ toDelete = [s \in Schedulers |-> {}] /\ removed = [s \in Schedulers |-> {}]
    /\ uploads = 0 /\ cleanupFaults = 0

Ages ==
    /\ \E a \in Attachments \ expired : expired' = expired \cup {a}
    /\ UNCHANGED <<kept, object, path, uploaded, deletion, toDelete, removed, exposed, uploads,
                   cleanupFaults>>

CleanupFault == cleanupFaults < MaxCleanupFaults /\ cleanupFaults' = cleanupFaults + 1

-----------------------------------------------------------------------------
(* background_orchestration *)

Naming(a) == \E s \in Schedulers : a \in uploaded[s]

\* The row is gone or about to go, or a cleanup will clear its path.
Crossed(a) ==
    \/ a \notin kept \/ deletion[a] = "row"
    \/ \E s \in Schedulers : a \in removed[s]

Upload(s) ==
    /\ uploaded[s] = {} /\ uploads < MaxUploads
    /\ \E a \in Attachments :
          /\ object' = object \cup {a} /\ uploaded' = [uploaded EXCEPT ![s] = {a}]
          /\ exposed' = IF Crossed(a) THEN exposed \cup {a} ELSE exposed
    /\ uploads' = uploads + 1
    /\ UNCHANGED <<expired, kept, path, deletion, toDelete, removed, cleanupFaults>>

SetPath(s) ==
    /\ uploaded[s] # {}
    /\ path' = path \cup (uploaded[s] \cap kept)
    /\ uploaded' = [uploaded EXCEPT ![s] = {}]
    /\ UNCHANGED <<expired, kept, object, deletion, toDelete, removed, exposed, uploads,
                   cleanupFaults>>

\* The update raises, and the run goes on without it.
SetPathFails(s) ==
    /\ uploaded[s] # {} /\ CleanupFault
    /\ uploaded' = [uploaded EXCEPT ![s] = {}] /\ exposed' = exposed \cup uploaded[s]
    /\ UNCHANGED <<expired, kept, object, path, deletion, toDelete, removed, uploads>>

-----------------------------------------------------------------------------
(* The deletions *)

\* A forced DELETE reads the path: without one there is nothing to remove.
ForceDelete(a) ==
    /\ a \in kept /\ deletion[a] = "none"
    /\ deletion' = [deletion EXCEPT ![a] = IF a \in path THEN "remove" ELSE "row"]
    /\ exposed' = IF a \notin path /\ Naming(a) THEN exposed \cup {a} ELSE exposed
    /\ UNCHANGED <<expired, kept, object, path, uploaded, toDelete, removed, uploads,
                   cleanupFaults>>

ForceRemove(a) ==
    /\ deletion[a] = "remove"
    /\ object' = object \ {a} /\ deletion' = [deletion EXCEPT ![a] = "row"]
    /\ UNCHANGED <<expired, kept, path, uploaded, toDelete, removed, exposed, uploads,
                   cleanupFaults>>

ForceDeleteRow(a) ==
    /\ deletion[a] = "row"
    /\ kept' = kept \ {a} /\ path' = path \ {a}
    /\ deletion' = [deletion EXCEPT ![a] = "none"]
    /\ UNCHANGED <<expired, object, uploaded, toDelete, removed, exposed, uploads,
                   cleanupFaults>>

\* The row goes also when the removal raised, whether or not it took effect; a deletion of
\* the row that raises is answered with 500.
ForceFails(a) ==
    /\ CleanupFault
    /\ \/ /\ deletion[a] = "remove" /\ deletion' = [deletion EXCEPT ![a] = "row"]
          /\ object' \in {object, object \ {a}} /\ exposed' = exposed \cup {a}
       \/ /\ deletion[a] = "row" /\ deletion' = [deletion EXCEPT ![a] = "none"]
          /\ UNCHANGED <<object, exposed>>
    /\ UNCHANGED <<expired, kept, path, uploaded, toDelete, removed, uploads>>

ConsoleDelete(a) ==
    /\ a \in kept
    /\ kept' = kept \ {a} /\ path' = path \ {a} /\ exposed' = exposed \cup {a}
    /\ UNCHANGED <<expired, object, uploaded, deletion, toDelete, removed, uploads,
                   cleanupFaults>>

-----------------------------------------------------------------------------
(* delete_old_attachments *)

\* Mutant of Fetch: a row whose object has gone is taken for done.
FetchStored(s) ==
    /\ toDelete[s] = {}
    /\ toDelete' = [toDelete EXCEPT ![s] = path \cap object \cap expired]
    /\ UNCHANGED <<expired, kept, object, path, uploaded, deletion, removed, exposed, uploads,
                   cleanupFaults>>
\* A run whose fetch fails returns.
Fetch(s) ==
    /\ toDelete[s] = {}
    /\ toDelete' = [toDelete EXCEPT ![s] = path \cap expired]
    /\ UNCHANGED <<expired, kept, object, path, uploaded, deletion, removed, exposed, uploads,
                   cleanupFaults>>

RemoveObject(s) ==
    /\ removed[s] = {}
    /\ \E a \in toDelete[s] :
          object' = object \ {a} /\ removed' = [removed EXCEPT ![s] = {a}]
    /\ UNCHANGED <<expired, kept, path, uploaded, deletion, toDelete, exposed, uploads,
                   cleanupFaults>>

ClearPath(s) ==
    /\ removed[s] # {}
    /\ path' = path \ removed[s]
    /\ toDelete' = [toDelete EXCEPT ![s] = @ \ removed[s]]
    /\ removed' = [removed EXCEPT ![s] = {}]
    /\ UNCHANGED <<expired, kept, object, uploaded, deletion, exposed, uploads, cleanupFaults>>

\* Mutant of RequestFails: the path is cleared whether or not the removal went through.
RequestFailsCleared(s) ==
    /\ CleanupFault
    /\ \E a \in toDelete[s] :
          path' = path \ {a} /\ toDelete' = [toDelete EXCEPT ![s] = @ \ {a}]
    /\ removed' = [removed EXCEPT ![s] = {}]
    /\ UNCHANGED <<expired, kept, object, uploaded, deletion, exposed, uploads>>
\* A request raises, whether or not it took effect: the run goes on with another row.
RequestFails(s) ==
    /\ CleanupFault
    /\ \E a \in toDelete[s] :
          /\ \/ removed[s] = {} /\ object' \in {object, object \ {a}} /\ UNCHANGED path
             \/ a \in removed[s] /\ path' \in {path, path \ {a}} /\ UNCHANGED object
          /\ toDelete' = [toDelete EXCEPT ![s] = @ \ {a}]
    /\ removed' = [removed EXCEPT ![s] = {}]
    /\ UNCHANGED <<expired, kept, uploaded, deletion, exposed, uploads>>

\* The process dies at any point of a cleanup and of a run, and comes back.
Restarts(s) ==
    /\ CleanupFault /\ toDelete[s] \cup uploaded[s] # {}
    /\ toDelete' = [toDelete EXCEPT ![s] = {}] /\ removed' = [removed EXCEPT ![s] = {}]
    /\ uploaded' = [uploaded EXCEPT ![s] = {}] /\ exposed' = exposed \cup uploaded[s]
    /\ UNCHANGED <<expired, kept, object, path, deletion, uploads>>

CleanupNext ==
    \/ Ages
    \/ \E s \in Schedulers : \/ Upload(s) \/ SetPath(s) \/ SetPathFails(s)
                             \/ Fetch(s) \/ RemoveObject(s) \/ ClearPath(s)
                             \/ RequestFails(s) \/ Restarts(s)
    \/ \E a \in Attachments : \/ ForceDelete(a) \/ ForceRemove(a) \/ ForceDeleteRow(a)
                              \/ ForceFails(a) \/ ConsoleDelete(a)

\* The scheduler runs the job every 6 hours, runs go on, and requests return.
CleanupFairness == \A s \in Schedulers :
    /\ WF_cleanupVars(Fetch(s)) /\ WF_cleanupVars(RemoveObject(s) \/ ClearPath(s))
    /\ WF_cleanupVars(SetPath(s))

-----------------------------------------------------------------------------
(* Properties *)

\* The code does orphan objects, and in these ways only: the console deletes the ticket, a
\* forced DELETE goes on after its removal failed or has read the row before the run set
\* the path, a run is broken off between its two writes, or uploads when the row is gone,
\* about to go, or about to have its path cleared.  No cleanup orphans an object by itself:
\* not by failing or stopping anywhere, nor beside another cleanup, a forced DELETE or a
\* run that has uploaded before.
OrphansHaveCauses == \A a \in object : a \in path \/ Naming(a) \/ a \in exposed

\* Every expired picture loses its path, and its object unless that was orphaned in one of
\* those ways, also when the object went and clearing the path failed.
AttachmentsExpire ==
    \A a \in Attachments : a \in expired ~> a \notin path /\ (a \in object => a \in exposed)
=============================================================================
