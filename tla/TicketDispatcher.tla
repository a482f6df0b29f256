--------------------------- MODULE TicketDispatcher ---------------------------
(***************************************************************************)
(* How ticket-core-service hands a saved ticket to Redis: createTicket on  *)
(* a request thread, TicketDispatcher.submit after the commit, the pool    *)
(* that runs dispatchToSidecar, and the shutdown thread in stop().  The    *)
(* service lives once: a ticket it saved is handed over by this instance   *)
(* or never, nothing looks for tickets left in status "received".          *)
(*                                                                         *)
(* Where a hand-off is:                                                    *)
(*   new        the request has not committed                              *)
(*   saved      committed, about to read `running` in submit               *)
(*   admitted   read running = true, about to call executor.execute        *)
(*   offered    in the executor's queue, execute has not looked again      *)
(*   queued     in the executor's queue                                    *)
(*   pool       run by a worker thread                                     *)
(*   refused    rejected, CallerRunsPolicy is about to read isShutdown     *)
(*   inline     run by the request thread                                  *)
(*   done       LPUSH returned                                             *)
(*   failed     LPUSH raised and dispatchToSidecar logged an error         *)
(*   abandoned  counted in stop's error after the drain timed out          *)
(*   dropped    discarded by CallerRunsPolicy                              *)
(* MDC and trace events are left out.                                      *)
(***************************************************************************)
EXTENDS TicketMessages

CONSTANTS
    PoolSize,           \* threads of the executor, 4
    Capacity            \* its bounded queue, 1000

ASSUME DispatcherAssumption == PoolSize \in Nat \ {0} /\ Capacity \in Nat \ {0}

VARIABLES
    place,              \* where the hand-off of each ticket is
    running,            \* the dispatcher's volatile flag
    executor,           \* the executor's run state
    workQueue,          \* the executor's queue, oldest first
    stopper             \* the shutdown thread, and what it has brought down

dispatcherVars == <<place, running, executor, workQueue, stopper>>

Places == {"new", "saved", "admitted", "offered", "queued", "pool", "refused",
           "inline", "done", "failed", "abandoned", "dropped"}
Decided == {"done", "failed", "abandoned", "dropped"}

In(p) == {t \in Tickets : place[t] = p}
Alive == stopper # "killed"

DispatcherInit ==
    /\ place = [t \in Tickets |-> "new"]
    /\ running = TRUE
    /\ executor = "running"
    /\ workQueue = <<>>
    /\ stopper = "up"

Put(t, from, to) == Alive /\ place[t] = from /\ place' = [place EXCEPT ![t] = to]

-----------------------------------------------------------------------------
(* Request threads.  The web server stops first, but only waits so long for *)
(* requests under way: any of this may overlap with stop.                   *)

Save(t) ==
    /\ Put(t, "new", "saved")
    /\ UNCHANGED <<lists, running, executor, workQueue, stopper>>

CheckRunning(t) ==
    /\ Put(t, "saved", IF running THEN "admitted" ELSE "inline")
    /\ UNCHANGED <<lists, running, executor, workQueue, stopper>>

Accepts == executor = "running"

\* ThreadPoolExecutor.execute: a free thread, else the queue, else rejected.
Execute(t) ==
    /\ \/ /\ Accepts /\ Cardinality(In("pool")) < PoolSize
          /\ Put(t, "admitted", "pool")
          /\ UNCHANGED workQueue
       \/ /\ Accepts /\ Cardinality(In("pool")) >= PoolSize
          /\ Len(workQueue) < Capacity
          /\ Put(t, "admitted", "offered")
          /\ workQueue' = Append(workQueue, t)
       \/ /\ ~Accepts \/ (Cardinality(In("pool")) >= PoolSize /\ Len(workQueue) >= Capacity)
          /\ Put(t, "admitted", "refused")
          /\ UNCHANGED workQueue
    /\ UNCHANGED <<lists, running, executor, stopper>>

\* execute looks at the run state again after queueing, and takes the task back.
Recheck(t) ==
    /\ IF Accepts
       THEN Put(t, "offered", "queued") /\ UNCHANGED workQueue
       ELSE Put(t, "offered", "refused") /\ workQueue' = RemoveFirst(workQueue, t)
    /\ UNCHANGED <<lists, running, executor, stopper>>

\* CallerRunsPolicy discards the task once the executor is shut down.
CallerRuns(t) ==
    /\ Put(t, "refused", IF executor = "running" THEN "inline" ELSE "dropped")
    /\ UNCHANGED <<lists, running, executor, workQueue, stopper>>

-----------------------------------------------------------------------------
(* The pool, and dispatchToSidecar on any thread *)

\* A thread that is free takes the oldest task.
Poll ==
    /\ executor # "stop"
    /\ workQueue # <<>>
    /\ Cardinality(In("pool")) < PoolSize
    /\ Alive
    /\ place' = [place EXCEPT ![Head(workQueue)] = "pool"]
    /\ workQueue' = Tail(workQueue)
    /\ UNCHANGED <<lists, running, executor, stopper>>

Runs(t) == place[t] \in {"pool", "inline"}

\* leftPush returns.
Push(t) ==
    /\ Runs(t) /\ stopper # "closed"
    /\ Put(t, place[t], "done")
    /\ LPush(t)
    /\ UNCHANGED <<processing, running, executor, workQueue, stopper>>

\* leftPush raises: Redis is away, the thread is interrupted by shutdownNow, the
\* connection is closed.  The command may have been executed all the same.
PushFails(t) ==
    /\ Runs(t)
    /\ Put(t, place[t], "failed")
    /\ \/ stopper # "closed" /\ LPush(t)
       \/ UNCHANGED ticketQueue
    /\ UNCHANGED <<processing, running, executor, workQueue, stopper>>

-----------------------------------------------------------------------------
(* stop(), and the end of the process *)

SetStopping ==
    /\ stopper = "up"
    /\ running' = FALSE
    /\ stopper' = "stopping"
    /\ UNCHANGED <<lists, place, executor, workQueue>>

Shutdown ==
    /\ stopper = "stopping"
    /\ executor' = "shutdown"
    /\ stopper' = "draining"
    /\ UNCHANGED <<lists, place, running, workQueue>>

\* Mutant of Drained: the drain ends when the queue is empty.
DrainedEarly ==
    /\ stopper = "draining"
    /\ workQueue = <<>>
    /\ stopper' = "stopped"
    /\ UNCHANGED <<lists, place, running, executor, workQueue>>
\* awaitTermination returns true: no task is queued or run by a pool thread.
Drained ==
    /\ stopper = "draining"
    /\ workQueue = <<>> /\ In("pool") = {}
    /\ stopper' = "stopped"
    /\ UNCHANGED <<lists, place, running, executor, workQueue>>

\* Mutant of DrainTimeout: the tasks that shutdownNow returns are not counted.
DrainTimeoutSilent ==
    /\ stopper = "draining"
    /\ executor' = "stop"
    /\ workQueue' = <<>>
    /\ stopper' = "stopped"
    /\ UNCHANGED <<lists, place, running>>
\* awaitTermination times out: shutdownNow empties the queue and interrupts.
DrainTimeout ==
    /\ stopper = "draining"
    /\ executor' = "stop"
    /\ place' = [t \in Tickets |-> IF place[t] \in {"offered", "queued"} THEN "abandoned"
                                   ELSE place[t]]
    /\ workQueue' = <<>>
    /\ stopper' = "stopped"
    /\ UNCHANGED <<lists, running>>

\* Spring destroys the beans: the Redis connection is closed.
CloseRedis ==
    /\ stopper = "stopped"
    /\ stopper' = "closed"
    /\ UNCHANGED <<lists, place, running, executor, workQueue>>

\* The process ends with whatever it was doing: SIGKILL, a crash, or an exit that
\* leaves the request threads behind.
Kill ==
    /\ Alive
    /\ stopper' = "killed"
    /\ UNCHANGED <<lists, place, running, executor, workQueue>>

-----------------------------------------------------------------------------
RequestStep(t) == \/ CheckRunning(t) \/ Execute(t) \/ Recheck(t) \/ CallerRuns(t)
                  \/ Push(t) \/ PushFails(t)
StopStep == Shutdown \/ Drained \/ DrainTimeout \/ CloseRedis

DispatcherNext == \/ \E t \in Tickets : Save(t) \/ RequestStep(t)
                  \/ Poll \/ SetStopping \/ StopStep \/ Kill

\* Threads are scheduled and commands have timeouts.  Requests, stop and kills
\* come or do not come.
DispatcherFairness ==
    /\ \A t \in Tickets : WF_<<lists, dispatcherVars>>(RequestStep(t))
    /\ WF_<<lists, dispatcherVars>>(Poll)
    /\ WF_<<lists, dispatcherVars>>(StopStep)

-----------------------------------------------------------------------------
(* Properties *)

\* After a drain that did not time out, no hand-off is queued or run by the pool,
\* however late a request that had read running = true calls execute.
DrainComplete ==
    stopper \in {"stopped", "closed"} /\ executor = "shutdown" =>
        workQueue = <<>> /\ In("pool") = {} /\ In("queued") = {}

\* Every saved ticket's hand-off comes to an end, unless the process is killed.
HandOffEnds == \A t \in Tickets :
                  place[t] = "saved" ~> place[t] \in Decided \/ stopper = "killed"

\* TicketDispatcher.submit: "Runs the task asynchronously; never silently drops it."
NeverSilentlyDropped == \A t \in Tickets : place[t] # "dropped"
=============================================================================
