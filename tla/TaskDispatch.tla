---------------------------- MODULE TaskDispatch ----------------------------
(***************************************************************************)
(* A browser task from tasks.create to the end of its run                  *)
(* (apps/orchestrator/src/trpc/routers/tasks.ts, index.ts): the row in     *)
(* MySQL, the TaskQueue, the BrowserPool and the run that ties the three   *)
(* together, through crashes, restarts and the orderly shutdown.           *)
(*                                                                         *)
(* A row's awaiting_user episodes are the subject of SupercarTask; here    *)
(* they are part of "executing".  Every DB write succeeds.                 *)
(***************************************************************************)
EXTENDS BrowserPool, Sequences, FiniteSets

CONSTANT MaxDepth   \* the queue's depth cap

VARIABLES
  queue, overdue, inFlight, wake, stopped, fate,   \* see TaskQueue
  row,       \* task -> tasks.status
  run,       \* task -> where the dispatched run stands
  deleting   \* tasks whose delete passed its status check

Q == INSTANCE TaskQueue WITH
       Capacity <- MaxInstances,
       slotFree <- CanAllocate

queueVars == <<queue, overdue, inFlight, wake, stopped, fate>>
rowVars   == <<row, run, deleting>>
vars      == <<poolVars, queueVars, rowVars>>

RowStates == {"none", "queued", "executing", "done", "failed", "deleted"}
RunStates == {"none", "starting", "allocating", "agent", "finishing"}

DispatchTypeOK ==
  /\ PoolTypeOK
  /\ Q!QueueTypeOK
  /\ row \in [Tasks -> RowStates]
  /\ run \in [Tasks -> RunStates]
  /\ deleting \subseteq Tasks

Init ==
  /\ PoolInit
  /\ Q!QueueInit
  /\ row = [t \in Tasks |-> "none"]
  /\ run = [t \in Tasks |-> "none"]
  /\ deleting = {}

-----------------------------------------------------------------------------
(* UPDATE tasks SET status = st WHERE externalId = t: no effect on a row   *)
(* that was deleted.                                                       *)
SetRow(t, st) ==
  row' = [row EXCEPT ![t] = IF @ = "deleted" THEN "deleted" ELSE st]

SetRun(t, phase) == run' = [run EXCEPT ![t] = phase]

(* tasks.create inserts the row as 'queued' and goes on awaiting.          *)
Create(t) ==
  /\ up
  /\ row[t] = "none"
  /\ row' = [row EXCEPT ![t] = "queued"]
  /\ UNCHANGED <<poolVars, queueVars, run, deleting>>

(* tasks.create reaches the queue.                                         *)
Enqueue(t) ==
  /\ up
  /\ row[t] # "none"
  /\ Q!Enqueue(t)
  /\ UNCHANGED <<poolVars, rowVars>>

EnqueueRejected(t) ==
  /\ up
  /\ row[t] # "none"
  /\ Q!EnqueueRejected(t)
  /\ SetRow(t, "failed")
  /\ UNCHANGED <<poolVars, run, deleting>>

Hear_StartsExpired ==
  /\ row' = [t \in Tasks |->
               IF fate'[t] = "expired" /\ fate[t] = "queued" /\ row[t] # "deleted"
               THEN "failed" ELSE row[t]]
  /\ run' = [t \in Tasks |->
               IF fate'[t] \in {"running", "expired"} /\ fate[t] = "queued"
               THEN "starting" ELSE run[t]]
  /\ UNCHANGED <<poolVars, deleting>>

(* The effects of a dispatch or a timeout on the rows: onTimeout fails the *)
(* row, the run of a dispatched task begins with onStart.                  *)
Hear ==
  /\ row' = [t \in Tasks |->
               IF fate'[t] = "expired" /\ fate[t] = "queued" /\ row[t] # "deleted"
               THEN "failed" ELSE row[t]]
  /\ run' = [t \in Tasks |->
               IF fate'[t] = "running" /\ fate[t] = "queued"
               THEN "starting" ELSE run[t]]
  /\ UNCHANGED <<poolVars, deleting>>

Microtask == up /\ Q!Microtask /\ Hear
Tick      == up /\ Q!Tick /\ Hear
Age       == up /\ Q!Age /\ UNCHANGED <<poolVars, rowVars>>

(* onStart's UPDATE resolves, and dispatchToBrave calls allocate.          *)
Start(t) ==
  /\ run[t] = "starting"
  /\ AllocateBegin(t)
  /\ SetRow(t, "executing")
  /\ SetRun(t, "allocating")
  /\ UNCHANGED <<queueVars, deleting>>

(* allocate() throws: dispatchToBrave rethrows before runFn is built.      *)
StartRefused(t) ==
  /\ run[t] = "starting"
  /\ AllocateRefused(t)
  /\ Q!Throw(t)
  /\ SetRow(t, "executing")
  /\ SetRun(t, "none")
  /\ UNCHANGED deleting

Allocated(t) ==
  /\ run[t] = "allocating"
  /\ SpawnReady(t)
  /\ SetRun(t, "agent")
  /\ UNCHANGED <<queueVars, row, deleting>>

AllocateFailed(t) ==
  /\ run[t] = "allocating"
  /\ SpawnFailed(t)
  /\ Q!Throw(t)
  /\ SetRun(t, "none")
  /\ UNCHANGED <<row, deleting>>

(* The agent loop returns or throws, and its outcome is persisted.  A loop *)
(* that wedges never gets here.                                            *)
Finish(t) ==
  /\ up
  /\ run[t] = "agent"
  /\ \E st \in {"done", "failed"} : SetRow(t, st)
  /\ SetRun(t, "finishing")
  /\ UNCHANGED <<poolVars, queueVars, deleting>>

(* pool.release(t) up to its first await, a no-op unless t is 'ready'.     *)
ReleaseIfReady(t) ==
  \/ Release(t)
  \/ inst[t] # "ready" /\ UNCHANGED poolVars

Finally_NoRelease(t) ==
  /\ up
  /\ run[t] = "finishing"
  /\ Q!Settle(t)
  /\ SetRun(t, "none")
  /\ UNCHANGED <<poolVars, row, deleting>>

(* runFn's finally: release without awaiting it, then signalSlotFreed.     *)
Finally(t) ==
  /\ up
  /\ run[t] = "finishing"
  /\ ReleaseIfReady(t)
  /\ Q!Settle(t)
  /\ SetRun(t, "none")
  /\ UNCHANGED <<row, deleting>>

Watchdog_AbortOnly(t) ==
  /\ run[t] \in {"agent", "finishing"}
  /\ UNCHANGED vars

(* The watchdog timer of a run that has not settled: force the release.    *)
Watchdog(t) ==
  /\ run[t] \in {"agent", "finishing"}
  /\ Release(t)
  /\ UNCHANGED <<queueVars, rowVars>>

ZombieReaper_LiveRunsOnly ==
  /\ up
  /\ \E t \in Tasks :
       /\ row[t] = "executing" /\ run[t] # "none"
       /\ row' = [row EXCEPT ![t] = "failed"]
  /\ UNCHANGED <<poolVars, queueVars, run, deleting>>

(* The 60 s sweep of index.ts: rows 'executing' whose updated_at has not   *)
(* moved for 20 minutes fail.                                              *)
ZombieReaper ==
  /\ up
  /\ \E t \in Tasks :
       /\ row[t] = "executing"
       /\ row' = [row EXCEPT ![t] = "failed"]
  /\ UNCHANGED <<poolVars, queueVars, run, deleting>>

(* tasks.delete: the status check, then (after an await) the DELETE.       *)
DeleteCheck(t) ==
  /\ up
  /\ row[t] \in {"queued", "done", "failed"}
  /\ t \notin deleting
  /\ deleting' = deleting \cup {t}
  /\ UNCHANGED <<poolVars, queueVars, row, run>>

DeleteCommit(t) ==
  /\ up
  /\ t \in deleting
  /\ deleting' = deleting \ {t}
  /\ row' = [row EXCEPT ![t] = "deleted"]
  /\ UNCHANGED <<poolVars, queueVars, run>>

-----------------------------------------------------------------------------
(* The pool's own steps.                                                   *)
PoolStep ==
  /\ \/ \E t \in Tasks : \/ TerminatedExit(t) \/ ReleaseDone(t)
                         \/ GoIdle(t) \/ Touch(t)
     \/ \E t \in Tasks : Release(t)      \* a child died
     \/ GcSweep
  /\ UNCHANGED <<queueVars, rowVars>>

(* index.ts shutdown(): stop the queue, then the pool, in one turn.        *)
ShutDown ==
  /\ Shutdown
  /\ Q!Stop
  /\ UNCHANGED rowVars

(* What the process kept in memory is gone; the rows stay.                 *)
ForgetQueue ==
  /\ queue' = <<>>
  /\ overdue' = 0
  /\ inFlight' = 0
  /\ wake' = 0
  /\ stopped' = FALSE
  /\ fate' = [t \in Tasks |-> IF row[t] = "none" THEN "new" ELSE "forgotten"]
  /\ run' = [t \in Tasks |-> "none"]
  /\ deleting' = {}
  /\ UNCHANGED row

ExitProcess  == Exit /\ ForgetQueue
CrashProcess == Crash /\ ForgetQueue

(* The next boot: reap the orphan processes, then fail the executing rows  *)
(* that are older than two minutes.                                        *)
BootProcess ==
  /\ Boot
  /\ \E old \in SUBSET {t \in Tasks : row[t] = "executing"} :
       row' = [t \in Tasks |-> IF t \in old THEN "failed" ELSE row[t]]
  /\ UNCHANGED <<queueVars, run, deleting>>

Steps ==
  \/ \E t \in Tasks :
       \/ Create(t)
       \/ Enqueue(t)
       \/ EnqueueRejected(t)
       \/ Start(t)
       \/ StartRefused(t)
       \/ Allocated(t)
       \/ AllocateFailed(t)
       \/ Finish(t)
       \/ Finally(t)
       \/ Watchdog(t)
       \/ DeleteCheck(t)
       \/ DeleteCommit(t)
  \/ Microtask
  \/ Tick
  \/ Age
  \/ ZombieReaper
  \/ PoolStep

Restarts == ShutDown \/ ExitProcess \/ CrashProcess \/ BootProcess

Next == Steps \/ Restarts


(* Timers fire, microtasks run, every DB call and every await of a spawn   *)
(* returns, the clock advances.  No fairness on Finish: a loop may wedge.  *)
DispatchFairness ==
  /\ WF_vars(Microtask) /\ WF_vars(Tick) /\ WF_vars(Age)
  /\ WF_vars(ZombieReaper) /\ WF_vars(ExitProcess)
  /\ \A t \in Tasks :
       /\ WF_vars(Enqueue(t) \/ EnqueueRejected(t))
       /\ WF_vars(Start(t) \/ StartRefused(t))
       /\ WF_vars(Allocated(t) \/ AllocateFailed(t))
       /\ WF_vars(Finally(t))
       /\ WF_vars(Watchdog(t))
       /\ WF_vars(ReleaseDone(t) /\ UNCHANGED <<queueVars, rowVars>>)

Spec     == Init /\ [][Next]_vars
FairSpec == Spec /\ DispatchFairness

-----------------------------------------------------------------------------
(* A browser is never kept without a live run: an instance that is not     *)
(* being torn down belongs to a dispatched task whose run is at a phase    *)
(* that will release it (tasks.ts:2981, 2311).                             *)
BrowsersBelongToRuns ==
  \A t \in Tasks :
    /\ inst[t] = "spawning" => fate[t] = "running" /\ run[t] = "allocating"
    /\ inst[t] = "ready" => fate[t] = "running" /\ run[t] \in {"agent", "finishing"}

(* "Capacity errors should be rare since the queue gates on pool depth"    *)
(* (tasks.ts:1694), made exact: allocate refuses a dispatched task only    *)
(* while the pool shuts down or some browser is still being torn down.     *)
RefusedOnlyWhileDraining ==
  [][\A t \in Tasks : StartRefused(t) =>
       shuttingDown \/ \E r \in Tasks : inst[r] = "draining"]_vars

(* The rows live as TaskLife says, whatever the queue drops, the reapers   *)
(* fail, a delete removes or a restart forgets: a task that was told it is *)
(* late or has failed is never begun, and no sweep undoes a result.        *)
Life == INSTANCE TaskLife WITH life <- row
ImplementsTaskLife == Life!Spec

(* Every slot comes back, even from a run that wedges, and across crashes. *)
SlotIsReturned ==
  \A t \in Tasks : t \in Holders ~> t \notin Holders

(* Every row leaves 'queued' and 'executing', whatever goes wrong in its   *)
(* run, unless its process ends under it.                                  *)
RowSettles ==
  \A t \in Tasks : row[t] \in {"queued", "executing"} ~>
                   \/ row[t] \in {"done", "failed", "deleted"}
                   \/ ~up \/ shuttingDown \/ fate[t] = "forgotten"
=============================================================================
