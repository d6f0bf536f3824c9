----------------------------- MODULE TaskQueue -----------------------------
(***************************************************************************)
(* The global FIFO that paces dispatch to the browser pool                 *)
(* (apps/orchestrator/src/queue/task-queue.ts).                            *)
(*                                                                         *)
(* enqueuedAt never decreases along the queue, so the entries that are     *)
(* past queueTimeoutMs are a prefix of it: the model keeps the length of   *)
(* that prefix instead of the clock.  enqueue and signalSlotFreed schedule *)
(* tryDispatch as a microtask; wake counts the microtasks that have not    *)
(* run.  Timers fire only when no microtask is left.                       *)
(***************************************************************************)
EXTENDS Integers, Sequences, FiniteSets

CONSTANTS
  Tasks,      \* ids of the tasks that may be enqueued, each once
  Capacity,   \* cfg.capacity
  MaxDepth    \* cfg.maxDepth

ASSUME CapacityAssumption == Capacity \in Nat \ {0}
ASSUME MaxDepthAssumption == MaxDepth \in Nat \ {0}

VARIABLES
  queue,      \* the ids waiting, oldest first
  overdue,    \* how many entries at its front are past queueTimeoutMs
  inFlight,   \* dispatched, and not yet signalled
  wake,       \* scheduled calls of tryDispatch that have not run
  stopped,    \* stop() was called
  fate,       \* task -> what became of it, as its caller sees it
  slotFree    \* cfg.canDispatch()

queueVars == <<queue, overdue, inFlight, wake, stopped, fate>>
vars      == <<queue, overdue, inFlight, wake, stopped, fate, slotFree>>

(* "running": runFn was called; "settled": it ended through the finally    *)
(* that signals; "lost": it threw before that finally was attached.        *)
(* "forgotten" belongs to the process restart of TaskDispatch.             *)
Fates == {"new", "queued", "rejected", "expired", "running", "settled",
          "lost", "forgotten"}

Outstanding == {t \in Tasks : fate[t] \in {"running", "lost"}}

QueueTypeOK ==
  /\ queue \in Seq(Tasks)
  /\ overdue \in 0 .. Len(queue)
  /\ inFlight \in Nat
  /\ wake \in Nat
  /\ stopped \in BOOLEAN
  /\ fate \in [Tasks -> Fates]

QueueInit ==
  /\ queue = <<>>
  /\ overdue = 0
  /\ inFlight = 0
  /\ wake = 0
  /\ stopped = FALSE
  /\ fate = [t \in Tasks |-> "new"]

-----------------------------------------------------------------------------
Admit(t) ==
  /\ queue' = Append(queue, t)
  /\ wake' = wake + 1
  /\ fate' = [fate EXCEPT ![t] = "queued"]
  /\ UNCHANGED <<overdue, inFlight, stopped>>

Enqueue(t) ==
  /\ fate[t] = "new"
  /\ ~stopped
  /\ Len(queue) < MaxDepth
  /\ Admit(t)

EnqueueRejected(t) ==
  /\ fate[t] = "new"
  /\ stopped \/ Len(queue) >= MaxDepth
  /\ fate' = [fate EXCEPT ![t] = "rejected"]
  /\ UNCHANGED <<queue, overdue, inFlight, wake, stopped>>

(* What reapTimedOut leaves, and what it drops (onTimeout is called).      *)
Kept       == SubSeq(queue, overdue + 1, Len(queue))
Expired    == {queue[i] : i \in 1 .. overdue}
AfterReap  == [t \in Tasks |-> IF t \in Expired THEN "expired" ELSE fate[t]]

Fires_NoPacing == Kept # <<>> /\ slotFree

Fires == Kept # <<>> /\ slotFree /\ inFlight < Capacity

DispatchHead_Newest ==
  /\ queue' = SubSeq(Kept, 1, Len(Kept) - 1)
  /\ inFlight' = inFlight + 1
  /\ fate' = [AfterReap EXCEPT ![Kept[Len(Kept)]] = "running"]

DispatchHead ==
  /\ queue' = Tail(Kept)
  /\ inFlight' = inFlight + 1
  /\ fate' = [AfterReap EXCEPT ![Head(Kept)] = "running"]

(* tryDispatch with the reap after the early returns.                      *)
TryDispatch_LateReap ==
  /\ ~stopped
  /\ Fires
  /\ overdue' = 0
  /\ DispatchHead
  /\ UNCHANGED stopped

(* tryDispatch: reap, then dispatch the head if the pool has a slot and    *)
(* the pacing ceiling allows it.  At most one task fires.                  *)
TryDispatch ==
  /\ ~stopped
  /\ overdue' = 0
  /\ \/ Fires /\ DispatchHead
     \/ ~Fires /\ queue' = Kept /\ fate' = AfterReap /\ UNCHANGED inFlight
  /\ UNCHANGED stopped

Microtask == wake > 0 /\ TryDispatch /\ wake' = wake - 1

(* The periodic timer.                                                     *)
Tick == wake = 0 /\ TryDispatch /\ UNCHANGED wake

(* signalSlotFreed: nothing after stop(), else decrement with a floor of 0 *)
(* and wake the worker.                                                    *)
SignalSlotFreed ==
  /\ \/ stopped /\ UNCHANGED <<inFlight, wake>>
     \/ /\ ~stopped
        /\ inFlight' = IF inFlight > 0 THEN inFlight - 1 ELSE 0
        /\ wake' = wake + 1
  /\ UNCHANGED <<queue, overdue, stopped>>

(* The run reached its finally, which signals.                             *)
Settle(t) ==
  /\ fate[t] = "running"
  /\ SignalSlotFreed
  /\ fate' = [fate EXCEPT ![t] = "settled"]

(* runFn rejected without signalling: tryDispatch's catch only logs.       *)
Throw(t) ==
  /\ fate[t] = "running"
  /\ fate' = [fate EXCEPT ![t] = "lost"]
  /\ UNCHANGED <<queue, overdue, inFlight, wake, stopped>>

(* One more entry passes its queue timeout.                                *)
Age ==
  /\ overdue < Len(queue)
  /\ overdue' = overdue + 1
  /\ UNCHANGED <<queue, inFlight, wake, stopped, fate>>

Stop ==
  /\ ~stopped
  /\ stopped' = TRUE
  /\ UNCHANGED <<queue, overdue, inFlight, wake, fate>>

QueueStep ==
  \/ \E t \in Tasks : Enqueue(t) \/ EnqueueRejected(t) \/ Settle(t) \/ Throw(t)
  \/ Microtask
  \/ Tick
  \/ Age
  \/ Stop

(* The pool fills and frees behind the queue's back.                       *)
PoolMoves == slotFree' = ~slotFree /\ UNCHANGED queueVars

Init == QueueInit /\ slotFree \in BOOLEAN
Next == (QueueStep /\ UNCHANGED slotFree) \/ PoolMoves

(* Microtasks run, the timer fires, and the clock advances.                *)
QueueFairness ==
  WF_queueVars(Microtask) /\ WF_queueVars(Tick) /\ WF_queueVars(Age)

Spec     == Init /\ [][Next]_vars
FairSpec == Spec /\ QueueFairness

-----------------------------------------------------------------------------
(* The pacing counter is exact: until stop() it counts the runs that were  *)
(* dispatched and never signalled, and the ceiling holds whatever the pool *)
(* predicate says (task-queue.ts:94 and 135).                              *)
Pacing ==
  ~stopped => /\ inFlight = Cardinality(Outstanding)
              /\ inFlight <= Capacity

(* The queue holds each waiting task once, and no task that was already    *)
(* dispatched, dropped or rejected; it never exceeds the depth cap.        *)
WaitingOnce ==
  /\ {queue[i] : i \in DOMAIN queue} = {t \in Tasks : fate[t] = "queued"}
  /\ \A i, j \in DOMAIN queue : queue[i] = queue[j] => i = j
  /\ Len(queue) <= MaxDepth

(* "Single global FIFO" (task-queue.ts:9): no task overtakes one that      *)
(* keeps waiting.                                                          *)
Fifo ==
  [][\A i, j \in DOMAIN queue :
       i < j /\ fate'[queue[j]] = "running" => fate'[queue[i]] # "queued"]_vars

(* A waiting task is dispatched or timed out, even if no slot ever frees   *)
(* and every signal is lost, unless the queue is stopped.                  *)
NobodyWaitsForEver ==
  \A t \in Tasks : fate[t] = "queued" ~> (fate[t] # "queued" \/ stopped)
=============================================================================
