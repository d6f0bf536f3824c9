----------------------------- MODULE BatchTasks -----------------------------
(***************************************************************************)
(* One batch of prompts: agent/batch-executor.ts fans its items out over   *)
(* a bounded number of runItem promises, routers/batch-tasks.ts creates    *)
(* the batch, starts the executor without awaiting it, and lets the owner  *)
(* cancel.  Each database access whose order matters is a step of its own. *)
(*                                                                         *)
(* A runItem call is known by its item and by the how-manyth call for that *)
(* item it is: while a claim is slow, a later pass of the loop sees the    *)
(* item still 'pending' and calls runItem on it again.                     *)
(***************************************************************************)
EXTENDS Integers, FiniteSets

CONSTANTS
  Items,         \* the items of the batch, numbered by `seq`
  Concurrency,   \* the limit of the owner's plan
  MaxFailures    \* bound: database errors the executor meets

ASSUME BatchAssumption ==
  /\ Items \subseteq Nat /\ IsFiniteSet(Items) /\ Items # {}
  /\ Concurrency \in Nat \ {0} /\ MaxFailures \in Nat

VARIABLES
  batch,       \* batch_tasks.status
  itemRow,     \* batch_task_items.status
  task,        \* item -> its task: none, running or how it ended
  exec,        \* where executeBatch is
  inFlight,    \* the inFlight map: item -> number of its call, 0 if absent
  awaited,     \* the calls of the Promise.race or allSettled under way
  runs,        \* runItem calls under way
  tally,       \* what finalizeBatch has read so far
  failures,
  calls,       \* history: item -> runItem calls
  tasks        \* history: item -> tasks created

execVars == <<exec, inFlight, awaited, tally>>
vars == <<batch, itemRow, task, execVars, runs, failures, calls, tasks>>

Statuses == {"none", "pending", "running", "cancelled", "completed", "partial"}
NoTally == [failed |-> 0, status |-> "none"]

BatchTypeOK ==
  /\ batch \in Statuses
  /\ itemRow \in
       [Items -> {"pending", "running", "completed", "failed", "cancelled"}]
  /\ task \in [Items -> {"none", "running", "completed", "failed"}]
  /\ exec \in {"off", "start", "check", "pull", "race", "drain", "count",
               "look", "write", "done", "crashed"}
  /\ inFlight \in [Items -> Nat]
  /\ runs \subseteq
       [item: Items, call: Nat, at: {"claim", "announce", "dispatch", "fail",
                                     "poll"}]
  /\ tally \in [failed: 0 .. Cardinality(Items), status: Statuses]
  /\ failures \in 0 .. MaxFailures
  /\ calls \in [Items -> Nat] /\ tasks \in [Items -> Nat]
  /\ \A i \in Items : inFlight[i] <= calls[i] /\ tasks[i] <= calls[i]

Init ==
  /\ batch = "none"
  /\ itemRow = [i \in Items |-> "pending"]
  /\ task = [i \in Items |-> "none"]
  /\ exec = "off" /\ inFlight = [i \in Items |-> 0]
  /\ awaited = {} /\ runs = {} /\ tally = NoTally
  /\ failures = 0
  /\ calls = [i \in Items |-> 0] /\ tasks = [i \in Items |-> 0]

-----------------------------------------------------------------------------
(* batchTasks router                                                       *)

Create ==
  /\ batch = "none"
  /\ batch' = "pending" /\ exec' = "start"
  /\ UNCHANGED <<itemRow, task, inFlight, awaited, tally, runs, failures,
                 calls, tasks>>

Cancellable(status) == status \in {"pending", "running"}

(* cancel's conditional UPDATE; otherwise it only words an answer.         *)
Cancel ==
  /\ Cancellable(batch)
  /\ batch' = "cancelled"
  /\ UNCHANGED <<itemRow, task, execVars, runs, failures, calls, tasks>>

-----------------------------------------------------------------------------
(* executeBatch                                                            *)

InMap == {i \in Items : inFlight[i] # 0}

(* pending -> running, conditional; whether it changed the row is not      *)
(* looked at.                                                              *)
Start ==
  /\ exec = "start"
  /\ batch' = IF batch = "pending" THEN "running" ELSE batch
  /\ exec' = "check"
  /\ UNCHANGED <<itemRow, task, inFlight, awaited, tally, runs, failures,
                 calls, tasks>>

AfterCancel ==
  [i \in Items |-> IF itemRow[i] = "pending" THEN "cancelled" ELSE itemRow[i]]

(* The head of the loop.  On a cancel the pending items are cancelled and  *)
(* the calls in the map are awaited.                                       *)
Check ==
  /\ exec = "check"
  /\ IF batch # "cancelled"
     THEN exec' = "pull" /\ UNCHANGED <<itemRow, awaited>>
     ELSE /\ exec' = "drain"
          /\ itemRow' = AfterCancel
          /\ awaited' = {<<i, inFlight[i]>> : i \in InMap}
  /\ UNCHANGED <<batch, task, inFlight, tally, runs, failures, calls, tasks>>

FirstPending_NoLimit(slots) == {i \in Items : itemRow[i] = "pending"}

(* ORDER BY seq LIMIT slotsOpen                                            *)
FirstPending(slots) ==
  LET pending == {i \in Items : itemRow[i] = "pending"}
  IN  {i \in pending : Cardinality({j \in pending : j < i}) < slots}

(* runItem is called on each of them; the calls run up to their claim.     *)
Pull ==
  /\ exec = "pull"
  /\ LET pulled == FirstPending(Concurrency - Cardinality(InMap))
         called == [i \in Items |-> calls[i] + IF i \in pulled THEN 1 ELSE 0]
         map    == [i \in Items |->
                     IF i \in pulled THEN called[i] ELSE inFlight[i]]
     IN
     /\ calls' = called
     /\ inFlight' = map
     /\ runs' = runs \cup
          {[item |-> i, call |-> called[i], at |-> "claim"] : i \in pulled}
     /\ IF \A i \in Items : map[i] = 0
        THEN exec' = "count" /\ awaited' = {}
        ELSE /\ exec' = "race"
             /\ awaited' = {<<i, map[i]>> : i \in {j \in Items : map[j] # 0}}
  /\ UNCHANGED <<batch, itemRow, task, tally, failures, tasks>>

(* Promise.allSettled: every call that was in the map has ended.           *)
Drained ==
  /\ exec = "drain"
  /\ \A r \in runs : <<r.item, r.call>> \notin awaited
  /\ exec' = "count" /\ awaited' = {}
  /\ UNCHANGED <<batch, itemRow, task, inFlight, tally, runs, failures,
                 calls, tasks>>

(* finalizeBatch: read the items, read the batch, write.                   *)
Count ==
  /\ exec = "count" /\ exec' = "look"
  /\ tally' = [tally EXCEPT !.failed =
       Cardinality({i \in Items : itemRow[i] \in {"failed", "cancelled"}})]
  /\ UNCHANGED <<batch, itemRow, task, inFlight, awaited, runs, failures,
                 calls, tasks>>

Look ==
  /\ exec = "look" /\ exec' = "write"
  /\ tally' = [tally EXCEPT !.status = batch]
  /\ UNCHANGED <<batch, itemRow, task, inFlight, awaited, runs, failures,
                 calls, tasks>>

FinalStatus_NoPartial(seen) ==
  IF seen.status = "running" THEN "completed" ELSE seen.status

FinalStatus(seen) ==
  CASE seen.status # "running" -> seen.status
    [] seen.status = "running" /\ seen.failed = 0 -> "completed"
    [] OTHER -> "partial"

Finalize ==
  /\ exec = "write" /\ exec' = "done"
  /\ batch' = FinalStatus(tally)
  /\ tally' = NoTally
  /\ UNCHANGED <<itemRow, task, inFlight, awaited, runs, failures, calls,
                 tasks>>

(* A database error in executeBatch itself: nothing but a log line.        *)
ExecFails ==
  /\ exec \in {"start", "check", "pull", "count", "look", "write"}
  /\ failures < MaxFailures /\ failures' = failures + 1
  /\ exec' = "crashed"
  /\ UNCHANGED <<batch, itemRow, task, inFlight, awaited, tally, runs, calls,
                 tasks>>

-----------------------------------------------------------------------------
(* runItem                                                                 *)

(* The call ends: `finally` deletes the item's entry from the map,         *)
(* whichever call put it there, and a race that awaits this call is over.  *)
(* A rejection ends the executor when it is racing and goes unseen when    *)
(* it is not.                                                              *)
Settle(r, rejected) ==
  /\ runs' = runs \ {r}
  /\ inFlight' = [inFlight EXCEPT ![r.item] = 0]
  /\ IF exec = "race" /\ <<r.item, r.call>> \in awaited
     THEN /\ exec' = IF rejected THEN "crashed" ELSE "check"
          /\ awaited' = {}
     ELSE UNCHANGED <<exec, awaited>>
  /\ UNCHANGED tally

Goes(r, to) ==
  /\ runs' = (runs \ {r}) \cup {[r EXCEPT !.at = to]}
  /\ UNCHANGED execVars

Fails == failures < MaxFailures /\ failures' = failures + 1

Wins_Always(i) == TRUE

Wins(i) == itemRow[i] = "pending"

(* The atomic claim; one that throws or changes nothing ends the call.     *)
Claim(r) ==
  /\ r.at = "claim"
  /\ \/ /\ Wins(r.item)
        /\ itemRow' = [itemRow EXCEPT ![r.item] = "running"]
        /\ Goes(r, "announce") /\ UNCHANGED failures
     \/ /\ ~Wins(r.item)
        /\ Settle(r, FALSE) /\ UNCHANGED <<itemRow, failures>>
     \/ Fails /\ Settle(r, FALSE) /\ UNCHANGED itemRow
  /\ UNCHANGED <<batch, task, calls, tasks>>

(* broadcastItemUpdate reads the database first, outside of any try.       *)
Announce(r) ==
  /\ r.at = "announce"
  /\ \/ Goes(r, "dispatch") /\ UNCHANGED failures
     \/ Fails /\ Settle(r, TRUE)
  /\ UNCHANGED <<batch, itemRow, task, calls, tasks>>

(* tasks.create, then the stamp of task_id.  If only the stamp fails, the  *)
(* item counts as failed while its task runs.                              *)
Dispatch(r) ==
  /\ r.at = "dispatch"
  /\ \/ Goes(r, "fail") /\ UNCHANGED <<task, tasks, failures>>
     \/ /\ task' = [task EXCEPT ![r.item] = "running"]
        /\ tasks' = [tasks EXCEPT ![r.item] = @ + 1]
        /\ \/ Goes(r, "poll") /\ UNCHANGED failures
           \/ Goes(r, "fail") /\ Fails
  /\ UNCHANGED <<batch, itemRow, calls>>

(* The last write of a call and its broadcast: either may throw.           *)
EndItem(r, status) ==
  \/ /\ itemRow' = [itemRow EXCEPT ![r.item] = status]
     /\ \/ Settle(r, FALSE) /\ UNCHANGED failures
        \/ Settle(r, TRUE) /\ Fails
  \/ UNCHANGED itemRow /\ Settle(r, TRUE) /\ Fails

FailItem(r) ==
  /\ r.at = "fail"
  /\ EndItem(r, "failed")
  /\ UNCHANGED <<batch, task, calls, tasks>>

Poll_NoTimeout(r) ==
  /\ r.at = "poll" /\ task[r.item] \in {"completed", "failed"}
  /\ EndItem(r, task[r.item])
  /\ UNCHANGED <<batch, task, calls, tasks>>

(* The poll loop ends on a terminal task or after MAX_WAIT_MS.             *)
Poll(r) ==
  /\ r.at = "poll"
  /\ EndItem(r, IF task[r.item] = "completed" THEN "completed" ELSE "failed")
  /\ UNCHANGED <<batch, task, calls, tasks>>

RunStep(r) ==
  Claim(r) \/ Announce(r) \/ Dispatch(r) \/ FailItem(r) \/ Poll(r)

(* The task itself, elsewhere in the process.                              *)
TaskEnds(i, how) ==
  /\ task[i] = "running"
  /\ task' = [task EXCEPT ![i] = how]
  /\ UNCHANGED <<batch, itemRow, execVars, runs, failures, calls, tasks>>

(* A restart: no boot code looks for batches.                              *)
Crash ==
  /\ exec \notin {"off", "done", "crashed"} /\ exec' = "crashed"
  /\ runs' = {} /\ awaited' = {} /\ inFlight' = [i \in Items |-> 0]
  /\ tally' = NoTally
  /\ UNCHANGED <<batch, itemRow, task, failures, calls, tasks>>

ExecStep ==
  \/ Start \/ Check \/ Pull \/ Drained \/ Count \/ Look \/ Finalize
  \/ ExecFails

Next ==
  \/ Create \/ Cancel
  \/ ExecStep
  \/ \E r \in runs : RunStep(r)
  \/ \E i \in Items, how \in {"completed", "failed"} : TaskEnds(i, how)
  \/ Crash

(* Awaits are answered and timers fire.  No task need ever end.            *)
Fairness ==
  /\ WF_vars(ExecStep)
  /\ \A i \in Items, n \in 1 .. Cardinality(Items) + MaxFailures :
       WF_vars(\E r \in runs : r.item = i /\ r.call = n /\ RunStep(r))

Spec == Init /\ [][Next]_vars /\ Fairness

-----------------------------------------------------------------------------
(* The atomic claim: whatever calls overlap on an item, it gets one task.  *)
ItemRunsOnce == \A i \in Items : tasks[i] <= 1

(* The items live as ItemLife says, whatever calls overlap, writes fail    *)
(* and cancels sweep: one claim, one task and only while it runs, one end, *)
(* which neither a late call nor the sweep of a cancel writes over.        *)
Life == INSTANCE ItemLife WITH status <- itemRow, made <- tasks
ImplementsItemLife == Life!Spec

(* No call was repeated and no database error was met.                     *)
Undisturbed == failures = 0 /\ \A i \in Items : calls[i] <= 1

Running == {i \in Items : itemRow[i] = "running"}

(* No more of the batch's items run than its owner's plan allows.  The     *)
(* inFlight map alone limits them, and it forgets a call whose item was    *)
(* called again, so the rows obey only while no call overlapped another.   *)
ConcurrencyHeld ==
  /\ Cardinality(InMap) <= Concurrency
  /\ Undisturbed => Cardinality(Running) <= Concurrency

(* "Batch status at end: 'completed' if every item completed, 'partial'    *)
(* otherwise": a finished batch has left no item behind, not one whose     *)
(* claim failed and not one that a cancel found pending, and undisturbed   *)
(* it has none that is open and is 'completed' exactly when every item is. *)
FinalStatusIsTrue ==
  exec = "done" =>
    /\ \A i \in Items : itemRow[i] # "pending"
    /\ Undisturbed /\ batch # "cancelled" =>
         /\ \A i \in Items : itemRow[i] # "running"
         /\ batch = "completed" <=> \A i \in Items : itemRow[i] = "completed"

(* The batch settles although tasks may hang for ever: the poll has a      *)
(* deadline.  (A restart or a database error stops the executor.)          *)
BatchSettles == exec = "start" ~> exec \in {"done", "crashed"}
=============================================================================
