------------------------------ MODULE StepTask ------------------------------
(***************************************************************************)
(* A planned-step task (the path that predates the supercar loop):         *)
(* agent/task-controller.ts decides, agent/task-repository.ts persists,    *)
(* ws/server.ts keeps one copy of the task per socket and tasks.pause,     *)
(* resume and confirm work on a copy read from MySQL.  One task of one     *)
(* user; several of the user's clients, some of which (the Chrome          *)
(* extension) execute the steps they are sent.                             *)
(*                                                                         *)
(* A step result is reduced to its status, with "batch" for an             *)
(* awaiting_user result that carries a batch payload.                      *)
(***************************************************************************)
EXTENDS Integers, Sequences, FiniteSets

CONSTANTS
  Clients,       \* the sockets the user may have open
  Extensions,    \* those that execute steps
  Gates,         \* the plan: step -> does it require a confirm
  MaxBoots,      \* bound: starts of the orchestrator
  MaxRuns,       \* bound: executions of one step under way on one client
  MaxCalls,      \* bound: tRPC calls under way
  MaxFailures    \* bound: persists that fail

MaxStepRetries == 1
Steps == 1 .. Len(Gates)
NoTask == [status |-> "none"]

ASSUME StepTaskAssumption ==
  /\ Extensions \subseteq Clients
  /\ Gates \in Seq(BOOLEAN) /\ Len(Gates) > 0
  /\ {MaxBoots, MaxRuns, MaxCalls, MaxFailures} \subseteq Nat

VARIABLES
  up,        \* the orchestrator runs
  boots,     \* how often it started
  db,        \* the task's row and its step rows
  mem,       \* client -> the socket's copy of the task, NoTask without one
  conn,      \* clients whose socket is open
  bucket,    \* rehydratedByUser: the state recovered at boot, or NoTask
  work,      \* extension -> step -> executions under way in its browser
  handlers,  \* step results in the middle of runStepResult
  healed,    \* extension -> the socket's healedStepIds
  calls,     \* pause, resume and confirm calls in the middle of a handler
  failures,  \* persists that failed so far
  reported,  \* history: steps the server received a result for
  approved,  \* history: steps whose gate the user approved or skipped
  blurred    \* history: steps with an error result handled while paused

procVars == <<up, boots, conn, bucket>>
histVars == <<reported, approved, blurred>>
stepVars ==
  <<procVars, db, mem, work, handlers, healed, calls, failures, histVars>>

TaskStatuses ==
  {"executing", "awaiting_user", "paused", "completed", "cancelled", "failed"}
EndedStatuses == {"completed", "cancelled", "failed"}
RowStatuses ==
  {"pending", "executing", "completed", "failed", "awaiting_user", "skipped"}
Pending == {"none", "single", "batch"}
Reasons == {"none", "user", "retries_exhausted"}
Results == {"ok", "error", "awaiting_user", "batch", "skipped"}

TaskState ==
  [status: TaskStatuses, cursor: 1 .. Len(Gates) + 1, pending: Pending,
   pause: Reasons, retry: [Steps -> 0 .. MaxStepRetries]]

StepTypeOK ==
  /\ up \in BOOLEAN /\ boots \in 0 .. MaxBoots
  /\ db \in [exists: BOOLEAN, status: TaskStatuses, pause: Reasons,
             rows: [Steps -> RowStatuses],
             retry: [Steps -> 0 .. MaxStepRetries],
             pend: [Steps -> Pending]]
  /\ mem \in [Clients -> TaskState \cup {NoTask}]
  /\ conn \subseteq Clients
  /\ bucket \in TaskState \cup {NoTask}
  /\ work \in [Extensions -> [Steps -> 0 .. MaxRuns]]
  /\ handlers \subseteq
       [at: {"heal", "mark", "persist"}, client: Extensions, open: BOOLEAN,
        step: Steps, result: Results, prev: TaskState, next: TaskState]
  /\ healed \in [Extensions -> SUBSET Steps]
  /\ calls \subseteq
       [at: {"loaded", "written"}, op: {"pause", "resume", "confirm"},
        decision: {"none", "approve", "skip", "reject"},
        prev: TaskState, next: TaskState]
  /\ failures \in Nat
  /\ approved \subseteq Steps /\ reported \subseteq Steps /\ blurred \subseteq Steps

-----------------------------------------------------------------------------
(* TaskController: pure functions on a task state.                         *)

Past(s) == s.cursor > Len(Gates)

(* The cursor moves on: the next step executes, or the plan is over.       *)
Advance(s) ==
  LET moved == [s EXCEPT !.cursor = @ + 1, !.pending = "none"]
  IN  [moved EXCEPT !.status = IF Past(moved) THEN "completed" ELSE "executing"]

Retryable(s) == s.retry[s.cursor] < MaxStepRetries

OpensGate_AskedOnly(s, result) == result \in {"awaiting_user", "batch"}

OpensGate(s, result) ==
  /\ result # "skipped"
  /\ result \in {"awaiting_user", "batch"} \/ Gates[s.cursor]

(* onStepResult keeps the status of the state it is given on a retry and   *)
(* looks at no status on the other paths.                                  *)
OnStepResult(s, result) ==
  CASE result = "error" /\ Retryable(s) ->
         [s EXCEPT !.retry[s.cursor] = @ + 1]
    [] result = "error" /\ ~Retryable(s) ->
         [s EXCEPT !.status = "paused", !.pause = "retries_exhausted"]
    [] result # "error" /\ OpensGate(s, result) ->
         [s EXCEPT !.status = "awaiting_user",
                   !.pending = IF result = "batch" THEN "batch" ELSE "single"]
    [] OTHER -> Advance(s)

(* The results after which a step is sent to the reporting socket.         *)
Redispatches(s, result) ==
  LET next == OnStepResult(s, result)
  IN  \/ result = "error" /\ Retryable(s)
      \/ next.cursor > s.cursor /\ ~Past(next)

UserConfirm(s, decision) ==
  CASE decision = "reject" ->
         [s EXCEPT !.status = "cancelled", !.pending = "none"]
    [] decision = "approve" /\ s.pending = "batch" ->
         [s EXCEPT !.status = IF Past(s) THEN "completed" ELSE "executing",
                   !.pending = "none"]
    [] OTHER -> Advance(s)

Pause(s) == [s EXCEPT !.status = "paused", !.pause = "user"]

Resume(s) ==
  [s EXCEPT !.status = IF Past(s) THEN "completed" ELSE "executing",
            !.pause = "none"]

-----------------------------------------------------------------------------
(* TaskRepository.                                                         *)

IsRetry(prev, next) ==
  /\ next.status = "executing"
  /\ prev.cursor = next.cursor
  /\ next.retry[prev.cursor] > prev.retry[prev.cursor]

StepStatusFor(next, result) ==
  CASE next.status = "paused" /\ next.pause = "retries_exhausted" -> "failed"
    [] next.status = "awaiting_user" -> "awaiting_user"
    [] next.status # "awaiting_user" /\ result = "skipped" -> "skipped"
    [] OTHER -> "completed"

TaskRow(d, next) ==
  [d EXCEPT !.status = next.status,
            !.pause  = IF next.status = "paused" THEN next.pause ELSE "none"]

(* The row of the step the cursor now stands on becomes 'executing'.       *)
StartRow(d, next) ==
  IF next.status = "executing" /\ ~Past(next)
  THEN [d EXCEPT !.rows[next.cursor] = "executing",
                 !.pend[next.cursor] = "none"]
  ELSE d

(* applyStepResult, one transaction.                                       *)
ApplyStepResult(d, prev, next, result) ==
  LET c       == prev.cursor
      task    == TaskRow(d, next)
      settled == [task EXCEPT
                    !.rows[c]  = StepStatusFor(next, result),
                    !.retry[c] = IF next.retry[c] > prev.retry[c]
                                 THEN next.retry[c] ELSE @,
                    !.pend[c]  = IF next.status = "awaiting_user"
                                 THEN next.pending ELSE "none"]
  IN  CASE IsRetry(prev, next) -> [task EXCEPT !.retry[c] = next.retry[c]]
        [] ~IsRetry(prev, next) /\ Past(prev) -> StartRow(task, next)
        [] OTHER -> StartRow(settled, next)

ApplyBatchApprove(d, next) ==
  StartRow([d EXCEPT !.status = next.status, !.pause = "none"], next)

(* rehydrateInFlight: the cursor is the first step whose row is not        *)
(* completed, failed or cancelled.                                         *)
InFlight(d) == d.exists /\ d.status \notin EndedStatuses

Rehydrate(d) ==
  LET open == {i \in Steps : d.rows[i] \notin {"completed", "failed"}}
      c    == IF open = {} THEN Len(Gates) + 1
              ELSE CHOOSE i \in open : \A j \in open : i <= j
  IN  [status |-> d.status, cursor |-> c, retry |-> d.retry,
       pending |-> IF c \in Steps THEN d.pend[c] ELSE "none",
       pause |-> d.pause]

EmptyRow ==
  [exists |-> FALSE, status |-> "executing", pause |-> "none",
   rows |-> [i \in Steps |-> IF i = 1 THEN "executing" ELSE "pending"],
   retry |-> [i \in Steps |-> 0], pend |-> [i \in Steps |-> "none"]]

-----------------------------------------------------------------------------
StepInit ==
  /\ up = TRUE /\ boots = 0
  /\ db = EmptyRow
  /\ mem = [c \in Clients |-> NoTask]
  /\ conn = {} /\ bucket = NoTask
  /\ work = [e \in Extensions |-> [i \in Steps |-> 0]]
  /\ handlers = {} /\ healed = [e \in Extensions |-> {}]
  /\ calls = {} /\ failures = 0
  /\ reported = {} /\ approved = {} /\ blurred = {}

(* updateTaskStateForUser: every open socket's copy is overwritten.        *)
ShareState(s) == mem' = [c \in Clients |-> IF c \in conn THEN s ELSE mem[c]]

(* A dispatch reaches the extension behind the socket and starts a step.   *)
(* A client that is not an extension ignores it.                           *)
Starts(client, i) ==
  IF client \in Extensions
  THEN /\ work[client][i] < MaxRuns
       /\ work' = [work EXCEPT ![client][i] = @ + 1]
  ELSE UNCHANGED work

(* The tail of tasks.create (and tasks.smokeTest): the plan is persisted   *)
(* and shared with the open sockets; the dispatch of the first step goes   *)
(* to broadcastToUser, which drops it (TASK_EXECUTION_TYPES).              *)
CreateTask ==
  /\ up /\ ~db.exists
  /\ db' = [db EXCEPT !.exists = TRUE]
  /\ ShareState(Rehydrate(db'))
  /\ UNCHANGED <<procVars, work, handlers, healed, calls, failures, histVars>>

(* handleConnection / client.hello, then applyRehydrationForUser: the      *)
(* first client to authenticate drains the bucket.                         *)
Connect(c) ==
  /\ up /\ c \notin conn
  /\ conn' = conn \cup {c}
  /\ mem' = [mem EXCEPT ![c] = bucket]
  /\ bucket' = NoTask
  /\ IF bucket # NoTask /\ bucket.status = "executing" /\ ~Past(bucket)
     THEN Starts(c, bucket.cursor)
     ELSE UNCHANGED work
  /\ UNCHANGED <<up, boots, db, handlers, healed, calls, failures, histVars>>

(* The socket closes or misses its heartbeats: its copy of the task and    *)
(* its healedStepIds go with it.  A handler that already holds the state   *)
(* runs on, for a socket nobody reads.                                     *)
Disconnect(c) ==
  /\ c \in conn
  /\ conn' = conn \ {c}
  /\ mem' = [mem EXCEPT ![c] = NoTask]
  /\ healed' = [e \in Extensions |-> IF e = c THEN {} ELSE healed[e]]
  /\ handlers' = {[h EXCEPT !.open = h.open /\ h.client # c] : h \in handlers}
  /\ UNCHANGED <<up, boots, bucket, db, work, calls, failures, histVars>>

-----------------------------------------------------------------------------
(* runStepResult                                                           *)

Heals(s, i, result) == result = "error" /\ s.cursor = i /\ s.retry[i] = 0

(* The handler of a result, with the state its socket holds now.           *)
Received(c, i, result, at) ==
  [at |-> at, client |-> c, open |-> TRUE, step |-> i, result |-> result,
   prev |-> mem[c], next |-> mem[c]]

KeepCopy(h, s) ==
  mem' = [mem EXCEPT ![h.client] = IF h.open THEN s ELSE @]

Decide_AnyStep(h, others) ==
  LET next == IF Past(h.prev) THEN h.prev ELSE OnStepResult(h.prev, h.result) IN
  /\ KeepCopy(h, next)
  /\ handlers' = IF Past(h.prev) THEN others
                 ELSE others \cup {[h EXCEPT !.at = "persist", !.next = next]}
  /\ UNCHANGED blurred

(* The decision and the new copy are one synchronous stretch: h.prev is    *)
(* the state read when the result came in, before any await.               *)
Decide(h, others) ==
  IF h.prev.cursor # h.step
  THEN /\ KeepCopy(h, h.prev)
       /\ handlers' = others
       /\ UNCHANGED blurred
  ELSE LET next == OnStepResult(h.prev, h.result) IN
       /\ KeepCopy(h, next)
       /\ handlers' = others \cup {[h EXCEPT !.at = "persist", !.next = next]}
       /\ blurred' = IF h.result = "error" /\ h.prev.status # "executing"
                     THEN blurred \cup {h.step} ELSE blurred

(* A SELECTOR_NOT_FOUND error waits for the planner's healSelector.        *)
AwaitHeal(c, i, result) ==
  /\ Heals(mem[c], i, result)
  /\ handlers' = handlers \cup {Received(c, i, result, "heal")}
  /\ UNCHANGED <<mem, healed, blurred>>

(* An ok of a step healed before waits for markHealSucceeded.              *)
AwaitMark(c, i, result) ==
  /\ result = "ok" /\ i \in healed[c]
  /\ healed' = [healed EXCEPT ![c] = @ \ {i}]
  /\ handlers' = handlers \cup {Received(c, i, result, "mark")}
  /\ UNCHANGED <<mem, blurred>>

(* An execution ends and its result is sent.  On a closed socket send()    *)
(* drops it; for a task the socket does not hold the server answers        *)
(* UNKNOWN_TASK.                                                           *)
StepDone(c, i, result) ==
  /\ work[c][i] > 0
  /\ work' = [work EXCEPT ![c][i] = @ - 1]
  /\ IF up /\ c \in conn /\ mem[c] # NoTask
     THEN /\ reported' = reported \cup {i}
          /\ \/ /\ ~(result = "ok" /\ i \in healed[c])
                /\ Decide(Received(c, i, result, "persist"), handlers)
                /\ UNCHANGED healed
             \/ AwaitHeal(c, i, result)
             \/ AwaitMark(c, i, result)
     ELSE UNCHANGED <<mem, handlers, healed, reported, blurred>>
  /\ UNCHANGED <<procVars, db, calls, failures, approved>>

(* The await is over: the planner found a selector or did not, or the ok   *)
(* of a healed step is marked or was not.                                  *)
HealEnds(h, found) ==
  /\ h \in handlers /\ h.at \in {"heal", "mark"}
  /\ found => h.at = "heal"
  /\ healed' = IF found /\ h.open
               THEN [healed EXCEPT ![h.client] = @ \cup {h.step}] ELSE healed
  /\ Decide(h, handlers \ {h})
  /\ UNCHANGED <<procVars, db, work, calls, failures, reported, approved>>

(* The effects in order: persist (a failure is logged), then the next      *)
(* dispatch on this socket, which no guard inspects.                       *)
PersistResult(h, ok) ==
  /\ h \in handlers /\ h.at = "persist"
  /\ handlers' = handlers \ {h}
  /\ IF ok
     THEN /\ db' = ApplyStepResult(db, h.prev, h.next, h.result)
          /\ UNCHANGED failures
     ELSE /\ failures < MaxFailures /\ failures' = failures + 1
          /\ UNCHANGED db
  /\ IF h.open /\ Redispatches(h.prev, h.result)
     THEN Starts(h.client, h.next.cursor)
     ELSE UNCHANGED work
  /\ UNCHANGED <<procVars, mem, healed, calls, histVars>>

-----------------------------------------------------------------------------
(* tasks.pause, tasks.resume and tasks.confirm: load, decide, persist,     *)
(* share.  Frames other than a dispatch only change what a client shows.   *)

Allowed(op, s) ==
  CASE op = "pause"   -> s.status # "paused"
    [] op = "resume"  -> s.status = "paused"
    [] op = "confirm" -> s.status = "awaiting_user"

Decided(op, s, decision) ==
  CASE op = "pause"   -> Pause(s)
    [] op = "resume"  -> Resume(s)
    [] op = "confirm" -> IF s.pending = "none" THEN s
                         ELSE UserConfirm(s, decision)

ControlLoad(op, decision) ==
  /\ up /\ InFlight(db)
  /\ Cardinality(calls) < MaxCalls
  /\ (op = "confirm") <=> (decision # "none")
  /\ LET s == Rehydrate(db) IN
       /\ Allowed(op, s)
       /\ calls' = calls \cup
            {[at |-> "loaded", op |-> op, decision |-> decision,
              prev |-> s, next |-> Decided(op, s, decision)]}
  /\ UNCHANGED <<procVars, db, mem, work, handlers, healed, failures,
                 histVars>>

ControlPersist(k) ==
  /\ k \in calls /\ k.at = "loaded"
  /\ calls' = (calls \ {k}) \cup {[k EXCEPT !.at = "written"]}
  /\ LET passes == /\ k.prev.pending # "none"
                   /\ \/ k.decision = "skip"
                      \/ k.decision = "approve" /\ k.prev.pending # "batch"
     IN
     /\ db' = CASE k.op # "confirm" \/ k.next.status = "cancelled" ->
                     TaskRow(db, k.next)
                [] k.decision = "approve" /\ k.prev.pending = "batch" ->
                     ApplyBatchApprove(db, k.next)
                [] OTHER -> ApplyStepResult(db, k.prev, k.next, "ok")
     /\ approved' = IF passes /\ k.prev.cursor \in Steps
                    THEN approved \cup {k.prev.cursor} ELSE approved
  /\ UNCHANGED <<procVars, mem, work, handlers, healed, failures, reported,
                 blurred>>

ControlShare(k) ==
  /\ k \in calls /\ k.at = "written"
  /\ calls' = calls \ {k}
  /\ ShareState(k.next)
  /\ UNCHANGED <<procVars, db, work, handlers, healed, failures, histVars>>

-----------------------------------------------------------------------------
(* The process dies: sockets, copies and handlers go; the browser of an    *)
(* extension carries on with its step.                                     *)
Crash ==
  /\ up
  /\ up' = FALSE
  /\ conn' = {} /\ bucket' = NoTask
  /\ mem' = [c \in Clients |-> NoTask]
  /\ handlers' = {} /\ calls' = {}
  /\ healed' = [e \in Extensions |-> {}]
  /\ UNCHANGED <<boots, db, work, failures, histVars>>

(* main(): the boot sweep fails an executing row created more than two     *)
(* minutes ago (and an old park), then loadRehydratedTasks.                *)
Boot ==
  /\ ~up /\ boots < MaxBoots
  /\ up' = TRUE /\ boots' = boots + 1
  /\ \E swept \in BOOLEAN :
       /\ swept => db.exists /\ db.status \in {"executing", "awaiting_user"}
       /\ db' = IF swept THEN [db EXCEPT !.status = "failed"] ELSE db
  /\ bucket' = IF InFlight(db') THEN Rehydrate(db') ELSE NoTask
  /\ UNCHANGED <<conn, mem, work, handlers, healed, calls, failures, histVars>>

ControlStep ==
  \/ \E op \in {"pause", "resume", "confirm"},
        d \in {"none", "approve", "skip", "reject"} : ControlLoad(op, d)
  \/ \E k \in calls : ControlPersist(k) \/ ControlShare(k)

ResultStep ==
  \/ \E c \in Extensions, i \in Steps, r \in Results : StepDone(c, i, r)
  \/ \E h \in handlers, ok \in BOOLEAN : HealEnds(h, ok) \/ PersistResult(h, ok)

StepNext ==
  \/ CreateTask
  \/ \E c \in Clients : Connect(c) \/ Disconnect(c)
  \/ ResultStep
  \/ ControlStep
  \/ Crash
  \/ Boot

StepSpec == StepInit /\ [][StepNext]_stepVars

-----------------------------------------------------------------------------
(* A step row is settled only on a report of that very step: a late or     *)
(* duplicated result never settles the step the cursor has moved to        *)
(* (onStepResult's stepId check, applyStepResult's prev.cursor).           *)
SettledMeansReported ==
  \A i \in Steps :
    db.rows[i] \in {"completed", "failed", "awaiting_user", "skipped"}
      => i \in reported

(* A gated step is 'completed' only when the user approved or skipped that *)
(* very gate: double clicks, pauses and restarts pass no gate.  The one    *)
(* exception is an error result handled in another status than executing,  *)
(* whose row applyStepResult settles as 'completed'.                       *)
GateNeedsItsOwnConfirm ==
  \A i \in Steps :
    Gates[i] /\ db.rows[i] = "completed" => i \in approved \cup blurred
=============================================================================
