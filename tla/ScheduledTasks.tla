--------------------------- MODULE ScheduledTasks ---------------------------
(***************************************************************************)
(* Scheduled tasks: agent/scheduled-runner.ts polls the scheduled_tasks    *)
(* table and fires the rows that are due, trpc/routers/scheduled-tasks.ts  *)
(* lets the owner create, toggle and delete them, and index.ts sweeps the  *)
(* rows a dead process left 'running'.                                     *)
(*                                                                         *)
(* Time is a counter; every recurring repeat type is one with a Period.    *)
(* A tick of the poll timer does not wait for the tick before it, so ticks *)
(* overlap as long as a dispatch (a whole tasks.create) lasts.             *)
(***************************************************************************)
EXTENDS Integers, FiniteSets

CONSTANTS
  Rows,         \* scheduled_tasks rows the user may create
  Once,         \* the one-shot rows (repeatType 'once')
  Ticks,        \* ticks that can be under way at once
  Period,       \* distance between two firings of a recurring row
  MaxTime,      \* bound: the clock
  MaxBoots,     \* bound: restarts of the orchestrator
  MaxToggles,   \* bound: toggle requests
  MaxFailures   \* bound: writes of the runner that fail

ASSUME ScheduleAssumption ==
  /\ Once \subseteq Rows
  /\ Period \in Nat \ {0} /\ MaxTime \in Nat /\ MaxBoots \in Nat

VARIABLES
  clock,
  up,        \* the orchestrator runs
  boots,     \* restarts so far
  rows,      \* the table
  tick,      \* tick -> where it is, its own `now`, its candidates, its row
  toggle,    \* row -> the status a toggle under way has read, or "none"
  toggles, failures,
  fired,     \* history: dispatches of the row for its present due time
  swept,     \* history: boot sweeps of the row for its present due time
  wedged     \* history: rows a failed write left 'running'

procVars == <<clock, up, boots>>
userVars == <<toggle, toggles>>
histVars == <<fired, swept, wedged>>
vars == <<procVars, rows, tick, userVars, failures, histVars>>

Statuses ==
  {"absent", "active", "paused", "running", "completed", "failed", "deleted"}
NoRow    == [status |-> "absent", due |-> 0]
Idle     ==
  [at |-> "idle", now |-> 0, todo |-> {}, row |-> {}, ok |-> FALSE]

SchedTypeOK ==
  /\ clock \in 0 .. MaxTime /\ up \in BOOLEAN /\ boots \in 0 .. MaxBoots
  /\ rows \in [Rows -> [status: Statuses, due: 0 .. MaxTime + Period]]
  /\ tick \in [Ticks -> [at: {"idle", "claim", "dispatch", "restore"},
                         now: 0 .. MaxTime, todo: SUBSET Rows,
                         row: SUBSET Rows, ok: BOOLEAN]]
  /\ \A t \in Ticks :
       Cardinality(tick[t].row) =
         IF tick[t].at \in {"dispatch", "restore"} THEN 1 ELSE 0
  /\ toggle \in [Rows -> Statuses \cup {"none"}]
  /\ fired \in [Rows -> Nat] /\ swept \in [Rows -> 0 .. MaxBoots]
  /\ wedged \subseteq Rows

Init ==
  /\ clock = 0 /\ up = TRUE /\ boots = 0
  /\ rows = [r \in Rows |-> NoRow]
  /\ tick = [t \in Ticks |-> Idle]
  /\ toggle = [r \in Rows |-> "none"] /\ toggles = 0 /\ failures = 0
  /\ fired = [r \in Rows |-> 0] /\ swept = [r \in Rows |-> 0]
  /\ wedged = {}

-----------------------------------------------------------------------------
(* scheduled-tasks router                                                  *)

(* create rejects a time that has passed (by more than a minute).          *)
Create(r, due) ==
  /\ up /\ rows[r].status = "absent"
  /\ due >= clock
  /\ rows' = [rows EXCEPT ![r] = [status |-> "active", due |-> due]]
  /\ UNCHANGED <<procVars, tick, userVars, failures, histVars>>

(* delete looks at no status: a row that is 'running' goes as well.        *)
Delete(r) ==
  /\ up /\ rows[r].status \notin {"absent", "deleted"}
  /\ rows' = [rows EXCEPT ![r] = [status |-> "deleted", due |-> 0]]
  /\ fired' = [fired EXCEPT ![r] = 0] /\ swept' = [swept EXCEPT ![r] = 0]
  /\ wedged' = wedged \ {r}
  /\ UNCHANGED <<procVars, tick, userVars, failures>>

ToggleRead(r) ==
  /\ up /\ toggle[r] = "none" /\ toggles < MaxToggles
  /\ rows[r].status \in {"active", "paused", "failed"}
  /\ toggle' = [toggle EXCEPT ![r] = rows[r].status]
  /\ toggles' = toggles + 1
  /\ UNCHANGED <<procVars, rows, tick, failures, histVars>>

Flipped(status) == IF status = "active" THEN "paused" ELSE "active"

(* The write is conditional on the status that was read.  A one-shot that  *)
(* failed can be switched on again: its due time stays and it fires anew.  *)
ToggleWrite(r) ==
  /\ toggle[r] # "none"
  /\ toggle' = [toggle EXCEPT ![r] = "none"]
  /\ IF rows[r].status = toggle[r]
     THEN /\ rows' = [rows EXCEPT ![r].status = Flipped(@)]
          /\ IF toggle[r] = "failed"
             THEN /\ fired' = [fired EXCEPT ![r] = 0]
                  /\ swept' = [swept EXCEPT ![r] = 0]
             ELSE UNCHANGED <<fired, swept>>
     ELSE UNCHANGED <<rows, fired, swept>>
  /\ UNCHANGED <<procVars, tick, toggles, failures, wedged>>

-----------------------------------------------------------------------------
(* The runner                                                              *)

ComputeNextRun(from) == from + Period

Due(r, now) == rows[r].status = "active" /\ rows[r].due <= now

(* tick(): `now` is taken, then the due rows are selected.                 *)
TickScan(t) ==
  /\ up /\ tick[t] = Idle
  /\ LET due == {r \in Rows : Due(r, clock)} IN
       /\ due # {}
       /\ tick' = [tick EXCEPT ![t] =
                     [at |-> "claim", now |-> clock, todo |-> due,
                      row |-> {}, ok |-> FALSE]]
  /\ UNCHANGED <<procVars, rows, userVars, failures, histVars>>

NextCandidate(t) ==
  tick' = [tick EXCEPT ![t] =
            IF @.todo = {} THEN Idle
            ELSE [@ EXCEPT !.at = "claim", !.row = {}, !.ok = FALSE]]

Claimable_StatusOnly(r, now) == rows[r].status = "active"

Claimable_DueOnly(r, now) ==
  rows[r].status # "deleted" /\ rows[r].due <= now

(* The claim's WHERE clause, with the `now` of the tick.                   *)
Claimable(r, now) == Due(r, now)

(* The atomic claim of one candidate; a lost claim is skipped.             *)
Claim(t, r) ==
  /\ tick[t].at = "claim" /\ r \in tick[t].todo
  /\ IF Claimable(r, tick[t].now)
     THEN /\ rows' = [rows EXCEPT ![r].status = "running"]
          /\ tick' = [tick EXCEPT ![t].todo = @ \ {r}, ![t].row = {r},
                                  ![t].at = "dispatch"]
     ELSE /\ UNCHANGED rows
          /\ tick' = [tick EXCEPT ![t] =
                        IF tick[t].todo = {r} THEN Idle
                        ELSE [tick[t] EXCEPT !.todo = @ \ {r}]]
  /\ UNCHANGED <<procVars, userVars, failures, histVars>>

(* index.ts' dispatch: tasks.create on behalf of the owner.  Every error   *)
(* is caught there and becomes null, after or before a task was created.   *)
(* Whether it succeeded decides the status of a one-shot alone.            *)
Dispatch(t, created, ok) ==
  /\ tick[t].at = "dispatch"
  /\ ok => created
  /\ tick' = [tick EXCEPT ![t].at = "restore",
                          ![t].ok = ok /\ tick[t].row \subseteq Once]
  /\ fired' = [r \in Rows |->
                 IF created /\ r \in tick[t].row /\ rows[r].status = "running"
                 THEN fired[r] + 1 ELSE fired[r]]
  /\ UNCHANGED <<procVars, rows, userVars, failures, swept, wedged>>

(* The restore's SET clause.                                               *)
Restored(r, now, ok) ==
  IF r \in Once
  THEN [rows[r] EXCEPT !.status = IF ok THEN "completed" ELSE "failed"]
  ELSE [rows[r] EXCEPT !.status = "active", !.due = ComputeNextRun(now)]

(* The restore is by id alone.  When it fails the row stays 'running'.     *)
Restore(t, r, written) ==
  /\ tick[t].at = "restore" /\ tick[t].row = {r}
  /\ NextCandidate(t)
  /\ IF written
     THEN /\ IF rows[r].status = "deleted"
             THEN UNCHANGED <<rows, fired, swept>>
             ELSE LET new == Restored(r, tick[t].now, tick[t].ok) IN
                  /\ rows' = [rows EXCEPT ![r] = new]
                  /\ IF new.due # rows[r].due
                     THEN /\ fired' = [fired EXCEPT ![r] = 0]
                          /\ swept' = [swept EXCEPT ![r] = 0]
                     ELSE UNCHANGED <<fired, swept>>
          /\ UNCHANGED <<failures, wedged>>
     ELSE /\ failures < MaxFailures /\ failures' = failures + 1
          /\ wedged' = IF rows[r].status = "running" THEN wedged \cup {r}
                       ELSE wedged
          /\ UNCHANGED <<rows, fired, swept>>
  /\ UNCHANGED <<procVars, userVars>>

-----------------------------------------------------------------------------
Crash ==
  /\ up /\ boots < MaxBoots
  /\ up' = FALSE
  /\ tick' = [t \in Ticks |-> Idle]
  /\ toggle' = [r \in Rows |-> "none"]
  /\ UNCHANGED <<clock, boots, rows, toggles, failures, histVars>>

Sweep_ActiveOnly(stuck) == [r \in Rows |-> rows[r]]

Sweep(stuck) ==
  [r \in Rows |-> IF r \in stuck THEN [rows[r] EXCEPT !.status = "active"]
                 ELSE rows[r]]

(* recoverStuckRunningScheduledTasks, before the first tick.  A sweep that *)
(* fails is logged and the boot goes on.                                   *)
Boot(sweeps) ==
  /\ ~up /\ up' = TRUE /\ boots' = boots + 1
  /\ LET stuck == {r \in Rows : rows[r].status = "running"} IN
     IF sweeps
     THEN /\ rows' = Sweep(stuck)
          /\ swept' = [r \in Rows |->
                         swept[r] + IF r \in stuck THEN 1 ELSE 0]
          /\ wedged' = wedged \ stuck /\ UNCHANGED failures
     ELSE /\ failures < MaxFailures /\ failures' = failures + 1
          /\ wedged' = wedged \cup stuck
          /\ UNCHANGED <<rows, swept>>
  /\ UNCHANGED <<clock, tick, userVars, fired>>

Pass ==
  /\ clock < MaxTime /\ clock' = clock + 1
  /\ UNCHANGED <<up, boots, rows, tick, userVars, failures, histVars>>

TickStep(t) ==
  \/ TickScan(t)
  \/ \E r \in Rows : Claim(t, r)
  \/ \E created, ok \in BOOLEAN : Dispatch(t, created, ok)
  \/ \E r \in Rows, written \in BOOLEAN : Restore(t, r, written)

UserStep ==
  \/ \E r \in Rows, due \in 0 .. MaxTime : Create(r, due)
  \/ \E r \in Rows : Delete(r) \/ ToggleRead(r) \/ ToggleWrite(r)

Next ==
  \/ UserStep
  \/ \E t \in Ticks : TickStep(t)
  \/ Crash
  \/ \E sweeps \in BOOLEAN : Boot(sweeps)
  \/ Pass

(* The poll timer keeps firing, the awaits of a tick are answered, and pm2 *)
(* restarts a process that died.  Nothing is assumed of the user.          *)
Fairness ==
  /\ \A t \in Ticks : WF_vars(TickStep(t))
  /\ WF_vars(\E sweeps \in BOOLEAN : Boot(sweeps))

Spec == Init /\ [][Next]_vars /\ Fairness

-----------------------------------------------------------------------------
(* The runner's own claim: overlapping ticks never fire a row twice for    *)
(* one due time, and a restart that interrupts a firing costs at most one  *)
(* extra ("Worst case we fire one extra time").                            *)
OneExtraFirePerRestart ==
  \A r \in Rows :
    fired[r] <= swept[r] + (IF rows[r].status = "active" THEN 0 ELSE 1)

(* While a tick dispatches or restores a row, no other tick holds it, and  *)
(* nobody but a delete takes it out of 'running': the restore by id alone  *)
(* therefore overwrites no pause.                                          *)
RunningHasOneOwner ==
  \A t \in Ticks, r \in Rows :
    r \in tick[t].row =>
      /\ rows[r].status \in {"running", "deleted"}
      /\ \A u \in Ticks \ {t} : r \notin tick[u].row

(* A row that is due or claimed is served in the end: it ends up fired,    *)
(* moved to a later time, paused or deleted.  No candidate list, no        *)
(* overlap of ticks and no crash lets it be forgotten; only a failed write *)
(* of the runner itself does, until the next boot.                         *)
DueRowIsServed ==
  \A r \in Rows :
    Due(r, clock) \/ rows[r].status = "running" ~>
      \/ ~Due(r, clock) /\ rows[r].status # "running"
      \/ r \in wedged
=============================================================================
