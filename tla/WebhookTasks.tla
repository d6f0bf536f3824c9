----------------------------- MODULE WebhookTasks -----------------------------
(***************************************************************************)
(* POST /webhook/tasks with an Idempotency-Key: api-keys/webhook-handler.ts*)
(* over the claims of api-keys/webhook-idempotency-service.ts, for one user*)
(* and one key.  A request claims the key by an INSERT, creates its task   *)
(* and then finalizes or releases the claim; every step below is one       *)
(* statement on the table webhook_idempotency or one await in between.     *)
(*                                                                         *)
(* The clock is abstracted to what the service asks of it: is a claim      *)
(* older than CLAIM_STALE_AFTER_MS, is a row older than its 24 hours.      *)
(* The bodies stand for their SHA-256.                                     *)
(***************************************************************************)
EXTENDS Integers, Sequences, FiniteSets

CONSTANTS
  Callers,       \* HTTP clients; each has one request at a time
  Bodies,        \* request bodies
  SlowDispatch,  \* may tasks.create outlast CLAIM_STALE_AFTER_MS?
  MaxTasks,      \* bound: tasks that get created
  MaxExpiries,   \* bound: times the 24 hours pass
  MaxFailures    \* bound: failed statements, failed dispatches and crashes

ASSUME WebhookAssumption == SlowDispatch \in BOOLEAN /\ MaxTasks \in Nat

VARIABLES
  row,       \* the row of the key: 0 or 1 records
  req,       \* caller -> its request
  tasks,     \* tasks created: the body each was created for
  current,   \* the tasks created since the key last expired
  lost,      \* history: tasks whose id never reached the table
  stolen,    \* history: a claim was taken away while its owner was working
  expiries, failures

vars == <<row, req, tasks, current, lost, stolen, expiries, failures>>

Placeholder == 0
Rows == [hash: Bodies, task: 0 .. MaxTasks, stale: BOOLEAN, expired: BOOLEAN]

Codes == {"none", "ok", "replay", "conflict", "too_early", "unavailable",
          "error"}
Points == {"idle", "claim", "read", "reclaim", "again", "dispatch",
           "finalize", "release"}

WebhookTypeOK ==
  /\ row \subseteq Rows /\ Cardinality(row) <= 1
  /\ req \in [Callers -> [at: Points, body: Bodies, task: 0 .. MaxTasks,
                          code: Codes, orphan: BOOLEAN]]
  /\ tasks \in Seq(Bodies) /\ Len(tasks) <= MaxTasks
  /\ current \subseteq 1 .. Len(tasks)
  /\ lost \subseteq 1 .. Len(tasks) /\ stolen \in BOOLEAN

Init ==
  /\ row = {}
  /\ \E b \in Bodies :
       req = [c \in Callers |-> [at |-> "idle", body |-> b, task |-> 0,
                                 code |-> "none", orphan |-> FALSE]]
  /\ tasks = <<>> /\ current = {} /\ lost = {} /\ stolen = FALSE
  /\ expiries = 0 /\ failures = 0

Fails == failures < MaxFailures /\ failures' = failures + 1

GoTo(c, point) == req' = [req EXCEPT ![c].at = point]

(* The handler answers, and the caller keeps the code and the task id.     *)
Answer(c, code, task) ==
  req' = [req EXCEPT ![c] = [@ EXCEPT !.at = "idle", !.code = code,
                                      !.task = task, !.orphan = FALSE]]

IsClaim(r) == r.task = Placeholder

(* What the service reads as affectedRows of a statement that changed so   *)
(* many rows: it looks the property up on mysql2's [header, fields] pair,  *)
(* finds undefined and takes 0.                                            *)
AffectedRowsRead(changed) == 0

-----------------------------------------------------------------------------
(* recordClaim.                                                            *)

Busy == {c \in Callers : req[c].at # "idle"}

(* Every request may create a task: none arrives that MaxTasks rules out.  *)
Full == Len(tasks) + Cardinality(Busy) >= MaxTasks

Arrive(c, b) ==
  /\ req[c].at = "idle" /\ ~Full
  /\ req' = [req EXCEPT ![c] = [at |-> "claim", body |-> b, task |-> 0,
                                code |-> "none", orphan |-> FALSE]]
  /\ UNCHANGED <<row, tasks, current, lost, stolen, expiries, failures>>

NewClaim(b) ==
  [hash |-> b, task |-> Placeholder, stale |-> FALSE, expired |-> FALSE]

Insertable_Always(rows) == TRUE

(* The unique index on (user, key).                                        *)
Insertable(rows) == rows = {}

(* INSERT first.  ER_DUP_ENTRY goes on to read the row; any other error is *)
(* answered 503.                                                           *)
Claim(c, ok) ==
  /\ req[c].at = "claim"
  /\ IF ~ok
     THEN Fails /\ Answer(c, "unavailable", 0) /\ UNCHANGED row
     ELSE /\ IF Insertable(row)
             THEN row' = row \cup {NewClaim(req[c].body)} /\ GoTo(c, "dispatch")
             ELSE GoTo(c, "read") /\ UNCHANGED row
          /\ UNCHANGED failures
  /\ UNCHANGED <<tasks, current, lost, stolen, expiries>>

Conflicts_Never(b, r) == FALSE

(* Same key, another body.                                                 *)
Conflicts(b, r) == b # r.hash

Replayed(c, r) ==
  IF Conflicts(req[c].body, r) THEN Answer(c, "conflict", r.task)
                               ELSE Answer(c, "replay", r.task)

Orphan_Never(r) == FALSE

(* A claim that is older than CLAIM_STALE_AFTER_MS.                        *)
Orphan(r) == IsClaim(r) /\ r.stale

(* The row is read again: it is gone, has expired, is an orphan, is a      *)
(* claim under way, or is final.                                           *)
Reread(c) ==
  /\ req[c].at = "read"
  /\ IF \E r \in row : r.expired \/ Orphan(r)
     THEN \E r \in row :
            req' = [req EXCEPT ![c].at = "reclaim", ![c].orphan = ~r.expired]
     ELSE \/ row = {} /\ Answer(c, "too_early", 0)
          \/ \E r \in row : IF IsClaim(r) THEN Answer(c, "too_early", 0)
                                          ELSE Replayed(c, r)
  /\ UNCHANGED <<row, tasks, current, lost, stolen, expiries, failures>>

Working(c) == req[c].at \in {"dispatch", "finalize", "release"}

(* tryReclaim: DELETE of the key's placeholder, whoever put it there.  The *)
(* INSERT of an own claim would follow if affectedRows were read.          *)
Reclaim(c) ==
  /\ req[c].at = "reclaim"
  /\ LET claims == {r \in row : IsClaim(r)}
         left   == row \ claims
     IN
     /\ stolen' = (stolen \/ (claims # {} /\ \E d \in Callers : Working(d)))
     /\ IF AffectedRowsRead(Cardinality(claims)) = 0
        THEN /\ row' = left
             /\ IF req[c].orphan THEN GoTo(c, "again")
                                 ELSE Answer(c, "too_early", 0)
        ELSE /\ row' = {NewClaim(req[c].body)}
             /\ GoTo(c, "dispatch")
  /\ UNCHANGED <<tasks, current, lost, expiries, failures>>

(* The lookup after a takeover that failed.                                *)
LookAgain(c) ==
  /\ req[c].at = "again"
  /\ LET final == {r \in row : ~r.expired /\ ~IsClaim(r)} IN
     IF final = {} THEN Answer(c, "too_early", 0)
                   ELSE \E r \in final : Replayed(c, r)
  /\ UNCHANGED <<row, tasks, current, lost, stolen, expiries, failures>>

-----------------------------------------------------------------------------
(* The owner of a claim.                                                   *)

(* repo.insertTask.                                                        *)
Inserts(b) ==
  /\ tasks' = Append(tasks, b)
  /\ current' = current \cup {Len(tasks')}

(* tasks.create answers with its task.                                     *)
Dispatch(c) ==
  /\ req[c].at = "dispatch"
  /\ Inserts(req[c].body)
  /\ req' = [req EXCEPT ![c].at = "finalize", ![c].task = Len(tasks')]
  /\ UNCHANGED <<row, lost, stolen, expiries, failures>>

(* tasks.create throws: at one of its gates, or when its row is inserted   *)
(* already (a statement after the INSERT, the queue at its depth cap).     *)
DispatchThrows(c, inserted) ==
  /\ req[c].at = "dispatch"
  /\ Fails
  /\ GoTo(c, "release")
  /\ IF inserted THEN Inserts(req[c].body) /\ lost' = lost \cup {Len(tasks')}
                 ELSE UNCHANGED <<tasks, current, lost>>
  /\ UNCHANGED <<row, stolen, expiries>>

Own(c, r) == [r EXCEPT !.task = req[c].task]

Finalized(r, c) == IF IsClaim(r) THEN Own(c, r) ELSE r

(* finalizeClaim: the placeholder gets the task, whoever put it there.  A  *)
(* failure is only logged: the caller has its task.                        *)
Finalize(c, ok) ==
  /\ req[c].at = "finalize"
  /\ Answer(c, "ok", req[c].task)
  /\ IF ok THEN row' = {Finalized(r, c) : r \in row} /\ UNCHANGED <<lost, failures>>
           ELSE Fails /\ lost' = lost \cup {req[c].task} /\ UNCHANGED row
  /\ UNCHANGED <<tasks, current, stolen, expiries>>

(* releaseClaim: a failed dispatch gives the key back.                     *)
Release(c, ok) ==
  /\ req[c].at = "release"
  /\ Answer(c, "error", 0)
  /\ IF ok THEN row' = {r \in row : ~IsClaim(r)} /\ UNCHANGED failures
           ELSE Fails /\ UNCHANGED row
  /\ UNCHANGED <<tasks, current, lost, stolen, expiries>>

-----------------------------------------------------------------------------
(* The clock, the cleanup and the process.                                 *)

(* A minute passes over a claim; the service counts on a dispatch to be    *)
(* over by then.                                                           *)
MinutePasses ==
  /\ \E r \in row : IsClaim(r) /\ ~r.stale
  /\ SlowDispatch \/ \A c \in Callers : ~Working(c)
  /\ row' = {[r EXCEPT !.stale = TRUE] : r \in row}
  /\ UNCHANGED <<req, tasks, current, lost, stolen, expiries, failures>>

(* 24 hours pass; no request lives that long.                              *)
DayPasses ==
  /\ expiries < MaxExpiries
  /\ Busy = {}
  /\ \E r \in row : ~r.expired
  /\ row' = {[r EXCEPT !.expired = TRUE, !.stale = TRUE] : r \in row}
  /\ current' = {}
  /\ expiries' = expiries + 1
  /\ UNCHANGED <<req, tasks, lost, stolen, failures>>

(* The hourly cleanup.                                                     *)
Cleanup ==
  /\ \E r \in row : r.expired
  /\ row' = {r \in row : ~r.expired}
  /\ UNCHANGED <<req, tasks, current, lost, stolen, expiries, failures>>

(* The process ends: every request is lost, the table stays.               *)
Crash ==
  /\ Busy # {}
  /\ Fails
  /\ req' = [c \in Callers |->
              IF c \notin Busy THEN req[c]
              ELSE [req[c] EXCEPT !.at = "idle", !.code = "error", !.task = 0,
                                  !.orphan = FALSE]]
  /\ lost' = lost \cup {req[c].task : c \in {d \in Callers : req[d].at = "finalize"}}
  /\ UNCHANGED <<row, tasks, current, stolen, expiries>>

-----------------------------------------------------------------------------
Step(c) ==
  \/ \E ok \in BOOLEAN :
       Claim(c, ok) \/ DispatchThrows(c, ok) \/ Finalize(c, ok) \/ Release(c, ok)
  \/ Reread(c) \/ Reclaim(c) \/ LookAgain(c) \/ Dispatch(c)

Next ==
  \/ \E c \in Callers : Step(c) \/ \E b \in Bodies : Arrive(c, b)
  \/ MinutePasses \/ DayPasses \/ Cleanup \/ Crash

(* A request is carried to its end, a caller that was told to come again   *)
(* does, minutes pass, and the cleanup runs every hour.  Nobody has to wait*)
(* for the 24 hours.                                                       *)
ToldToRetry(c) == req[c].code \in {"too_early", "unavailable", "error"}
Retry(c) == ToldToRetry(c) /\ Arrive(c, req[c].body)

Fairness ==
  /\ \A c \in Callers : WF_vars(Step(c)) /\ WF_vars(Retry(c))
  /\ WF_vars(MinutePasses) /\ WF_vars(Cleanup)

Spec == Init /\ [][Next]_vars /\ Fairness

-----------------------------------------------------------------------------
(* A key makes one task within its 24 hours that the table can speak for:  *)
(* however many requests carry it, overlap, fail and come again, across    *)
(* crashes and the takeovers of claims that are really orphaned.  Not      *)
(* counted are the tasks whose id never reached the table (tasks.create    *)
(* threw past its INSERT, the finalizing write failed, the process ended   *)
(* before it): a retry makes another.  And nothing is said once a claim    *)
(* was taken from an owner that was still at work, which the code allows.  *)
OneTaskPerKey == ~stolen => Cardinality(current \ lost) <= 1

(* As long as no claim was taken from an owner that was still at work, a   *)
(* caller who is answered with a task gets one that was created for the    *)
(* body it sent, through crashes, releases, expiries and the takeovers of  *)
(* claims that are really orphaned.  Without the condition it is false:    *)
(* the robbed owner's late finalize writes its task into the placeholder   *)
(* of another body.                                                        *)
OwnTaskUntilStolen ==
  ~stolen =>
    \A c \in Callers :
      req[c].code \in {"ok", "replay"} =>
        req[c].task \in DOMAIN tasks /\ tasks[req[c].task] = req[c].body

(* A caller that comes again as it was told gets a task in the end: no     *)
(* orphaned claim and no expired row blocks the key for good.              *)
RetriesAreServed ==
  \A c \in Callers :
    ToldToRetry(c) ~> Full \/ req[c].code \in {"ok", "replay", "conflict"}
=============================================================================
