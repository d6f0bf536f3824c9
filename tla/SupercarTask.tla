---------------------------- MODULE SupercarTask ----------------------------
(***************************************************************************)
(* One browser task from the start of its agent loop to the end of its     *)
(* run: the loop of apps/orchestrator/src/agent/supercar/agent-loop.ts     *)
(* that may park on the user, the tasks.reply / abort / pause / resume     *)
(* mutations that race with it, the watchdog, the reapers, and the guarded *)
(* write of its outcome (task-repository.ts).                              *)
(*                                                                         *)
(* The row and the loop's in-memory handle are two records of the same     *)
(* park, changed by different actors with an await in between.             *)
(*                                                                         *)
(* Time is what the timers order: late is the loop's own deadline (10 min  *)
(* from the start of an attempt), the watchdog follows the first of them   *)
(* by 30 s, a park ends after 5 or 30 min, and the reapers come after 20   *)
(* and 35 min.                                                             *)
(***************************************************************************)
EXTENDS Integers

CONSTANTS
  Replies,    \* clients that may call tasks.reply at the same time
  MaxParks    \* bound on the questions the model asks in a run

ASSUME MaxParksAssumption == MaxParks \in Nat

VARIABLES
  row,        \* tasks.status
  loop,       \* where the run stands
  outcome,    \* what the loop returned
  kind,       \* awaitingKind of the last park
  parks,      \* questions asked so far
  attempt,    \* which call of runSupercarTask by runSupercarWithRetry
  cancelled,  \* the loop's cancelled flag
  asked,      \* tasks.abort answered ok
  late,       \* Date.now() >= deadline
  watch,      \* the watchdog timer
  reply,      \* client -> progress of its tasks.reply
  control     \* progress of a tasks.pause or tasks.resume

vars == <<row, loop, outcome, kind, parks, attempt, cancelled, asked, late,
          watch, reply, control>>

Kinds     == {"clarification", "takeover"}
Outcomes  == {"completed", "failed", "timeout", "cancelled", "handoff",
              "threw"}
Terminal  == {"completed", "failed", "cancelled"}
RowStates == Terminal \cup {"executing", "awaiting_user", "paused"}

(* "setup": runSupercarTask before handles.set; "turn": an iteration;      *)
(* "parking": awaiting onAwaitingUser; "parked": resolveReply installed;   *)
(* "closing": its answer is being reconciled; "ended": the loop returned;  *)
(* "finishing": the outcome was persisted or refused; "over": the finally  *)
(* of runFn ran.                                                           *)
Phases == {"setup", "turn", "parking", "parked", "closing", "ended",
           "finishing", "over"}

TypeOK ==
  /\ row \in RowStates
  /\ loop \in Phases
  /\ outcome \in Outcomes \cup {"none"}
  /\ kind \in Kinds
  /\ parks \in 0 .. MaxParks
  /\ attempt \in 1 .. 2
  /\ cancelled \in BOOLEAN
  /\ asked \in BOOLEAN
  /\ late \in BOOLEAN
  /\ watch \in {"armed", "fired", "cleared"}
  /\ reply \in [Replies -> {"idle", "flip", "deliver"}]
  /\ control \in {"idle", "pausing", "resuming"}

Init ==
  /\ row = "executing"
  /\ loop = "setup"
  /\ outcome = "none"
  /\ kind = "clarification"
  /\ parks = 0
  /\ attempt = 1
  /\ cancelled = FALSE
  /\ asked = FALSE
  /\ late = FALSE
  /\ watch = "armed"
  /\ reply = [r \in Replies |-> "idle"]
  /\ control = "idle"

-----------------------------------------------------------------------------
(* The agent loop.                                                         *)

(* handles.has(taskId).                                                    *)
HasHandle == loop \in {"turn", "parking", "parked", "closing"}

(* runSupercarTask returns o.                                              *)
Return(o) == loop' = "ended" /\ outcome' = o

(* The handle is installed, with a fresh cancelled flag.                   *)
Install ==
  /\ loop = "setup"
  /\ loop' = "turn"
  /\ cancelled' = FALSE
  /\ UNCHANGED <<row, outcome, kind, parks, attempt, asked, late, watch,
                 reply, control>>

(* No key, no executor, no first screenshot.                               *)
SetupFails ==
  /\ loop = "setup"
  /\ Return("failed")
  /\ UNCHANGED <<row, kind, parks, attempt, cancelled, asked, late, watch,
                 reply, control>>

(* The API call of an iteration fails twice: returned from the middle of   *)
(* the iteration, where the cancelled flag is not consulted.               *)
ApiFails ==
  /\ loop = "turn"
  /\ Return("failed")
  /\ UNCHANGED <<row, kind, parks, attempt, cancelled, asked, late, watch,
                 reply, control>>

(* The turn has no tool call and no question: it is the answer, which is   *)
(* reconciled with the live page before the loop returns.                  *)
Answer ==
  /\ loop = "turn"
  /\ loop' = "closing"
  /\ UNCHANGED <<row, outcome, kind, parks, attempt, cancelled, asked, late,
                 watch, reply, control>>

Close ==
  /\ loop = "closing"
  /\ Return("completed")
  /\ UNCHANGED <<row, kind, parks, attempt, cancelled, asked, late, watch,
                 reply, control>>

(* The loop is stuck, and an Apify actor answers instead of the browser.   *)
Delegate ==
  /\ loop = "turn"
  /\ Return("completed")
  /\ UNCHANGED <<row, kind, parks, attempt, cancelled, asked, late, watch,
                 reply, control>>

(* Something on the way throws: runSupercarTask rejects.                   *)
Throw ==
  /\ loop \in {"setup", "turn"}
  /\ Return("threw")
  /\ UNCHANGED <<row, kind, parks, attempt, cancelled, asked, late, watch,
                 reply, control>>

(* The loop condition fails at the top of an iteration: aborted, late, or  *)
(* out of iterations.                                                      *)
LoopExits ==
  /\ loop = "turn"
  /\ Return(IF cancelled THEN "cancelled"
            ELSE IF late THEN "timeout" ELSE "failed")
  /\ UNCHANGED <<row, kind, parks, attempt, cancelled, asked, late, watch,
                 reply, control>>

(* The turn ends with a question: await onAwaitingUser.                    *)
Ask ==
  /\ loop = "turn"
  /\ parks < MaxParks
  /\ loop' = "parking"
  /\ kind' \in Kinds
  /\ parks' = parks + 1
  /\ UNCHANGED <<row, outcome, attempt, cancelled, asked, late, watch, reply,
                 control>>

(* onAwaitingUser's UPDATE commits and its await returns: the loop         *)
(* installs resolveReply and waits.                                        *)
Park ==
  /\ loop = "parking"
  /\ row' = "awaiting_user"
  /\ loop' = "parked"
  /\ UNCHANGED <<outcome, kind, parks, attempt, cancelled, asked, late, watch,
                 reply, control>>

ParkTimeout_Fails ==
  /\ loop = "parked"
  /\ Return("failed")
  /\ UNCHANGED <<row, kind, parks, attempt, cancelled, asked, late, watch,
                 reply, control>>

ParkTimeout_ClarificationOnly ==
  /\ loop = "parked"
  /\ kind = "clarification"
  /\ \/ cancelled /\ Return("cancelled")
     \/ ~cancelled /\ loop' = "closing" /\ UNCHANGED outcome
  /\ UNCHANGED <<row, kind, parks, attempt, cancelled, asked, late, watch,
                 reply, control>>

(* The 5 or 30 minutes pass without an answer: what the model had to say   *)
(* is the result.                                                          *)
ParkTimeout ==
  /\ loop = "parked"
  /\ \/ cancelled /\ Return("cancelled")
     \/ ~cancelled /\ loop' = "closing" /\ UNCHANGED outcome
  /\ UNCHANGED <<row, kind, parks, attempt, cancelled, asked, late, watch,
                 reply, control>>

(* What the loop does when a reply wakes it: leave the user's data to the  *)
(* generate runner (the reply was classified as data), or go on.           *)
Wake ==
  \/ Return("handoff")
  \/ cancelled /\ Return("cancelled")
  \/ ~cancelled /\ late /\ Return("timeout")
  \/ ~cancelled /\ ~late /\ loop' = "turn" /\ UNCHANGED outcome

DeadlinePasses ==
  /\ HasHandle
  /\ ~late
  /\ late' = TRUE
  /\ UNCHANGED <<row, loop, outcome, kind, parks, attempt, cancelled, asked,
                 watch, reply, control>>

(* shouldAutoRetry, up to the wording of the reason: a first attempt that  *)
(* failed within two iterations, a park being one of them.                 *)
Flaky == outcome \in {"failed", "timeout"} /\ attempt = 1 /\ parks < 3

(* runSupercarWithRetry runs a flaky first attempt again, with a fresh     *)
(* deadline.                                                               *)
Retry ==
  /\ loop = "ended"
  /\ Flaky
  /\ attempt' = 2
  /\ loop' = "setup"
  /\ outcome' = "none"
  /\ late' = FALSE
  /\ UNCHANGED <<row, kind, parks, cancelled, asked, watch, reply, control>>

(* The status an outcome is persisted as.                                  *)
Recorded(o) == IF o \in {"timeout", "threw"} THEN "failed" ELSE o

(* persistVisionOutcome: UPDATE ... WHERE status != 'awaiting_user'.       *)
PersistVision(st) == row' = IF row = "awaiting_user" THEN row ELSE st

(* The outcome is cleaned, verified and persisted; or, from the catch of   *)
(* runFn, a rejection is.                                                  *)
Persist ==
  /\ loop = "ended"
  /\ outcome # "handoff"
  /\ PersistVision(Recorded(outcome))
  /\ loop' = "finishing"
  /\ UNCHANGED <<outcome, kind, parks, attempt, cancelled, asked, late, watch,
                 reply, control>>

(* The post-processing of an outcome throws: the catch of runFn records    *)
(* a failure in its place.                                                 *)
PersistFails ==
  /\ loop = "ended"
  /\ PersistVision("failed")
  /\ loop' = "finishing"
  /\ UNCHANGED <<outcome, kind, parks, attempt, cancelled, asked, late, watch,
                 reply, control>>

(* The generate runner answers from the user's data, and its outcome is    *)
(* the task's.                                                             *)
PersistHandoff ==
  /\ loop = "ended"
  /\ outcome = "handoff"
  /\ \E st \in {"completed", "failed"} : PersistVision(st)
  /\ loop' = "finishing"
  /\ UNCHANGED <<outcome, kind, parks, attempt, cancelled, asked, late, watch,
                 reply, control>>

Finally ==
  /\ loop = "finishing"
  /\ loop' = "over"
  /\ watch' = IF watch = "armed" THEN "cleared" ELSE watch
  /\ UNCHANGED <<row, outcome, kind, parks, attempt, cancelled, asked, late,
                 reply, control>>

-----------------------------------------------------------------------------
(* tasks.reply.                                                            *)

(* hasParkedSupercarHandle.  Without a parked handle the mutation changes  *)
(* nothing here and answers ok: false.                                     *)
ReplyCheck(r) ==
  /\ reply[r] = "idle"
  /\ loop = "parked"
  /\ reply' = [reply EXCEPT ![r] = "flip"]
  /\ UNCHANGED <<row, loop, outcome, kind, parks, attempt, cancelled, asked,
                 late, watch, control>>

ReplyFlip_Skipped(r) ==
  /\ reply[r] = "flip"
  /\ reply' = [reply EXCEPT ![r] = "deliver"]
  /\ UNCHANGED <<row, loop, outcome, kind, parks, attempt, cancelled, asked,
                 late, watch, control>>

(* The unconditional UPDATE to 'executing'.                                *)
ReplyFlip(r) ==
  /\ reply[r] = "flip"
  /\ row' = "executing"
  /\ reply' = [reply EXCEPT ![r] = "deliver"]
  /\ UNCHANGED <<loop, outcome, kind, parks, attempt, cancelled, asked, late,
                 watch, control>>

(* supercarReply or supercarHandoffToGenerate.                             *)
ReplyDeliver(r) ==
  /\ reply[r] = "deliver"
  /\ reply' = [reply EXCEPT ![r] = "idle"]
  /\ \/ loop = "parked" /\ Wake
     \/ loop # "parked" /\ UNCHANGED <<loop, outcome>>
  /\ UNCHANGED <<row, kind, parks, attempt, cancelled, asked, late, watch,
                 control>>

-----------------------------------------------------------------------------
(* supercarAbort: set the flag of the installed handle and wake a parked   *)
(* loop.                                                                   *)
SupercarAbort ==
  /\ HasHandle
  /\ cancelled' = TRUE
  /\ \/ loop = "parked" /\ Return("cancelled")
     \/ loop # "parked" /\ UNCHANGED <<loop, outcome>>

(* tasks.abort                                                             *)
Abort ==
  /\ SupercarAbort
  /\ asked' = TRUE
  /\ UNCHANGED <<row, kind, parks, attempt, late, watch, reply, control>>

(* The watchdog of tasks.ts: abort, and release the browser.               *)
Watchdog ==
  /\ watch = "armed"
  /\ loop # "over"
  /\ late \/ attempt = 2
  /\ watch' = "fired"
  /\ \/ SupercarAbort
     \/ ~HasHandle /\ UNCHANGED <<cancelled, loop, outcome>>
  /\ UNCHANGED <<row, kind, parks, attempt, asked, late, reply, control>>

(* tasks.pause and tasks.resume read the row, and write it after an await. *)
(* A browser task has an empty plan, so resume completes it.               *)
ControlCheck ==
  /\ control = "idle"
  /\ \/ row \in {"executing", "awaiting_user"} /\ control' = "pausing"
     \/ row = "paused" /\ control' = "resuming"
  /\ UNCHANGED <<row, loop, outcome, kind, parks, attempt, cancelled, asked,
                 late, watch, reply>>

ControlWrite ==
  /\ control # "idle"
  /\ row' = IF control = "pausing" THEN "paused" ELSE "completed"
  /\ control' = "idle"
  /\ UNCHANGED <<loop, outcome, kind, parks, attempt, cancelled, asked, late,
                 watch, reply>>

(* The 60 s sweep of index.ts: rows 'executing' untouched for 20 minutes.  *)
ZombieReaper ==
  /\ row = "executing"
  /\ late \/ attempt = 2 \/ loop = "over"
  /\ row' = "failed"
  /\ UNCHANGED <<loop, outcome, kind, parks, attempt, cancelled, asked, late,
                 watch, reply, control>>

ParkReaper_Missing == FALSE /\ UNCHANGED vars

(* The same sweep: rows 'awaiting_user' untouched for 35 minutes, 5 more   *)
(* than any park lasts.                                                    *)
ParkReaper ==
  /\ row = "awaiting_user"
  /\ loop \notin {"parking", "parked"}
  /\ row' = "failed"
  /\ UNCHANGED <<loop, outcome, kind, parks, attempt, cancelled, asked, late,
                 watch, reply, control>>

-----------------------------------------------------------------------------
Next ==
  \/ Install \/ SetupFails
  \/ ApiFails \/ Answer \/ Close \/ Delegate \/ Throw \/ LoopExits
  \/ Ask \/ Park
  \/ ParkTimeout \/ DeadlinePasses \/ Retry
  \/ Persist \/ PersistFails \/ PersistHandoff \/ Finally
  \/ \E r \in Replies : ReplyCheck(r) \/ ReplyFlip(r) \/ ReplyDeliver(r)
  \/ Abort \/ Watchdog
  \/ ControlCheck \/ ControlWrite
  \/ ZombieReaper \/ ParkReaper

(* The loop's awaits are bounded (API calls by 120 s, parks by their       *)
(* timer), the deadline passes, DB writes return, the sweeps run.          *)
Fairness ==
  /\ WF_vars(Install \/ SetupFails)
  /\ WF_vars(ApiFails \/ Answer \/ Delegate \/ LoopExits \/ Ask)
  /\ WF_vars(Close)
  /\ WF_vars(Park)
  /\ WF_vars(ParkTimeout)
  /\ WF_vars(DeadlinePasses)
  /\ WF_vars(Retry \/ Persist \/ PersistHandoff)
  /\ WF_vars(Finally)
  /\ \A r \in Replies : WF_vars(ReplyFlip(r)) /\ WF_vars(ReplyDeliver(r))
  /\ WF_vars(ControlWrite)
  /\ WF_vars(ZombieReaper)
  /\ WF_vars(ParkReaper)

Spec     == Init /\ [][Next]_vars
FairSpec == Spec /\ Fairness

-----------------------------------------------------------------------------
(* tasks.ts (reply): "state-machine invariant requires the row to be in    *)
(* `executing` BEFORE the agent-loop is woken from its awaiting_user park".*)
WokenRowIsNotParked ==
  [][loop = "parked" /\ loop' = "turn" => row # "awaiting_user"]_vars

(* The guard of persistVisionOutcome only ever refuses what it was written *)
(* for: a park that timed out, or one that was aborted.  A loop that       *)
(* failed, threw or ran late finds its row unparked.                       *)
FailureIsNeverRefused ==
  loop = "ended" /\ row = "awaiting_user" =>
    outcome \in {"completed", "cancelled"}

(* A run always ends, whatever the user does or fails to do.               *)
RunEnds == <>(loop = "over")

(* A task whose run is over does not stay 'executing' or 'awaiting_user'.  *)
RowSettles == <>[](row \notin {"executing", "awaiting_user"})
=============================================================================
