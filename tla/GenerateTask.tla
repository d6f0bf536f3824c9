---------------------------- MODULE GenerateTask ----------------------------
(***************************************************************************)
(* One task of the generate or the scrape lane: the two forks of           *)
(* tasks.create, agent/generate-runner.ts and agent/scrape-runner.ts, and  *)
(* the tail of tasks.reply, which answers the intake question of a task    *)
(* that no agent loop holds.  Nothing of such a task is kept in memory but *)
(* the promise of its run: the row is all there is, and every write but    *)
(* the outcome's is by id alone.                                           *)
(*                                                                         *)
(* The row's `result` is reduced to what a reply looks for in it: whether  *)
(* it says executionMode 'generate' and whether it names a handoff task.   *)
(***************************************************************************)
EXTENDS Integers, FiniteSets

CONSTANTS
  Clients,       \* clients of the user that may reply
  MaxReplies,    \* bound: replies to a parked row
  MaxControls,   \* bound: pause, resume, confirm and delete calls
  MaxBoots,      \* bound: restarts
  MaxFailures    \* bound: database writes that fail

ASSUME GenerateAssumption ==
  {MaxReplies, MaxControls, MaxBoots, MaxFailures} \subseteq Nat

VARIABLES
  up, boots,
  row,         \* the tasks row
  stale,       \* its updated_at is older than the reaper's limit
  runs,        \* runs under way
  started,     \* runs started so far
  reply,       \* client -> where its reply stands
  control,     \* a control call under way and the status it has read
  told,        \* the last frame of the task: none, ask or an end
  replies, controls, failures,
  parks,       \* history: questions written to the row
  answers,     \* history: runs and handoff tasks that replies have started
  overlapped   \* history: a call was overtaken by another one

procVars == <<up, boots>>
histVars == <<parks, answers, overlapped>>
boundVars == <<replies, controls, failures>>
vars == <<procVars, row, stale, runs, started, reply, control, told, boundVars,
          histVars>>

Ended    == {"completed", "failed", "cancelled"}
Statuses == {"none", "executing", "awaiting_user", "paused", "deleted"} \cup Ended
Lanes    == {"generate", "scrape"}
Quiet    == [at |-> "idle", browser |-> FALSE, known |-> FALSE]
NoCall   == [op |-> "none", seen |-> "none"]

MAX_ATTEMPTS      == 2
MAX_CONTINUATIONS == 2

GenTypeOK ==
  /\ up \in BOOLEAN /\ boots \in 0 .. MaxBoots
  /\ row \in [status: Statuses, lane: Lanes, intake: BOOLEAN, handoff: BOOLEAN]
  /\ stale \in BOOLEAN
  /\ runs \subseteq
       [id: 1 .. started, at: {"scrape", "call", "persist", "announce"},
        attempt: 1 .. MAX_ATTEMPTS, parts: 0 .. MAX_CONTINUATIONS,
        outcome: {"none", "completed", "failed", "awaiting_user"}]
  /\ reply \in [Clients -> [at: {"idle", "flip", "spawn", "patch"},
                            browser: BOOLEAN, known: BOOLEAN]]
  /\ control.op \in {"none", "pause", "resume", "confirm", "delete"}
  /\ told \in {"none", "ask", "completed", "failed"}

Init ==
  /\ up = TRUE /\ boots = 0
  /\ row = [status |-> "none", lane |-> "generate", intake |-> FALSE,
            handoff |-> FALSE]
  /\ stale = FALSE /\ runs = {} /\ started = 0
  /\ reply = [c \in Clients |-> Quiet] /\ control = NoCall
  /\ told = "none"
  /\ replies = 0 /\ controls = 0 /\ failures = 0
  /\ parks = 0 /\ answers = 0 /\ overlapped = FALSE

Fails == failures < MaxFailures /\ failures' = failures + 1

(* A write of the row renews updated_at; a deleted row matches nothing.    *)
Write(new) ==
  /\ row' = IF row.status = "deleted" THEN row ELSE new
  /\ stale' = FALSE

Run(at, outcome) ==
  [id |-> started + 1, at |-> at, attempt |-> 1, parts |-> 0, outcome |-> outcome]

-----------------------------------------------------------------------------
(* The forks of tasks.create: the row, then the run, not awaited.  Without *)
(* Firecrawl a scrape fails before it starts.                              *)
Create(lane, configured) ==
  /\ up /\ row.status = "none"
  /\ row' = [row EXCEPT !.status = "executing", !.lane = lane]
  /\ runs' = {CASE lane = "generate" -> Run("call", "none")
                [] lane = "scrape" /\ configured -> Run("scrape", "none")
                [] OTHER -> Run("persist", "failed")}
  /\ started' = 1
  /\ UNCHANGED <<procVars, stale, reply, control, told, boundVars, histVars>>

-----------------------------------------------------------------------------
(* The runners.                                                            *)

Steps(r, new) ==
  /\ runs' = (runs \ {r}) \cup {new}
  /\ UNCHANGED <<procVars, row, stale, started, reply, control, told, boundVars,
                 histVars>>

First(r) == r.id = 1

(* The scrape lane has no park: a question of its fallback is a failure.   *)
Recorded(r, outcome) ==
  IF First(r) /\ row.lane = "scrape" /\ outcome # "completed" THEN "failed"
  ELSE outcome

Finishes(r, outcome) ==
  Steps(r, [r EXCEPT !.at = "persist", !.outcome = Recorded(r, outcome)])

(* runScrapeTask answers, or the generate runner takes over.               *)
Scraped(r, ok) ==
  /\ r.at = "scrape"
  /\ IF ok THEN Finishes(r, "completed") ELSE Steps(r, [r EXCEPT !.at = "call"])

(* A call returned text.  A text with the marker, and the intake gate that *)
(* precedes the first call, end the run with a question; max_tokens asks   *)
(* for a continuation until there were enough.                             *)
CallText(r, asks, truncated) ==
  /\ r.at = "call"
  /\ CASE asks -> Finishes(r, "awaiting_user")
       [] ~asks /\ truncated /\ r.parts < MAX_CONTINUATIONS ->
            Steps(r, [r EXCEPT !.parts = @ + 1, !.attempt = 1])
       [] OTHER -> Finishes(r, "completed")

(* No text, or no event for 45 s: once more, then the run has failed, and  *)
(* what the calls before it have written is dropped.                       *)
CallEmpty(r) ==
  /\ r.at = "call"
  /\ IF r.attempt < MAX_ATTEMPTS THEN Steps(r, [r EXCEPT !.attempt = @ + 1])
                                 ELSE Finishes(r, "failed")

(* An API error or the wall-clock limit: what there is of a draft is kept. *)
CallThrows(r) ==
  /\ r.at = "call"
  /\ Finishes(r, IF r.parts > 0 THEN "completed" ELSE "failed")

Runner(r) ==
  \/ \E ok \in BOOLEAN : Scraped(r, ok)
  \/ \E asks, truncated \in BOOLEAN : CallText(r, asks, truncated)
  \/ CallEmpty(r) \/ CallThrows(r)

-----------------------------------------------------------------------------
(* What becomes of an outcome.                                             *)

(* A question is written by id; an end by persistVisionOutcome, which      *)
(* refuses a parked row and throws without a row.  Neither answer is       *)
(* looked at; only a resumed run that met an error tells nobody.           *)
Persist(r, ok) ==
  /\ r.at = "persist"
  /\ LET written == ok /\ row.status # "deleted"
         park    == r.outcome = "awaiting_user"
         threw   == ~ok \/ (row.status = "deleted" /\ ~park)
     IN
     /\ IF written /\ (park \/ row.status # "awaiting_user")
        THEN Write([row EXCEPT !.status = r.outcome, !.intake = park,
                               !.handoff = FALSE])
        ELSE UNCHANGED <<row, stale>>
     /\ parks' = parks + IF written /\ park THEN 1 ELSE 0
     /\ IF ok THEN UNCHANGED failures ELSE Fails
     /\ runs' = (runs \ {r}) \cup
                  (IF threw /\ ~First(r) THEN {} ELSE {[r EXCEPT !.at = "announce"]})
  /\ UNCHANGED <<procVars, started, reply, control, told, replies, controls,
                 answers, overlapped>>

Announce(r) ==
  /\ r.at = "announce"
  /\ runs' = runs \ {r}
  /\ told' = IF r.outcome = "awaiting_user" THEN "ask" ELSE r.outcome
  /\ UNCHANGED <<procVars, row, stale, started, reply, control, boundVars,
                 histVars>>

RunStep(r) ==
  Runner(r) \/ Announce(r) \/ \E ok \in BOOLEAN : Persist(r, ok)

-----------------------------------------------------------------------------
(* tasks.reply, once it has found no parked agent loop to deliver to.      *)

Calling == {c \in Clients : reply[c].at # "idle"}

Parked_ByModeAlone == row.intake

(* wasGenerateParked                                                       *)
Parked == row.status = "awaiting_user" /\ row.intake

(* The row is read and the reply judged: does the combined intent now want *)
(* the browser lane?  A reply to anything else is answered ok: false.      *)
ReplyRead(c, browser) ==
  /\ up /\ reply[c] = Quiet /\ Parked
  /\ replies < MaxReplies /\ replies' = replies + 1
  /\ reply' = [reply EXCEPT ![c] =
                 [at |-> "flip", browser |-> browser, known |-> row.handoff]]
  /\ overlapped' = (overlapped \/ Calling # {} \/ control # NoCall)
  /\ UNCHANGED <<procVars, row, stale, runs, started, control, told, controls,
                 failures, parks, answers>>

Goes(c, to) == reply' = [reply EXCEPT ![c] = to]

(* To 'executing' by id, then another run; the error of a failed write is  *)
(* the caller's.                                                           *)
ReplyResume(c, ok) ==
  /\ reply[c].at = "flip" /\ ~reply[c].browser
  /\ Goes(c, Quiet)
  /\ IF ok
     THEN /\ Write([row EXCEPT !.status = "executing"])
          /\ runs' = runs \cup {Run("call", "none")}
          /\ started' = started + 1 /\ answers' = answers + 1
          /\ UNCHANGED failures
     ELSE Fails /\ UNCHANGED <<row, stale, runs, started, answers>>
  /\ UNCHANGED <<procVars, control, told, replies, controls, parks, overlapped>>

HandedOff_ChildFirst(c) == row

(* The parent is completed first: tasks.create takes no follow-up of a     *)
(* task that has not ended.                                                *)
HandedOff(c) ==
  [row EXCEPT !.status = "completed", !.intake = TRUE,
              !.handoff = reply[c].known]

(* A failed write is only logged.  A handoff task the row named already is *)
(* used again.                                                             *)
HandoffFlip(c, ok) ==
  /\ reply[c].at = "flip" /\ reply[c].browser
  /\ Goes(c, [reply[c] EXCEPT !.at = IF reply[c].known THEN "patch" ELSE "spawn"])
  /\ IF ok THEN Write(HandedOff(c)) /\ UNCHANGED failures
           ELSE Fails /\ UNCHANGED <<row, stale>>
  /\ UNCHANGED <<procVars, runs, started, control, told, replies, controls,
                 histVars>>

(* createCaller(ctx).create with the row as parent; it may be refused by   *)
(* other gates as well, which is only logged.                              *)
HandoffSpawn(c, admitted) ==
  /\ reply[c].at = "spawn"
  /\ LET created == admitted /\ row.status \in Ended IN
     /\ Goes(c, [reply[c] EXCEPT !.at = "patch", !.known = created])
     /\ answers' = answers + IF created THEN 1 ELSE 0
  /\ UNCHANGED <<procVars, row, stale, runs, started, control, told, boundVars,
                 parks, overlapped>>

(* The handoff task is noted in the result, and the end announced.         *)
HandoffPatch(c, ok) ==
  /\ reply[c].at = "patch"
  /\ Goes(c, Quiet)
  /\ CASE ~reply[c].known -> told' = "completed" /\ UNCHANGED <<row, stale, failures>>
       [] reply[c].known /\ ok ->
            /\ Write([row EXCEPT !.intake = TRUE, !.handoff = TRUE])
            /\ told' = "completed" /\ UNCHANGED failures
       [] OTHER -> Fails /\ UNCHANGED <<row, stale, told>>
  /\ UNCHANGED <<procVars, runs, started, control, replies, controls, histVars>>

ReplyStep(c) ==
  \E ok \in BOOLEAN : \/ ReplyResume(c, ok) \/ HandoffFlip(c, ok)
                      \/ HandoffSpawn(c, ok) \/ HandoffPatch(c, ok)

-----------------------------------------------------------------------------
(* tasks.pause, resume, confirm and delete read the row, decide, and write *)
(* by id.  The plan of such a task is empty: a resume completes it, and a  *)
(* confirm, which finds no gate, writes back the status it has read.       *)

ReadBy(op) ==
  CASE op = "pause"   -> {"executing", "awaiting_user"}
    [] op = "resume"  -> {"paused"}
    [] op = "confirm" -> {"awaiting_user"}
    [] op = "delete"  -> {"paused"} \cup Ended

WrittenBy(op) ==
  CASE op = "pause"   -> "paused"
    [] op = "resume"  -> "completed"
    [] op = "confirm" -> "awaiting_user"
    [] op = "delete"  -> "deleted"

ControlRead(op) ==
  /\ up /\ control = NoCall /\ row.status \in ReadBy(op)
  /\ controls < MaxControls /\ controls' = controls + 1
  /\ control' = [op |-> op, seen |-> row.status]
  /\ overlapped' = (overlapped \/ Calling # {})
  /\ UNCHANGED <<procVars, row, stale, runs, started, reply, told, replies,
                 failures, parks, answers>>

ControlWrite ==
  /\ control # NoCall /\ control' = NoCall
  /\ Write([row EXCEPT !.status = WrittenBy(control.op)])
  /\ overlapped' = (overlapped \/ row.status # control.seen)
  /\ UNCHANGED <<procVars, runs, started, reply, told, boundVars, parks, answers>>

-----------------------------------------------------------------------------
(* Time passes the reaper's limit: 35 minutes for a park, 20 for a row     *)
(* that executes, which is longer than its run can last.                   *)
Age ==
  /\ ~stale
  /\ row.status = "awaiting_user" \/ (row.status = "executing" /\ runs = {})
  /\ stale' = TRUE
  /\ UNCHANGED <<procVars, row, runs, started, reply, control, told, boundVars,
                 histVars>>

Reaped_ExecutingOnly(status) == status = "executing"

Reaped(status) == status \in {"executing", "awaiting_user"}

(* The sweep of every minute; no frame tells of it.                        *)
Reap ==
  /\ up /\ stale /\ Reaped(row.status)
  /\ Write([row EXCEPT !.status = "failed"])
  /\ UNCHANGED <<procVars, runs, started, reply, control, told, boundVars,
                 histVars>>

Crash ==
  /\ up /\ boots < MaxBoots /\ row.status # "none"
  /\ up' = FALSE
  /\ runs' = {} /\ reply' = [c \in Clients |-> Quiet] /\ control' = NoCall
  /\ UNCHANGED <<boots, row, stale, started, told, boundVars, histVars>>

(* The boot sweep fails a row that executes and is older than two minutes, *)
(* and a park that is stale.                                               *)
Boot(old) ==
  /\ ~up /\ up' = TRUE /\ boots' = boots + 1
  /\ IF \/ row.status = "executing" /\ old
        \/ row.status = "awaiting_user" /\ stale
     THEN Write([row EXCEPT !.status = "failed"])
     ELSE UNCHANGED <<row, stale>>
  /\ UNCHANGED <<runs, started, reply, control, told, boundVars, histVars>>

-----------------------------------------------------------------------------
Next ==
  \/ \E lane \in Lanes, configured \in BOOLEAN : Create(lane, configured)
  \/ \E r \in runs : RunStep(r)
  \/ \E c \in Clients : ReplyStep(c) \/ \E browser \in BOOLEAN : ReplyRead(c, browser)
  \/ \E op \in {"pause", "resume", "confirm", "delete"} : ControlRead(op)
  \/ ControlWrite
  \/ Age \/ Reap \/ Crash
  \/ \E old \in BOOLEAN : Boot(old)

(* Awaits are answered (every call to a model has a limit), the sweep runs *)
(* every minute, and pm2 restarts a process that died.                     *)
Fairness ==
  /\ \A i \in 1 .. MaxReplies + 1 :
       WF_vars(\E r \in runs : r.id = i /\ RunStep(r))
  /\ \A c \in Clients : WF_vars(ReplyStep(c))
  /\ WF_vars(ControlWrite) /\ WF_vars(Age) /\ WF_vars(Reap)
  /\ WF_vars(\E old \in BOOLEAN : Boot(old))

Spec == Init /\ [][Next]_vars /\ Fairness

-----------------------------------------------------------------------------
(* A question is answered once: as long as no call overtakes another, the  *)
(* runs and handoff tasks that replies start are no more than the parks,   *)
(* whatever fails, restarts or times out between them.                     *)
OneAnswerPerPark == ~overlapped => answers <= parks

(* What the client was told is what the row says: unless a call overtook   *)
(* another or a write failed, a task announced as completed or failed is   *)
(* so in the database, across runs, parks, handoffs, reapers and restarts; *)
(* a parent announced as handed off is not still waiting for its user.     *)
EndsAsAnnounced ==
  ~overlapped /\ failures = 0 /\ told \in Ended =>
    row.status \in {told, "deleted"}

(* The row comes to rest although its run may be lost in a crash, its      *)
(* outcome in a failed write or a refusal, and its question without reply. *)
TaskSettles ==
  row.status \in {"executing", "awaiting_user"} ~>
    row.status \in Ended \cup {"paused", "deleted"}
=============================================================================
