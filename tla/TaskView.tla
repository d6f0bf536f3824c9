------------------------------ MODULE TaskView ------------------------------
(***************************************************************************)
(* One tab of the web workbench: stores/task-store.ts shows the user's     *)
(* tasks from three sources that know nothing of each other's order: the   *)
(* frames of its WebSocket (lib/ws.ts, no replay after a reconnect), the   *)
(* answers to tasks.list and tasks.detail, and what its own mutations      *)
(* write into the store when they are answered.  components/AppShell.tsx   *)
(* boots it and follows the URL.                                           *)
(*                                                                         *)
(* The orchestrator is what the tab can see of it: a task's row, its step  *)
(* rows and the frames tasks.ts sends.  A query is read where it is sent;  *)
(* it is its answer that comes late.                                       *)
(***************************************************************************)
EXTENDS Integers, FiniteSets, SequencesExt

CONSTANTS
  Tasks,       \* tasks the user or a handoff may create
  Spawned,     \* those that a handoff creates; bound: they end without an
               \* iteration, a question or an abort
  MaxTicks,    \* bound: iterations of one task
  MaxAsks,     \* bound: questions of one task
  MaxLists,    \* bound: list queries under way
  MaxCalls,    \* bound: mutations under way
  MaxFrames,   \* bound: frames under way
  MaxDrops     \* bound: lost connections and reloads of the page

None == "none"
ASSUME ViewAssumption ==
  None \notin Tasks /\ Spawned \subseteq Tasks /\ MaxTicks \in Nat /\ MaxAsks \in Nat

VARIABLES
  srv,       \* task -> status, ticks so far, persisted ticks, questions,
             \* and whether the loop was told to stop
  online,    \* the socket is open
  wire,      \* frames under way on it
  reads,     \* answers to queries under way, without the answers that
             \* will be dropped for their hydrateToken
  calls,     \* answers to mutations under way
  jumps,     \* tasks a handoff's timer is about to select
  shown,     \* task -> status in the task list, "absent" if not listed
  steps,     \* task -> the step cards
  prompt,    \* task -> the question shown, 0 for none
  selected, url,
  drops,
  stray      \* history: createTask or deleteTask has moved the selection
             \* since the last detail query

viewVars == <<shown, steps, prompt, selected, url>>
allVars == <<srv, online, wire, reads, calls, jumps, viewVars, drops, stray>>

Ended    == {"done", "cancelled"}
Statuses == {"executing", "awaiting"} \cup Ended
Ticks    == 1 .. MaxTicks
Card     == [tick: Ticks, status: {"running", "done"}]

ViewTypeOK ==
  /\ srv \in [Tasks -> [status: Statuses \cup {"absent", "asking", "deleted"},
                        ticks: 0 .. MaxTicks, rows: SUBSET Ticks,
                        asks: 0 .. MaxAsks, stop: BOOLEAN]]
  /\ online \in BOOLEAN
  /\ \A r \in reads : r.kind \in {"list", "detail"}
  /\ Cardinality({r \in reads : r.kind = "detail"}) <= 1
  /\ shown \in [Tasks -> Statuses \cup {"absent"}]
  /\ \A t \in Tasks : steps[t] \in Seq(Card)
  /\ prompt \in [Tasks -> 0 .. MaxAsks]
  /\ selected \in Tasks \cup {None} /\ url \in Tasks \cup {None}

ViewInit ==
  /\ srv = [t \in Tasks |-> [status |-> "absent", ticks |-> 0, rows |-> {},
                             asks |-> 0, stop |-> FALSE]]
  /\ online = TRUE /\ wire = <<>> /\ reads = {} /\ calls = {} /\ jumps = {}
  /\ shown = [t \in Tasks |-> "absent"]
  /\ steps = [t \in Tasks |-> <<>>] /\ prompt = [t \in Tasks |-> 0]
  /\ selected = None /\ url = None
  /\ drops = 0 /\ stray = FALSE

-----------------------------------------------------------------------------
(* The orchestrator.                                                       *)

Listed(t) == srv[t].status \notin {"absent", "deleted"}

(* What a row says: the question is announced before the row is parked.    *)
RowStatus(t) == IF srv[t].status = "asking" THEN "executing" ELSE srv[t].status

Send(frames) ==
  /\ Len(wire \o frames) <= MaxFrames
  /\ wire' = IF online THEN wire \o frames ELSE wire

Frame(kind, t, n) == [kind |-> kind, task |-> t, n |-> n, handoff |-> None]

ServerOnly == UNCHANGED <<online, reads, calls, jumps, viewVars, drops, stray>>

(* onTick: both frames of an iteration are sent at its end, and the step   *)
(* row is inserted behind them, or never.                                  *)
ServerTick(t) ==
  /\ srv[t].status = "executing" /\ srv[t].ticks < MaxTicks /\ t \notin Spawned
  /\ srv' = [srv EXCEPT ![t].ticks = @ + 1]
  /\ Send(<<Frame("start", t, srv[t].ticks + 1), Frame("end", t, srv[t].ticks + 1)>>)
  /\ ServerOnly

ServerRow(t, n) ==
  /\ Listed(t) /\ n <= srv[t].ticks /\ n \notin srv[t].rows
  /\ srv' = [srv EXCEPT ![t].rows = @ \cup {n}]
  /\ UNCHANGED wire /\ ServerOnly

(* onAwaitingUser: the frame, then the row.                                *)
ServerAsk(t) ==
  /\ srv[t].status = "executing" /\ srv[t].asks < MaxAsks /\ t \notin Spawned
  /\ srv' = [srv EXCEPT ![t].status = "asking", ![t].asks = @ + 1]
  /\ Send(<<Frame("ask", t, srv[t].asks + 1)>>)
  /\ ServerOnly

ServerPark(t) ==
  /\ srv[t].status = "asking"
  /\ srv' = [srv EXCEPT ![t].status = "awaiting"]
  /\ UNCHANGED wire /\ ServerOnly

(* The outcome is persisted, then announced.  A loop that was told to stop *)
(* may have finished before it looked.                                     *)
ServerEnd(t, outcome) ==
  /\ srv[t].status \in {"executing", "awaiting"}
  /\ outcome = "cancelled" => srv[t].stop
  /\ srv' = [srv EXCEPT ![t].status = outcome]
  /\ Send(<<Frame("terminal", t, outcome)>>)
  /\ ServerOnly

-----------------------------------------------------------------------------
(* Queries.                                                                *)

(* Every detail query takes the hydrateToken from the one before it, whose *)
(* answer will be dropped; selectTask and enterNewTaskMode take it as well.*)
(* hydrateDetail and abortInFlightHydrate take the token.                  *)
Aborted(pending) == {r \in pending : r.kind # "detail"}

Detail(t) ==
  [kind |-> "detail", task |-> t,
   rows |-> [u \in Tasks |-> IF u = t /\ Listed(t) THEN RowStatus(t) ELSE "absent"],
   ticks |-> srv[t].rows,
   ask |-> IF srv[t].status = "awaiting" THEN srv[t].asks ELSE 0]

List ==
  [kind |-> "list", task |-> None,
   rows |-> [u \in Tasks |-> IF Listed(u) THEN RowStatus(u) ELSE "absent"],
   ticks |-> {}, ask |-> 0]

Hydrate_NoToken(t, pending) ==
  /\ reads' = pending \cup {Detail(t)}
  /\ stray' = FALSE

(* hydrateDetail(t), out of the queries `pending`.                         *)
Hydrate(t, pending) ==
  /\ reads' = Aborted(pending) \cup {Detail(t)}
  /\ stray' = FALSE

(* Array.sort by tick: stable, so that a card comes behind those of lower  *)
(* ticks and those of its own that were in front of it.                    *)
Earlier(cards, i) ==
  {j \in DOMAIN cards : \/ cards[j].tick < cards[i].tick
                        \/ cards[j].tick = cards[i].tick /\ j < i}

InTickOrder(cards) ==
  [k \in DOMAIN cards |->
    cards[CHOOSE i \in DOMAIN cards : Cardinality(Earlier(cards, i)) = k - 1]]

Done(n) == [tick |-> n, status |-> "done"]

(* The cards of the step rows in an answer.                                *)
Hydrated(ticks) == InTickOrder(SetToSeq({Done(n) : n \in ticks}))

HydratedPrompt_Keep(r) == IF r.ask = 0 THEN prompt[r.task] ELSE r.ask

(* The question of the answer, or none.                                    *)
HydratedPrompt(r) == r.ask

(* The answer to a detail query that kept its token.  A task that is not   *)
(* there answers NOT_FOUND, which changes nothing.  A task that is not     *)
(* listed is put in front of the list.                                     *)
DetailAnswered(r) ==
  /\ r \in reads /\ r.kind = "detail"
  /\ reads' = reads \ {r}
  /\ IF r.rows[r.task] # "absent"
     THEN /\ shown' = [shown EXCEPT ![r.task] = r.rows[r.task]]
          /\ steps' = [steps EXCEPT ![r.task] = Hydrated(r.ticks)]
          /\ prompt' = [prompt EXCEPT ![r.task] = HydratedPrompt(r)]
     ELSE UNCHANGED <<shown, steps, prompt>>
  /\ UNCHANGED <<srv, online, wire, calls, jumps, selected, url, drops, stray>>

(* The answer to a list query replaces the list, but for the selected row  *)
(* when it is not on the page; the selection is hydrated.                  *)
ListAnswered(r) ==
  /\ r \in reads /\ r.kind = "list"
  /\ shown' = [t \in Tasks |->
       IF t = selected /\ r.rows[t] = "absent" THEN shown[t] ELSE r.rows[t]]
  /\ IF selected # None THEN Hydrate(selected, reads \ {r})
     ELSE reads' = reads \ {r} /\ UNCHANGED stray
  /\ UNCHANGED <<srv, online, wire, calls, jumps, steps, prompt, selected, url, drops>>

(* A query that fails sets an error text.                                  *)
ReadFails(r) ==
  /\ r \in reads
  /\ reads' = reads \ {r}
  /\ UNCHANGED <<srv, online, wire, calls, jumps, viewVars, drops, stray>>

-----------------------------------------------------------------------------
(* Frames.                                                                 *)

Has(t, n) == \E i \in DOMAIN steps[t] : steps[t][i].tick = n

WithStart_Append(t, n) == Append(steps[t], [tick |-> n, status |-> "running"])

(* server.vision.tick.start: a step that is there already is left alone.   *)
WithStart(t, n) ==
  IF Has(t, n) THEN steps[t]
  ELSE Append(steps[t], [tick |-> n, status |-> "running"])

(* server.vision.tick.end: the step is done, and made up if its start was  *)
(* missed; the cards are sorted.                                           *)
WithEnd(t, n) ==
  InTickOrder(IF Has(t, n)
              THEN [i \in DOMAIN steps[t] |->
                     IF steps[t][i].tick = n THEN Done(n) ELSE steps[t][i]]
              ELSE Append(steps[t], Done(n)))

(* applyServerMessage on the next frame.  A terminal frame leaves a prompt *)
(* where it is, and no frame makes a row.  If it hands the task off, a     *)
(* timer is set to select the new task.                                    *)
Receive ==
  /\ wire # <<>>
  /\ wire' = Tail(wire)
  /\ LET f == Head(wire) IN
     /\ steps' = CASE f.kind = "start" -> [steps EXCEPT ![f.task] = WithStart(f.task, f.n)]
                   [] f.kind = "end"   -> [steps EXCEPT ![f.task] = WithEnd(f.task, f.n)]
                   [] OTHER -> steps
     /\ prompt' = IF f.kind = "ask" THEN [prompt EXCEPT ![f.task] = f.n] ELSE prompt
     /\ shown' = IF f.kind = "terminal" /\ shown[f.task] # "absent"
                 THEN [shown EXCEPT ![f.task] = f.n] ELSE shown
     /\ jumps' = jumps \cup ({f.handoff} \ {None})
  /\ UNCHANGED <<srv, online, reads, calls, selected, url, drops, stray>>

(* The socket closes, and what was sent on it is gone.                     *)
Drop ==
  /\ online /\ drops < MaxDrops /\ drops' = drops + 1
  /\ online' = FALSE /\ wire' = <<>>
  /\ UNCHANGED <<srv, reads, calls, jumps, viewVars, stray>>

(* scheduleReconnect: nothing is asked for or replayed.                    *)
Reconnect ==
  /\ ~online /\ online' = TRUE
  /\ UNCHANGED <<srv, wire, reads, calls, jumps, viewVars, drops, stray>>

-----------------------------------------------------------------------------
(* The user.                                                               *)

(* A click on a listed task, selected or not: selectTask.                  *)
Select(t) ==
  /\ shown[t] # "absent"
  /\ Hydrate(t, reads)
  /\ selected' = t /\ url' = t
  /\ UNCHANGED <<srv, online, wire, calls, jumps, shown, steps, prompt, drops>>

EnterNewTaskMode ==
  /\ selected # None
  /\ selected' = None /\ url' = None
  /\ reads' = Aborted(reads)
  /\ UNCHANGED <<srv, online, wire, calls, jumps, shown, steps, prompt, drops, stray>>

(* The timer of a handoff: selectTask, whether the task is listed or not.  *)
FollowHandoff(t) ==
  /\ t \in jumps /\ jumps' = jumps \ {t}
  /\ Hydrate(t, reads)
  /\ selected' = t /\ url' = t
  /\ UNCHANGED <<srv, online, wire, calls, shown, steps, prompt, drops>>

(* AppShell's inbound effect: a task in the URL that is not the selection  *)
(* is selected, in new-task mode as well.                                  *)
FollowUrl ==
  /\ url # None /\ url # selected
  /\ Hydrate(url, reads)
  /\ selected' = url
  /\ UNCHANGED <<srv, online, wire, calls, jumps, shown, steps, prompt, url, drops>>

(* The page is reloaded: the bootstrap effect selects what the URL names   *)
(* and asks for the list.                                                  *)
Reload ==
  /\ drops < MaxDrops /\ drops' = drops + 1
  /\ online' = TRUE /\ wire' = <<>> /\ calls' = {} /\ jumps' = {}
  /\ shown' = [t \in Tasks |-> "absent"]
  /\ steps' = [t \in Tasks |-> <<>>] /\ prompt' = [t \in Tasks |-> 0]
  /\ selected' = url
  /\ reads' = {List} \cup (IF url = None THEN {} ELSE {Detail(url)})
  /\ stray' = FALSE
  /\ UNCHANGED <<srv, url>>

(* A mutation takes effect; its answer is under way.                       *)
Call(op, t) ==
  /\ Cardinality(calls) < MaxCalls
  /\ calls' = calls \cup {[op |-> op, task |-> t]}
  /\ UNCHANGED <<online, reads, jumps, viewVars, drops, stray>>

CallCreate(t) ==
  /\ t \notin Spawned /\ srv[t].status = "absent"
  /\ srv' = [srv EXCEPT ![t].status = "executing"]
  /\ Call("create", t) /\ UNCHANGED wire

(* tasks.delete: refused while the task executes or awaits.                *)
CallDelete(t) ==
  /\ shown[t] # "absent" /\ srv[t].status \in Ended
  /\ srv' = [srv EXCEPT ![t] = [@ EXCEPT !.status = "deleted", !.rows = {}]]
  /\ Call("delete", t) /\ UNCHANGED wire

(* tasks.reply: the row goes back to 'executing' and the loop is woken.    *)
CallReply(t) ==
  /\ shown[t] # "absent" /\ srv[t].status = "awaiting"
  /\ srv' = [srv EXCEPT ![t].status = "executing"]
  /\ Call("reply", t) /\ UNCHANGED wire

(* A reply that asks for more time, or whose write fails, changes no row;  *)
(* the question is sent again, if it can be read.  Bound: one such reply   *)
(* and one copy of a question are under way at a time.                     *)
CallReplyKeeps(t) ==
  /\ shown[t] # "absent" /\ srv[t].status = "awaiting"
  /\ \A k \in calls : k.op # "reply kept"
  /\ LET again == Frame("ask", t, srv[t].asks) IN
     Send(<<>>) \/ (again \notin ToSet(wire) /\ Send(<<again>>))
  /\ Call("reply kept", t) /\ UNCHANGED srv

(* A reply that shows a need for the browser: the parent is completed, a   *)
(* task is created that goes on for it, and the terminal frame names it.   *)
CallReplyHandsOff(t, child) ==
  /\ shown[t] # "absent" /\ srv[t].status = "awaiting"
  /\ child \in Spawned /\ srv[child].status = "absent"
  /\ srv' = [srv EXCEPT ![t].status = "done", ![child].status = "executing"]
  /\ Send(<<[Frame("terminal", t, "done") EXCEPT !.handoff = child]>>)
  /\ Call("reply", t)

(* tasks.abort raises a flag; the loop ends later.                         *)
CallAbort(t) ==
  /\ t \notin Spawned
  /\ shown[t] = "executing" /\ srv[t].status \in {"executing", "asking", "awaiting"}
  /\ srv' = [srv EXCEPT ![t].stop = TRUE]
  /\ Call("abort", t) /\ UNCHANGED wire

(* createTask: the new task in front, selected; then the list is asked for.*)
CreateAnswered(k) ==
  /\ k \in calls /\ k.op = "create"
  /\ Cardinality(Aborted(reads)) < MaxLists
  /\ calls' = calls \ {k}
  /\ shown' = [shown EXCEPT ![k.task] = "executing"]
  /\ selected' = k.task /\ url' = k.task
  /\ stray' = TRUE
  /\ reads' = reads \cup {List}
  /\ UNCHANGED <<srv, online, wire, jumps, steps, prompt, drops>>

(* deleteTask: the row and its steps go; if it was selected, so does the   *)
(* selection.  The prompt, the URL and the queries under way stay.         *)
DeleteAnswered(k) ==
  /\ k \in calls /\ k.op = "delete"
  /\ calls' = calls \ {k}
  /\ shown' = [shown EXCEPT ![k.task] = "absent"]
  /\ steps' = [steps EXCEPT ![k.task] = <<>>]
  /\ IF selected = k.task THEN selected' = None /\ stray' = TRUE
                          ELSE UNCHANGED <<selected, stray>>
  /\ UNCHANGED <<srv, online, wire, jumps, reads, prompt, url, drops>>

(* replyToTask: the prompt is cleared, whichever question it is by now;    *)
(* 'stillAwaiting' and 'persistFailed' leave it.                           *)
ReplyAnswered(k) ==
  /\ k \in calls /\ k.op \in {"reply", "reply kept"}
  /\ calls' = calls \ {k}
  /\ prompt' = IF k.op = "reply" THEN [prompt EXCEPT ![k.task] = 0] ELSE prompt
  /\ UNCHANGED <<srv, online, wire, jumps, reads, shown, steps, selected, url, drops, stray>>

(* abortTask: the row becomes 'cancelled', whatever it says by now.        *)
AbortAnswered(k) ==
  /\ k \in calls /\ k.op = "abort"
  /\ calls' = calls \ {k}
  /\ shown' = [shown EXCEPT ![k.task] = IF @ = "absent" THEN @ ELSE "cancelled"]
  /\ UNCHANGED <<srv, online, wire, jumps, reads, steps, prompt, selected, url, drops, stray>>

-----------------------------------------------------------------------------
ServerStep(t) ==
  \/ ServerTick(t) \/ ServerAsk(t) \/ ServerPark(t)
  \/ \E outcome \in Ended : ServerEnd(t, outcome)
  \/ \E n \in Ticks : ServerRow(t, n)

Answered(k) ==
  CreateAnswered(k) \/ DeleteAnswered(k) \/ ReplyAnswered(k) \/ AbortAnswered(k)

ViewNext ==
  \/ \E t \in Tasks :
       \/ ServerStep(t) \/ Select(t)
       \/ CallCreate(t) \/ CallDelete(t) \/ CallReply(t) \/ CallAbort(t)
       \/ CallReplyKeeps(t) \/ FollowHandoff(t)
       \/ \E child \in Tasks : CallReplyHandsOff(t, child)
  \/ \E r \in reads : DetailAnswered(r) \/ ListAnswered(r) \/ ReadFails(r)
  \/ \E k \in calls : Answered(k)
  \/ Receive \/ Drop \/ Reconnect
  \/ EnterNewTaskMode \/ FollowUrl \/ Reload

(* Frames and answers arrive, the park is written, a loop that is told to  *)
(* stop ends, and the user opens every listed task again and again, each   *)
(* time long enough for an answer every now and then.                      *)
ViewFairness ==
  /\ WF_allVars(Receive)
  /\ WF_allVars(\E k \in calls : Answered(k))
  /\ WF_allVars(\E r \in reads : ListAnswered(r))
  /\ \A t \in Tasks :
       /\ WF_allVars(ServerPark(t)) /\ SF_allVars(Select(t))
       /\ WF_allVars(srv[t].stop /\ ServerEnd(t, "cancelled"))
       /\ SF_allVars(\E r \in reads : r.task = t /\ DetailAnswered(r))

ViewSpec == ViewInit /\ [][ViewNext]_allVars /\ ViewFairness

-----------------------------------------------------------------------------
(* An iteration has one step card, whatever mix of frames, lost frames and *)
(* answers the cards come from.                                            *)
EachTickOnce ==
  \A t \in Tasks : \A i, j \in DOMAIN steps[t] :
    steps[t][i].tick = steps[t][j].tick => i = j

(* task-store.ts aborts the old detail query when the user turns to another*)
(* task, lest its tail run "against the now-different selectedTaskId": an  *)
(* answer that will be applied is for the selection.  createTask and       *)
(* deleteTask move the selection without aborting; only they are excepted. *)
DetailIsForSelection ==
  \A r \in reads : r.kind = "detail" => r.task = selected \/ stray

(* The view of a task agrees with its rows.                                *)
Agrees(t) ==
  /\ shown[t] = RowStatus(t)
  /\ prompt[t] = IF srv[t].status = "awaiting" THEN srv[t].asks ELSE 0
  /\ {steps[t][i].tick : i \in DOMAIN steps[t]} = srv[t].rows

(* A listed task that the user keeps opening is shown as it is in the end, *)
(* whatever frames were lost and whatever answers came late.               *)
ViewConverges ==
  <>[](\A t \in Tasks : shown[t] # "absent" /\ Listed(t) => Agrees(t))
=============================================================================
