# A TLA+ model of HOLA DAY

The orchestrator (`apps/orchestrator`) is a single Node.js process. Users ask it,
through tRPC, for tasks; it admits and queues them, gives a browser task a browser of
its own, lets an LLM agent loop drive it (or answers with one call to a model), talks to
the user while it runs, and records the outcome in MySQL. Schedules, batches and webhooks
create tasks as well, extensions execute the older planned-step tasks, and a web
workbench shows them. Payments fill the quota that admission spends. This directory
models who owns which slot, queue place, row, claim and run, in which order they change
hands, and what is left when a step fails, is repeated, arrives late, or the process
ends half-way.

All paths below are relative to the repository root; `orch` stands for
`apps/orchestrator/src`.

## 1. Inventory

JavaScript runs one callback at a time, so a stretch of code between two `await`s
is atomic. Everything hard comes from what can happen *at* an `await`, from the
two places where state lives (the process's memory and MySQL), and from timers.

| Part | Where | State | Operations | Talks to |
|---|---|---|---|---|
| Browser pool | `orch/browser-pool/` | registry of instances, `SlotAllocator.inUse`, `shuttingDown`; detached OS processes | `allocate`, `release`, `touch`, `runGcSweep`, `shutdown`, `reapOrphans` (boot) | dispatch, agent loop (touch), VNC and screencast proxies (touch), `index.ts` |
| Task queue | `orch/queue/task-queue.ts` | FIFO of closures, `inFlight`, `stopped`, a timer | `enqueue`, `tryDispatch` (microtask or 5 s timer), `signalSlotFreed`, `stop` | `canAllocate()` of the pool; `onStart`, `runFn`, `onTimeout` of dispatch |
| Task dispatch | `orch/trpc/routers/tasks.ts` (create, dispatchToBrave, runFn, delete), `orch/index.ts` | row `tasks.status`; closures | create, onStart, allocate, run, finally, watchdog; boot sweep, zombie reaper, shutdown | queue, pool, agent loop, MySQL |
| Supercar agent loop | `orch/agent/supercar/agent-loop.ts` | `handles` (cancelled, resolveReply, …), deadline, park timer | `runSupercarTask`, `supercarReply`, `supercarHandoffToGenerate`, `supercarAbort` | dispatch (onAwaitingUser, outcome), the model API, the executor |
| User controls | `orch/trpc/routers/tasks.ts` (reply, abort, pause, resume), `orch/agent/task-controller.ts` | none of their own: they read and write the row and the handle | the four mutations | agent loop, repository |
| Planned-step tasks | `orch/agent/task-controller.ts`, `task-repository.ts`, `orch/ws/server.ts`, `apps/extension` | plan and cursor: one copy per socket, one in MySQL | step results, retries, confirm gates, pause, resume, rehydration | extension over WebSocket |
| Generate and scrape lanes | `orch/trpc/routers/tasks.ts` (the two forks, the tail of reply), `orch/agent/generate-runner.ts`, `scrape-runner.ts` | the row, and a promise nobody holds | run, park with a question, resume, hand off | model API, Firecrawl, tasks.create |
| Admission | `orch/quota/`, the gates of `tasks.create` | counters in MySQL, the rate limiter's buckets, rows counted | depth, concurrency, rate, bonus-first burn, grants | tasks.create |
| Scheduled tasks | `orch/agent/scheduled-runner.ts`, `routers/scheduled-tasks.ts` | `scheduled_tasks` rows | tick: scan, claim, dispatch, restore; boot sweep; toggle, delete | tasks.create |
| Batch tasks | `orch/agent/batch-executor.ts`, `routers/batch-tasks.ts` | batch and item rows, the `inFlight` map | create, executor loop, item runs, cancel, finalize | tasks.create |
| Webhook idempotency | `orch/api-keys/` | `webhook_idempotency` rows | claim, re-read, takeover, finalize, release, expiry | webhook handler, tasks.create |
| Payments | `orch/trpc/routers/payment.ts`, `orch/http.ts`, `apps/cn-payment` | `payments` rows, plan and expiry, bonus | order, capture, PayPal event, notify, confirm | PayPal, Alipay/WeChat |
| Web workbench | `apps/web-workbench/src/stores/task-store.ts`, `lib/ws.ts`, `components/AppShell.tsx` | the store: list, step cards, question, selection, URL | frames, list and detail answers, create, delete, reply, abort | tRPC, WebSocket |
| Authentication, API keys | `orch/auth/`, `orch/api-keys/api-key-service.ts` | codes, tokens, keys | issue, verify, rotate | MySQL |
| Planners, vision loop, execution, response layer | `orch/agent/planners`, `orch/agent/vision-loop`, `orch/execution`, `orch/response-layer` | none shared | prompting, perception, verification, formatting | agent loop |
| Streaming, files, cookies | `orch/streaming`, `orch/files`, `orch/cookies` | connections | frame and file I/O | clients |
| Extension's drivers, landing page, packages | `apps/extension`, `apps/holaday-landing`, `packages` | UI state | — | orchestrator |

What makes each modelled part correct, and what makes that hard:

- **Pool.** A slot has one owner and comes back exactly once, although five callers
  may release it (the finally, the watchdog, a dying child, the idle sweep, shutdown)
  and a release takes seconds. No process outlives the orchestrator's memory of it,
  although the quartets are detached and survive a crash.
- **Queue.** The pacing counter equals the runs it stands for; nobody overtakes;
  a waiting task is dispatched or told it is late, even behind a pool that never
  frees.
- **Dispatch.** A browser always has a run that will release it; allocation refuses a
  dispatched task only in a window that can be named; every slot and every row
  settles, even when a loop wedges.
- **Loop and controls.** The row and the loop's handle are two records of one park,
  and a reply, an abort, a timer, the watchdog, the retry and the reapers each
  touch one before the other. The run must end, its row must settle, and the
  guarded outcome write must refuse nothing it was not written for.

- **Planned steps.** Every socket keeps its own copy of the task and a result is judged
  against it before an await and used after: the cursor may have moved, a gate may have
  opened, the process may have restarted.
- **Generate lane.** No memory holds such a task, and all its writes but the outcome's
  are by id alone; a question must be answered once, a lost run must still end.
- **Schedules, batches, webhooks.** Each promises "once" over a table with conditional
  writes: ticks that overlap, calls repeated on one item, retries of a request whose
  first attempt died, restarts that take a claim back.
- **Payments.** Providers repeat their notifications and race with the user's capture;
  money taken must be credited once, and nothing without it.
- **Admission.** Each gate is read one or more awaits before the write that would close it.
- **Workbench.** Frames get lost and answers come late; the view must still come to agree
  with the rows, show a step once, and never put one task's detail under another's name.

`PROJECT.json` lists the hazards at their lines, those that no property covers
included, with the reason.

## 2. Modules

| Module | Models | Extends / uses |
|---|---|---|
| `SlotLease` | abstract: a table of slots, each free or with one owner, granted and returned | — |
| `TaskLife` | abstract: a task's row waits, is begun once, and ends | — |
| `ItemLife` | abstract: a batch item is claimed once, gets one task, and ends once | — |
| `BrowserPool` | `browser-pool.ts`, `port-allocator.ts`, `spawn.ts`, `reaper.ts` | refines `SlotLease` |
| `TaskQueue` | `task-queue.ts` | — |
| `TaskDispatch` | the browser lane of `tasks.ts`, boot and shutdown of `index.ts` | extends `BrowserPool`, instantiates `TaskQueue` with the pool's `CanAllocate` as its dispatch predicate; refines `TaskLife` |
| `SupercarTask` | the agent loop's control, reply/abort/pause/resume, retry, watchdog, `persistVisionOutcome`, reapers | — |
| `StepTask` | planned-step tasks: controller, repository, WebSocket server, extension | — |
| `GenerateTask` | the generate and scrape lanes and the intake park | — |
| `Admission` | the gates of `tasks.create`, quota service, rate limiter | — |
| `ScheduledTasks` | scheduled runner and its router | — |
| `BatchTasks` | batch executor and its router | refines `ItemLife` |
| `WebhookTasks` | webhook handler and idempotency service | — |
| `Billing` | orders, captures, notifications, confirm | — |
| `TaskView` | the workbench's task store against the server | — |
| `TaskDispatchProofs` | theorems about the pool and the composition | `TaskDispatch` |
| `EngineProofs` | theorems about what executes a task | `SupercarTask`, `StepTask` |
| `GenerateTaskProofs` | theorems about the lanes without a loop | `GenerateTask` |
| `IntakeProofs` | theorems about the way in | `Admission`, `TaskQueue` |
| `ClientProofs` | theorems about what clients are told | `WebhookTasks`, `TaskView` |
| `ScheduledTasksProofs`, `BatchTasksProofs`, `BillingProofs` | theorems about one module each | that module |
| `MC…` | instances for TLC | |

Two components that share a proof module share nothing else; `Admission`, `StepTask` and `TaskView` name their
general definitions after the component (`AdmissionNext`, `stepVars`, `ViewSpec`) so that they can be extended
together with another one.

Operators named `X_Suffix` next to an operator `X` are mutated forms of it, one for
each property some run checks: with `X_Suffix` in its place the property fails, which
is how we know that the property depends on the code it is about.

### BrowserPool

| Variable | Code |
|---|---|
| `inUse` | `SlotAllocator.inUse` |
| `inst[t]` | the task's instance: `spawning` (inside `spawnInstance`, not in the registry), `ready` and `draining` (registry statuses), `failed` (its spawn threw, SIGTERM sent), `gone` |
| `slot[t]` | the index that fixed its display and ports |
| `idle` | tasks whose `lastActiveAt` is older than the idle cutoff |
| `shuttingDown`, `awaited` | the flag, and the releases `shutdown()` waits for |
| `up`, `procs` | the orchestrator runs; OS processes alive, by task and slot |

`allocate` is split at its awaits into `AllocateRefused | AllocateBegin` and
`SpawnReady | SpawnFailed`; `release` into `Release` and `ReleaseDone`. `Release`
is disabled where the code returns false at once (unknown or draining instance).
`SpawnFailed` gives the slot back right after SIGTERM, as the code does, and the
processes leave later (`TerminatedExit`) or never. A crash forgets memory and keeps
`procs`; `Boot` is `reapOrphans()` followed by a new pool. The allocator's
display and port arithmetic is injective in the index, so the index stands for it.
`reapOrphans` is taken to kill what it finds.

### TaskQueue

`enqueuedAt` never decreases along the queue, so the overdue entries form a prefix
and the model keeps its length (`overdue`) instead of a clock. `wake` counts the
scheduled microtasks; a timer runs only when none is left, as in Node. `fate[t]` is
what became of the task as its caller sees it; `lost` is a run whose `runFn`
rejected before the finally that signals was attached. `slotFree` is
`cfg.canDispatch()`: free in the stand-alone module, the pool's state in
`TaskDispatch`.

### TaskDispatch

`row[t]` is `tasks.status` with `awaiting_user` folded into `executing`, `run[t]` the
position of the dispatched closure (`starting` = onStart's UPDATE; `allocating` =
inside `allocate`; `agent` = the loop; `finishing` = outcome persisted). The same step
that changes the queue starts the run (`Hear`), because `onStart` is called inside
`tryDispatch`. `Finally` starts the release and signals the queue in one turn, without
waiting for the release. `ForgetQueue` is what a process end does to everything kept
in memory. `BootProcess` fails the rows `executing` that are old enough, and only
those: `queued` is not in the status list of the sweep.
The rows refine `TaskLife` with the identity as the mapping: a task is begun only from `queued`, so one that was
told it is late or has failed never runs; a failure written by a reaper may be corrected by the
run it gave up, a result is never taken back, and several rows may be given up in one step (the
queue's timeout, the boot sweep).

### SupercarTask

One run from the start of its loop. `loop` is where it stands: before its handle exists
(`setup`), in an iteration (`turn`), in a park (`parking`, `parked`), reconciling its
answer with the live page (`closing`), returned (`ended`), persisted (`finishing`), and
after the finally (`over`). An exception anywhere in the setup or an iteration ends as
the outcome `threw`, which the catch of `runFn` records as a failure; a handoff is
recorded as whatever the generate runner makes of it, and an exception in the
post-processing of an outcome as a failure in its place (`PersistFails`). Parking takes three steps in the code (the UPDATE in
`onAwaitingUser`, its return, `resolveReply`); the first two commute with everything
else that looks, so the model has `Ask` and `Park`. A reply is three steps
(`ReplyCheck`, `ReplyFlip`, `ReplyDeliver`), pause and resume two (`ControlCheck`,
`ControlWrite`). Time is what the timers order: `late` (the loop's deadline), the
watchdog after it, the reapers after 20 and 35 minutes.
Left out: `tasks.abort` on a row without an installed handle (it answers `ok: false`), the
wording that the retry looks for in a failure's reason (the model retries or not), what
a turn computes, and the resumption of a parked task of the generate lane by `tasks.reply`
(`tasks.ts:4259`), which has no loop and is `GenerateTask`'s.

### StepTask

A task with a plan, executed step by step by an extension. Every socket keeps a copy of
the task (`mem[c]`), MySQL the durable one (`db`), and the boot puts what it recovered
into `bucket`, from where the first client that connects takes it. A step result goes
through `handlers`, each with the state its socket held when it came in (`Received`): an error
that may be healed waits at `heal` for the planner, the ok of a step in the socket's
`healed` (`healedStepIds`) waits at `mark` for `markHealSucceeded`, and `Decide` judges the result against
the state read *before* that await; at `persist` the decision is written and the next step sent.
When the socket closes, the handler runs on for a socket nobody reads (`open`). Calls
(pause, resume, confirm) are `calls` at `load`, `write` or `share`; `work[e]` is what an
extension has under way, and a lost socket does not stop it. `reported`,
`approved` and `blurred` are histories: the steps whose result came in,
those whose own gate was decided, and those whose error was handled while paused.
Reading and emptying the bucket is one synchronous stretch of the code, hence one action.

### GenerateTask

`row` is all the memory such a task has; `runs` are the promises that nobody
holds, each at `scrape`, `call`, `persist` or `announce`. The call has two attempts and up
to two continuations, a failed scrape falls back or fails. `reply[c]` walks through
`tasks.reply` (read, flip to `executing`, spawn the run or the handoff task,
patch the result); pause, resume, confirm and delete read and then write by id alone
(`ControlCheck`, `ControlWrite`). The result column is reduced to what a reply looks for: is there
a question, is there a handoff task. Reapers and the boot sweep see `stale` rows.
`overlapped` remembers that two calls were between read and write at once; the two
safety properties are claimed while they were not, and the findings say what
happens when they were.

### Admission

A call of `tasks.create` passes `DepthGate`, `CapGate`, the rate limiter, `QuotaRow`,
`BurnBonus`, `BurnRegular` and `Insert`, with an await between any two. The model
burns quota the way the code does, conditional statement by statement, with
`AffectedRowsRead == 0`: the service looks `affectedRows` up on the driver's
`[header, fields]` pair and finds `undefined`. `call`, `row`, `quota`, `hits` and `stamp` are the
code's state: a bucket of the rate limiter holds the timestamps of the calls in `hits[u]`, kept in
`stamp`, and forgets those older than its window each time it is asked. What becomes of a row after
its INSERT matters to the cap, which counts rows: it ends (`RowEnds`), or a handler that has read it
(`HandlerReads`: pause, resume, a reply, the queue's start, a park) writes a status by id after an await
(`HandlerWrites`), even when the row has ended meanwhile; `writes` are the handlers in between. `overlapped`, `admitted`
and `revived` (ended rows that were written back) are histories that the cap and the rate properties refer to. `refund()` and `concurrency-tracker.ts` have no caller and no action.

### ScheduledTasks

The clock is a counter. `tick[t]` is a run of the poll: its own `now`, its candidates
(`todo`), the row it works on; a tick does not wait for the one before it, so several are
under way, each at `claim`, `dispatch` or `restore`. `toggle` keeps the status a toggle has
read. `fired` and `swept` count, per due time, the dispatches and the boot
sweeps that re-activated the row; `wedged` are rows a failed write left `running`.

### BatchTasks

`exec` is the point of the executor's loop, `inFlight` its map, `awaited` the calls of its
`Promise.race`, `runs` the `runItem` calls, numbered per item, because a slow claim makes
the loop call `runItem` again on an item it still finds `pending`. `tally` is what
`finalizeBatch` has read so far. `calls` and `tasks` are histories. The
module refines `ItemLife` with the item rows as `status` and the tasks made for each item as `made`.

### WebhookTasks

One user, one key: `row` is a set of no or one record, `req[c]` stands at `claim`, `read`,
`reclaim`, `again`, `dispatch`, `finalize` or `release`. The clock is reduced to what
the service asks: `stale` (older than the claim limit) and `expired` (24 hours).
`current` are the tasks made since the key last expired. A dispatch can throw at a gate of `tasks.create`,
which leaves nothing, or after its INSERT (`DispatchThrows`), which leaves a task. Two histories say what
can be claimed: `lost` are the tasks whose id never reached the table (such a throw, a failed
finalize, a crash), and `stolen` that a claim was taken from a request which was still at work.

### Billing

`provider[o]` is the order's state at PayPal, WeChat Pay or Alipay, an external part
modelled from how the code calls it. `captures` are `captureOrder` calls (`ask`,
`answered`, `load`, `flip`), `hooks` PayPal deliveries between their read and their write,
`notices` and `confirms` the Chinese gateway's path (`insert`, `grant`). Amounts are
cycles and units of bonus, and time is counted in cycles: `user.expiry` are those left, `used` those that
have gone by (`CyclePasses`, which waits for the requests and redeliveries under way: they last
days, not a month). `HookWrite` writes one cycle from now for an add-on, too, as the code does.
`AffectedRowsRead == 0` here, too.

### TaskView

`srv` is what a tab can see of the server, `wire` the frames under way (they vanish with the
socket and are not replayed), `reads` and `calls` the answers not here yet. The store is `shown`,
`steps`, `prompt`, `selected` and `url`; the effects of `AppShell` belong to the actions
that trigger them. A detail answer is dropped when its hydrate token is no longer the newest.
A terminal frame that names a handoff task makes the store select it (`jumps`, `FollowHandoff`), and a reply
the server does not take as an answer leaves the question standing (`CallReplyKeeps`).
`stray` remembers that create or delete moved the selection without a new query. The store's sort of the
cards is stable; `InTickOrder` says where each card ends up (`Earlier` counts the cards before it).

## 3. Runs

Twelve runs, one per module that has behaviour of its own. All pass: where the code does not do what a comment
beside it says (section 4), the property says how far it does.

| Run | Bounds | Distinct states | Shows |
|---|---|---|---|
| `MCBrowserPool` | 3 tasks, 2 slots | 3 408 | `LeftoversOnlyFromFailedSpawns`, `IdleIsReclaimed`, refinement of `SlotLease` |
| `MCTaskQueue` | 4 tasks, 2 in flight, depth 2 | 56 252 | `Pacing`, `Fifo`, `NobodyWaitsForEver` |
| `MCTaskDispatch` | 2 tasks, 1 slot, depth 1, restarts | 22.7 k | `BrowsersBelongToRuns`, `RefusedOnlyWhileDraining`, refinement of `TaskLife`, `SlotIsReturned`, `RowSettles` |
| `MCSupercarTask` | 1 replying client, 3 parks | 38 551 | `FailureIsNeverRefused`, `WokenRowIsNotParked`, `RunEnds`, `RowSettles` |
| `MCStepTask` | an extension and a web client; a plain and a gated step; 1 restart, 2 runs, 1 call, 1 failed write | 1.06 M | `SettledMeansReported`, `GateNeedsItsOwnConfirm` |
| `MCScheduledTasks` | a one-shot and a recurring row, 2 overlapping ticks, 1 restart, 1 toggle, 1 failed write | 368 k | `OneExtraFirePerRestart`, `RunningHasOneOwner`, `DueRowIsServed` |
| `MCBatchTasks` | 3 items, concurrency 2, 1 failed write | 385 k | refinement of `ItemLife`, `ConcurrencyHeld`, `FinalStatusIsTrue`, `BatchSettles` |
| `MCBilling` | an order of each kind at each provider, 2 captures, 1 failed write; cycles without a bound | 279 k | `NeverOverCredited`, `NothingWithoutPayment`, `CapturedPaymentCompletes` |
| `MCWebhookTasks` | 2 callers, 2 bodies, 3 tasks, 1 expiry, 2 failures or crashes | 247 k | `OneTaskPerKey`, `OwnTaskUntilStolen`, `RetriesAreServed` |
| `MCTaskView` | a task with 1 tick and 1 question and the one its handoff creates; 1 list, 1 call, 3 frames, 1 drop or reload | 347 k | `EachTickOnce`, `DetailIsForSelection`, `ViewConverges` |
| `MCAdmission` | 3 calls (symmetric), a metered user with cap 1 and a bypass user with cap 2, 1 handler between read and write | 2.16 M | `CapHeldWithoutOverlap`, `RateHeld` |
| `MCGenerateTask` | 2 clients, 2 replies, 1 control call, 1 restart, 1 failed write | 495 k | `OneAnswerPerPark`, `EndsAsAnnounced`, `TaskSettles` |

Why the bounds are enough. A task uses the pool and the queue once, so what matters
is one more task than the limit under test: three for two slots, four for two in
flight plus two waiting plus rejections as the earlier ones settle. In the composition two
tasks on one slot and one place are one that runs and one that waits, is refused or
interferes; restarts are unbounded there, and its safety is proved for any number of tasks.
Three parks let a reply meant for one park meet a later one. Two plan steps, the second
gated, let a result of the first arrive when the gate of the second is open, and two runs of
a step make a duplicate. Two ticks are the least that overlap, and a restart, a
toggle and a failed write are each needed for one hazard; the clock bound of one gives a due
time, its overdue moment and the next one. Three items over a limit of two are the least
that makes the executor wait and pull again. Two captures and a provider that
repeats race in every order of read and write. Two callers and two bodies make a replay, a
conflict and a race on an orphan. A list and a detail answer under way let each overtake frames; two tasks are the least
between which the user can turn. The second one is the handoff's, which ends without an iteration, a question or an abort
of its own (`Spawned`) and can be listed, opened, left and deleted: what ticks and questions do to the cards
concerns one task at a time, and the proofs of `EachTickOnce` and `DetailIsForSelection` are for any number of both.
One handler that writes late is enough to bring an ended row back on top of a full cap. Three calls over caps of one and two are one more than either.
Two clients and two replies overlap at every await of `tasks.reply`. Every bound is a
constant used in a guard or, for `MaxTime`, the end of the clock.
Deadlock is not checked: all these systems may come to rest (every task done, every
counter used up).

The type invariants are no property of the runs, which keep to what can go wrong; each is
proved (section 5), alone or as a part of the module's inductive invariant.

### Fairness, and why the code justifies it

- *Microtasks run; interval timers fire* (the 5 s queue timer, the 15 s pool sweep, the
  60 s reapers, the scheduler's poll, the hourly clean-up of keys); *the clock advances*
  (`Age`, `DeadlinePasses`, `MinutePasses`).
- *Awaits that the code bounds return*: the CDP wait and connect timeout of a spawn,
  the kill grace of a release, the limit on a model call, the timer of a park; and
  database calls, which succeed or, where a module counts failures, fail.
- *A handler that was entered runs on to its end* (unless the process ends): `Step(c)` of a
  webhook request, `TickStep`, `ExecStep`, `RunStep`, `ReplyStep`, `HookWrite`.
- *shutdown() is followed by process.exit*, and for `ScheduledTasks` and `GenerateTask` pm2
  starts the process again.
- *Providers repeat a notification until it is acknowledged* (`HookRead`, `Notify`).
- *A webhook client that is told to retry does* (`Retry`); the property is about such a one.
- *Frames and answers arrive unless the socket drops*, and the user goes on opening tasks (strong
  fairness of `Select` and `DetailAnswered` in `TaskView`: queries that are superseded again
  and again are answered in the end).

Not assumed: that an agent loop returns (in `TaskDispatch` it may wedge; there the
watchdog and the zombie reaper do the work), that a task of a batch ever ends (the item's
poll gives up), that a caller releases or touches, that a process obeys SIGTERM, that a
user replies, that no one crashes, that a buyer pays. `SupercarTask` does assume a turn ends, since
every call inside it has a timeout; a wedged turn is `TaskDispatch`'s subject.
`NobodyWaitsForEver` and `RowSettles` hold by the timers alone, with every wake-up lost.
`StepTask` and `Admission` state no fairness and claim safety only: nothing in the code
makes a paused plan go on or a refused caller come back.

## 4. Where the code and its comments part

While modelling we met places where the code does something else than a comment beside it
says. `PROJECT.json` quotes each one with its line; the models do what the code does, and the
properties are stated so that they hold of it.

- **lost** (`tasks.ts:1700`): when `allocate` throws, the queue slot is not released, because
  the finally the comment counts on is not attached yet; the row waits for the zombie reaper.
- **boot** (`index.ts:504`): the boot sweep omits `queued`: such a row waits for ever.
- **delete** (`tasks.ts:4849`): the guard omits `queued`, too, and an await separates it from
  the DELETE: the task's run starts after the row has gone.
- **cancel** (`task-repository.ts:379`): a parked run that the user aborts cannot record
  `cancelled`; the 35-minute reaper records a failure.
- **watch** (`tasks.ts:2340`): the watchdog, 10.5 minutes after the start, aborts a takeover
  whose 30-minute window was introduced so that the browser is not taken away.
- **retry** (`tasks.ts:5510`): a run aborted during a model call that then fails is started again.
- **twice** (`tasks.ts:4228`): of two clients that reply at once, the second wakes a later
  park while its row still says `awaiting_user`; from there a failure can be refused by the
  guard, which is why `FailureIsNeverRefused` is claimed for one client.
- **paused error** (`task-repository.ts:673`): an error result that comes in while a planned-step task is
  paused is stored as a completed step (`blurred` in `StepTask`).
- **takeover** (`webhook-idempotency-service.ts:325`): the DELETE that takes over an orphaned
key deletes any placeholder, that of an owner still dispatching included, and a late finalize writes
its task into any placeholder: two callers dispatch, and a caller gets the task of another body
(`OneTaskPerKey` and `OwnTaskUntilStolen` are claimed while no claim is taken from an owner at work).
- **add-on's cycle** (`http.ts:333`): the PayPal webhook extends the plan by a cycle for an add-on, too
(`NeverOverCredited` counts those cycles as bought).
- **affected rows** (`payment.ts:300`, `quota-service.ts:208`): `affectedRows` is read off
  the driver's pair. A capture completes the payment and credits nothing, and the webhook
  then finds it completed; a metered user's first task burns a bonus *and* a regular task.
- **capture by id** (`payment.ts:177`): a capture that is not complete writes by id alone and can
  take a completed payment back.
- **handoff twice** (`tasks.ts:4348`): two replies that overlap both read no handoff task
  and spawn one each.
- **refused but announced** (`tasks.ts:930`): the generate and scrape lanes announce an end whose
  write was refused.
- **dropped draft** (`generate-runner.ts:503`): when a continuation comes back empty twice, the
  draft is not surfaced.
- **URL** (`AppShell.tsx:191`): after a delete the effect on the URL selects the deleted task again.
- **order of pages** (`task-store.ts:673`): `loadMoreTasks` keeps the row it met first, not the last one.

Also seen while modelling: `shutdown()` kills what the registry holds, so
a quartet that is being spawned survives it until the next boot; a child that dies before
the exit listeners are attached is not noticed; the signal of a finished run finds the
slot still draining, so the next task usually waits for the 5 s timer; an abort between
the park's UPDATE and `resolveReply` leaves the loop parked until its timer.

## 5. Proofs

`tlapm` checks every theorem to the last leaf. Assumptions on constants are the modules' named `ASSUME`s:
`MaxInstances`, `Capacity` and `MaxDepth` are positive integers (the configuration schema
demands it); `Tasks` and `Rows` any set, finite or not; `Items`, `Orders` and `Calls` finite sets, the
orders of each kind apart; the concurrency limit of a batch positive; a plan a non-empty sequence of steps, and
the executing clients some of all clients; caps, depths, allowances, the rate and its window natural numbers, like
every bound. `Admission` assumes one metered user, since no two users share a counter, and any number that bypass
the quota. TLC evaluates the assumptions in every run.

Every invariant and every action property that a passing run checks is the statement of a theorem; what
the runs alone show is liveness.

**BrowserPool.** `PoolInv == PoolTypeOK /\ SlotAccounting /\ LeftoversOnlyFromFailedSpawns`
is inductive. None of the three is inductive alone: that a claimed slot is free
follows from the allocator's set only because the set is exactly the slots of
the holders, and that a release leaves no process behind needs the slot to
be the holder's own. `SameHolders` and `UnclaimAccounting` do the accounting once for all
actions that leave the holders alone or remove one; `NextInv` combines one lemma per
group of actions. Theorems: `PoolTypeCorrect`, `SlotsAreExclusive`,
`NoForgottenProcess`. `PoolImplementsLease` is the refinement: with the invariant, each
step either leaves the leases and the free slots alone, grants a free slot that nobody
holds, returns one, or (the process ends) forgets all leases; no slot is lost.

**TaskQueue.** `QueueInv == QueueTypeOK /\ WaitingOnce /\ IsFiniteSet(Outstanding) /\ Pacing`
(finiteness is what makes the cardinality in `Pacing` meaningful when `Tasks` is
infinite). The lemmas about "takes a prefix" say what a step that removes a
prefix of the queue does to the set of waiting tasks; enqueue and
`tryDispatch` are both instances. Theorems: `QueueTypeCorrect`, `PacingIsExact`,
`QueueIsExact`, and the action property `QueueIsFifo`. They hold whatever the
pool predicate answers, so they hold of the queue inside `TaskDispatch` between
two restarts.

**SupercarTask.** Type correctness needs `TypeInv`: what an outcome is recorded as is
a status only because a loop that ended has an outcome. The two safety properties are
proved under `SingleClient` (at most one client replies), which is necessary ("twice" in
section 4). `ParkInv` strengthens them: a row that says
`awaiting_user`, and a reply that passed its check, both belong to a run that is in
that very park or has left it for good (`PastPark`), and a reply that flipped the row finds it
flipped when it delivers. The step that would break it is another client's reply,
open while the first one is delivered; `ReplyPark` uses `SingleClient` there and nowhere
else. Theorems: `TaskTypeCorrect` (any number of clients), `FailuresAreRecorded`,
`RepliesWakeUnparkedRows`.

**TaskDispatch.** `DispatchInv` puts the parts together: the pool's `PoolInv` (its lemmas are cited
for every pool action), the queue's `QueueTypeOK`, `EachWaitsOnce` and `RunsArePaced`, and what ties them: a task
whose closure is under way was dispatched (`RunsAreDispatched`), a browser belongs to a
run that will release it (`BrowsersBelongToRuns`), and the queue is stopped only while the
pool shuts down (`StoppedWithThePool`). `BrowsersBelongToRuns` alone is not inductive: that a run which has
not called `allocate` has no instance must be known beside it. Theorems: `DispatchInvariant`,
`DispatchTypeCorrect`, `NoBrowserWithoutRun`, `SlotsStayExclusive`, and `RefusalsAreRare` (the
action property `RefusedOnlyWhileDraining`).
The composition also implements its parts. `StepsOfThePool` maps each of its steps to a step of the pool or a
stutter, so that `DispatchRefinesPool` (`Spec => PoolSpec`) carries over what is proved of the pool:
`DispatchImplementsLease`, `DispatchForgetsNoProcess`. `StepsOfTheQueue` does the same for the queue, except that the
end of the process (`ForgetQueue`) is no step of it, which is why the queue's invariant is stated again in `QueueOK`;
`DispatchIsFifo` shows that the queue's order survives restarts all the same. `DispatchImplementsLife`
refines `TaskLife` from `RowsFitRuns`: a task that waits, or whose run has not called `allocate`, has a row that
only a delete has touched, and a run at work may have been reaped but not completed; without the
first half a run could begin on a row that has ended, without the second a late failure could take a result back.

**Admission.** `AdmissionInv` has, beside the types, one part for each gate. The cap can only be kept by counting what is
not there yet: `CapReserved` bounds a user's active rows and the calls of his that are past the gate, as
long as no two were there at once. The rate rests on `BucketIsTheWindow`: each admitted call was stamped
once, no later than now, and is in the bucket as long as it is inside the window; then any window that
begins in the past is part of what some earlier admission has counted. A handler's late write adds to a user's active
rows only by reviving one that had ended, which is why `CapIsKept` leaves those rows out. Theorems:
`AdmissionInvariant`, `CapIsKept`, `RateIsKept`.

**StepTask.** Copies of one task are in the sockets, the bucket, the rows, the results and the calls under way.
`StepInv` says that none of them is ahead of the reports: its cursor has passed only steps whose result
came in (`CopiesCovered`, `HandlersOK`, `CallsOK`), what is about to be written is what `OnStepResult` or the
call decided on the state it had read, and a row that waits for the user stands on a reported step
(`WaitsOnReported`), so that what a later call recovers from the rows is covered, too.
A handler that waits may hold any cursor; only one that has decided stands on its own step (`ResultFits`).
Theorems: `StepTaskInvariant`, `SettledStepsWereReported`, `GatesAreConfirmed`, for any plan and any number
of clients.

**GenerateTask.** While no call has overtaken another (`CalmOK`), one run at most is at work, none while the row is parked
or a reply is under way, and a park whose answer is still owed has not been counted as answered. `EndsOK` adds what holds when no
write fails: an end that is about to be announced, or was, is in the row, and nothing is left that
could change it but a delete (`Rests`). The case that needs both is a run that announces while a
handoff is being patched. Theorems: `GenerateInvariant`, `AnswersAreOwed`, `AnnouncedEndsHold`.


**ScheduledTasks.** `SchedInv`: a tick past its claim holds exactly one row (`TicksHoldOneRow`),
a toggle has only read settled statuses (`TogglesReadSettled`), a process that is down has no
ticks (`DownMeansIdle`), sweeps are at most the boots (`SweepsAreBoots`), a `running` row
has one owner (`RunningHasOneOwner`), a row that a tick holds was due and, until the tick dispatches it, has not
been fired since its last sweep (`ClaimsAreDue`), and neither has a paused row (`WaitingIsUnfired`), which
together make `OneExtraFirePerRestart` inductive. Theorems: `SchedInvariant`, `SchedTypeCorrect`, `RunningIsOwned`,
`FiresOnceOrSwept`, for any number of rows, ticks and restarts.

**BatchTasks.** `BatchInv`: a call is known by its item and number (`RunsOK`); of the calls for one
item at most one is past its claim, and no task precedes it (`OwnerOK`: the conditional UPDATE); the map
stays within the limit (`MapOK`); and as long as no write failed and no item was called twice, the map knows every
call and every running item has one (`QuietOK`). Theorems: `BatchInvariant`, `BatchTypeCorrect`,
`ItemsRunOnce`, `LimitIsKept`. `FinalInv` follows the executor to its end: past its loop no item is
pending (`LeftOK`), undisturbed it has waited for every call, so the rows do not change between the count of
`finalizeBatch` and its write (`CountOK`): `FinalStatusIsKept`. `OwnersRun`, that a call past its claim works on a running item, together with
the single owner of `OwnerOK` gives the refinement of `ItemLife`, `BatchImplementsItemLife`.

**Billing.** `BillingInv` counts: the cycles a user has had and has left are at most the Chinese subscriptions that
landed and the PayPal orders, subscriptions and add-ons, that were captured (`CreditOK`, which also says what a confirm
that has read the expiry and a webhook about to write may still add), the bonus at most the packs
that landed and were served (`BonusOK`): a landed pack has one request at most that is going to apply it, so no payment
counts twice whatever the providers repeat. `PaidOK` says that every request under way is about a paid order;
`UserOK`, `OrdersOK` and `CallsOK` are the types. Theorems:
`BillingInvariant`, `BillingTypeCorrect`, `CreditsArePaid`, `NothingUnpaid`.

**WebhookTasks.** `WebhookInv` is `Types` and, as long as no claim was taken from a request at work, `KeyInv`:
the key is in the table at most once and a final row names a task of its own body
(`RowIsTrue`), at most one request is past the INSERT and the row is its claim (`OneOwner`), every current task
that did not get lost is in a row that has not expired or its request is about to put it there (`CurrentIsKept`), and
answers name tasks of the asker's body (`AnswersAreTrue`). The takeover of an orphan keeps all of it: an orphaned claim has no
request at work. The condition is needed: without it a robbed owner's late finalize
breaks `AnswersAreTrue` (section 4). Theorems: `WebhookInvariant`, `KeyMakesOneTask`, `AnswersAreOwn`, for any number of callers.

**TaskView.** `ViewInv` has the types of what is under way (`UnderWay`) and on screen (`OnScreen`), at most one detail
answer that will be applied (`OneDetail`: the hydrate token), and the two properties. `EachTickOnce` needs to know
what the sort does to the cards: `PlacesDiffer` and `PlacesAreTaken` show that the ranks are a bijection (a pigeonhole
argument), `SortedCards` that no card is lost or doubled, `HydratedCards` that merging the store's
cards with those of an answer leaves one card per tick. Theorems: `ViewInvariant`, `ViewTypeCorrect`,
`TicksAreShownOnce`, `AnswersAreForSelection`, for any number of tasks, ticks, questions, queries and drops.

**Model-checked only**: the twelve liveness properties. Liveness under fairness and ENABLED are out of
the prover's reach. No safety property is left to TLC alone, and no module uses recursive operators.

## 6. What is not modelled, and why

- *No shared state that interleaves*: planners and vision loop, the execution pipeline and the response layer
  (what they compute is data that the properties do not tell apart), authentication and API keys
  (each check one read or one conditional write on one row), cookies and files.
- *Transport*: VNC and screencast proxies; their one effect on the modelled state, `touch()`,
  is an action of `BrowserPool`. Heartbeats and token checks of the WebSocket server.
- *Presentation*: rendering components of the workbench and their side features (projects,
  stars, renames), the extension's page drivers and popup, the landing page.
- *Schema and migrations*: the rows the modules use are variables of those modules.
- *Failing writes in `TaskDispatch` and `SupercarTask`*: the code swallows some (`onStart`), and they are
  listed as hazards. The other modules do count failing writes.
- *The port guard* of `dispatchToBrave` (9300–9309), a matter of configuration.
- *Refunds and the end of subscriptions*: `refund()` has no caller, and a lapsed plan is only read.
- *Contents*: prompts, plans, tool results, answers, frames, amounts.

The share of the code these modules stand for stays small for that reason: most of the repository's lines are
prompts, heuristics, rendering and page drivers.

## 7. Plan

Done: the pool, the queue, the browser lane and their composition; the agent loop and its controls; planned-step
tasks; the generate and scrape lanes; admission; schedules; batches; webhooks; payments; the workbench's
store. Proofs about all of them: each safety property, and the composition against the pool's specification.

Left, in this order:

1. The composition of parks with the pool's idleness: a parked takeover against the idle sweep.
2. Failing and swallowed writes in `TaskDispatch` and `SupercarTask`.
3. An abstract specification of a keyed request, and `WebhookTasks` shown to implement it until a claim is stolen.
4. Connections of the streaming proxies and their touches; e-mail codes and token rotation.
