---------------------------- MODULE EngineProofs ----------------------------
(***************************************************************************)
(* Proofs about what executes a task, the agent loop of SupercarTask and   *)
(* the planned steps of StepTask.                                          *)
(***************************************************************************)
EXTENDS StepTask, SupercarTask, WellFoundedInduction, TLAPS

-----------------------------------------------------------------------------
(* SupercarTask: what the park of a browser task guarantees when at most   *)
(* one client replies to it, for any bound on the number of parks.  Its    *)
(* loop is never woken under a parked row, and no failure meets the guard  *)
(* of the outcome write; a second client may break both.                   *)

SingleClient == \A r, s \in Replies : r = s

(* The run is in a park, or left one without going back to work.           *)
PastPark ==
  \/ loop \in {"parked", "closing", "finishing", "over"}
  \/ loop = "ended" /\ outcome \in {"completed", "cancelled"}

(* What an outcome is recorded as is a status only because a loop that     *)
(* ended has an outcome.                                                   *)
TypeInv == TypeOK /\ (loop = "ended" => outcome # "none")

RowIsParkedWithItsLoop == row = "awaiting_user" => PastPark

(* A reply that passed the check stays with the park it was checked        *)
(* against: this is where a second client would interfere.                 *)
RepliesBelongToThePark == \A r \in Replies : reply[r] # "idle" => PastPark

FlippedBeforeDelivery ==
  \A r \in Replies :
    reply[r] = "deliver" /\ loop = "parked" => row # "awaiting_user"

ParkInv ==
  /\ RowIsParkedWithItsLoop
  /\ RepliesBelongToThePark
  /\ FlippedBeforeDelivery
-----------------------------------------------------------------------------
(* Types.                                                                  *)
LEMMA InitTypes == Init => TypeInv
<1> SUFFICES ASSUME Init PROVE TypeInv
  OBVIOUS
<1>1. parks \in 0 .. MaxParks /\ attempt \in 1 .. 2
  BY MaxParksAssumption DEF Init
<1>2. reply \in [Replies -> {"idle", "flip", "deliver"}]
  BY DEF Init
<1> QED BY <1>1, <1>2
  DEF Init, TypeInv, TypeOK, RowStates, Terminal, Phases, Kinds

LEMMA StepTypes == TypeInv /\ [Next]_vars => TypeInv'
<1> SUFFICES ASSUME TypeInv, [Next]_vars PROVE TypeInv'
  OBVIOUS
<1> USE DEF TypeInv, TypeOK, RowStates, Terminal, Phases, Outcomes, Kinds
<1>1. CASE Install BY <1>1 DEF Install
<1>2. CASE SetupFails BY <1>2 DEF SetupFails, Return
<1>3. CASE ApiFails BY <1>3 DEF ApiFails, Return
<1>4. CASE Answer BY <1>4 DEF Answer
<1>5. CASE Close BY <1>5 DEF Close, Return
<1>6. CASE Delegate BY <1>6 DEF Delegate, Return
<1>7. CASE Throw BY <1>7 DEF Throw, Return
<1>8. CASE LoopExits BY <1>8 DEF LoopExits, Return
<1>9. CASE Ask
  <2>1. parks' \in 0 .. MaxParks
    BY <1>9, MaxParksAssumption DEF Ask
  <2> QED BY <1>9, <2>1 DEF Ask
<1>10. CASE Park BY <1>10 DEF Park
<1>11. CASE ParkTimeout BY <1>11 DEF ParkTimeout, Return
<1>12. CASE DeadlinePasses BY <1>12 DEF DeadlinePasses, HasHandle
<1>13. CASE Retry
  <2>1. attempt' \in 1 .. 2
    BY <1>13 DEF Retry
  <2> QED BY <1>13, <2>1 DEF Retry
<1>14. CASE Persist
  <2>1. row' \in RowStates
    BY <1>14 DEF Persist, PersistVision, Recorded
  <2> QED BY <1>14, <2>1 DEF Persist
<1>15. CASE PersistFails BY <1>15 DEF PersistFails, PersistVision
<1>16. CASE PersistHandoff BY <1>16 DEF PersistHandoff, PersistVision
<1>17. CASE Finally BY <1>17 DEF Finally
<1>18. CASE Abort BY <1>18 DEF Abort, SupercarAbort, HasHandle, Return
<1>19. CASE Watchdog
  <2>1. cancelled' \in BOOLEAN
    BY <1>19 DEF Watchdog, SupercarAbort
  <2>2. /\ loop' \in Phases /\ outcome' \in Outcomes \cup {"none"}
        /\ loop' = "ended" => outcome' # "none"
    BY <1>19 DEF Watchdog, SupercarAbort, Return
  <2> QED BY <1>19, <2>1, <2>2 DEF Watchdog
<1>20. CASE ControlCheck BY <1>20 DEF ControlCheck
<1>21. CASE ControlWrite BY <1>21 DEF ControlWrite
<1>22. CASE ZombieReaper BY <1>22 DEF ZombieReaper
<1>23. CASE ParkReaper BY <1>23 DEF ParkReaper
<1>24. CASE \E r \in Replies : ReplyCheck(r) \/ ReplyFlip(r) \/ ReplyDeliver(r)
  BY <1>24 DEF ReplyCheck, ReplyFlip, ReplyDeliver, Wake, Return
<1>25. CASE UNCHANGED vars BY <1>25 DEF vars
<1> QED BY <1>1, <1>2, <1>3, <1>4, <1>5, <1>6, <1>7, <1>8, <1>9, <1>10,
           <1>11, <1>12, <1>13, <1>14, <1>15, <1>16, <1>17, <1>18, <1>19,
           <1>20, <1>21, <1>22, <1>23, <1>24, <1>25 DEF Next

-----------------------------------------------------------------------------
(* The park.                                                               *)
LEMMA InitPark == Init => ParkInv
  BY DEF Init, ParkInv, PastPark, RowIsParkedWithItsLoop,
         RepliesBelongToThePark, FlippedBeforeDelivery

(* The steps of the loop itself.                                           *)
LEMMA LoopPark ==
  ASSUME TypeOK, ParkInv,
         \/ Install \/ SetupFails \/ ApiFails \/ Answer \/ Close \/ Delegate
         \/ Throw \/ LoopExits \/ Ask \/ Park \/ ParkTimeout
         \/ DeadlinePasses \/ Retry
  PROVE  ParkInv'
<1> USE DEF ParkInv, PastPark, RowIsParkedWithItsLoop, RepliesBelongToThePark,
            FlippedBeforeDelivery
<1>1. CASE Install BY <1>1 DEF Install
<1>2. CASE SetupFails BY <1>2 DEF SetupFails, Return
<1>3. CASE ApiFails BY <1>3 DEF ApiFails, Return
<1>4. CASE Answer BY <1>4 DEF Answer
<1>5. CASE Close BY <1>5 DEF Close, Return
<1>6. CASE Delegate BY <1>6 DEF Delegate, Return
<1>7. CASE Throw BY <1>7 DEF Throw, Return
<1>8. CASE LoopExits BY <1>8 DEF LoopExits, Return
<1>9. CASE Ask BY <1>9 DEF Ask
<1>10. CASE Park BY <1>10 DEF Park
<1>11. CASE ParkTimeout BY <1>11 DEF ParkTimeout, Return
<1>12. CASE DeadlinePasses BY <1>12 DEF DeadlinePasses, HasHandle
<1>13. CASE Retry BY <1>13 DEF Retry, Flaky
<1> QED BY <1>1, <1>2, <1>3, <1>4, <1>5, <1>6, <1>7, <1>8, <1>9, <1>10,
           <1>11, <1>12, <1>13

(* The writes of the outcome and the end of the run.                       *)
LEMMA PersistPark ==
  ASSUME TypeOK, ParkInv,
         Persist \/ PersistFails \/ PersistHandoff \/ Finally
  PROVE  ParkInv'
<1> USE DEF ParkInv, PastPark, RowIsParkedWithItsLoop, RepliesBelongToThePark,
            FlippedBeforeDelivery
<1>1. CASE Persist BY <1>1 DEF Persist, PersistVision, Recorded
<1>2. CASE PersistFails BY <1>2 DEF PersistFails, PersistVision
<1>3. CASE PersistHandoff BY <1>3 DEF PersistHandoff, PersistVision
<1>4. CASE Finally BY <1>4 DEF Finally
<1> QED BY <1>1, <1>2, <1>3, <1>4

(* The steps of a reply.  With a single client nobody else has one open    *)
(* when it is delivered, so the loop may leave the park.                   *)
LEMMA ReplyPark ==
  ASSUME SingleClient, TypeOK, ParkInv, NEW r \in Replies,
         ReplyCheck(r) \/ ReplyFlip(r) \/ ReplyDeliver(r)
  PROVE  ParkInv'
<1> USE DEF ParkInv, PastPark, RowIsParkedWithItsLoop, RepliesBelongToThePark,
            FlippedBeforeDelivery
<1>0. reply \in [Replies -> {"idle", "flip", "deliver"}]
  BY DEF TypeOK
<1>1. CASE ReplyCheck(r) BY <1>0, <1>1 DEF ReplyCheck
<1>2. CASE ReplyFlip(r) BY <1>0, <1>2 DEF ReplyFlip
<1>3. CASE ReplyDeliver(r)
  <2>1. \A s \in Replies : reply'[s] = "idle"
    BY <1>0, <1>3 DEF ReplyDeliver, SingleClient
  <2>2. row' = row /\ (loop = "parked" => row # "awaiting_user")
    BY <1>3 DEF ReplyDeliver
  <2>3. loop # "parked" => loop' = loop /\ outcome' = outcome
    BY <1>3 DEF ReplyDeliver
  <2> QED BY <2>1, <2>2, <2>3
<1> QED BY <1>1, <1>2, <1>3

(* Aborts, pauses, resumes, the watchdog and the reapers.                  *)
LEMMA OthersPark ==
  ASSUME TypeOK, ParkInv,
         \/ Abort \/ Watchdog \/ ControlCheck \/ ControlWrite
         \/ ZombieReaper \/ ParkReaper
  PROVE  ParkInv'
<1> USE DEF ParkInv, PastPark, RowIsParkedWithItsLoop, RepliesBelongToThePark,
            FlippedBeforeDelivery
<1>1. CASE Abort BY <1>1 DEF Abort, SupercarAbort, HasHandle, Return
<1>2. CASE Watchdog BY <1>2 DEF Watchdog, SupercarAbort, HasHandle, Return
<1>3. CASE ControlCheck BY <1>3 DEF ControlCheck
<1>4. CASE ControlWrite BY <1>4 DEF ControlWrite
<1>5. CASE ZombieReaper BY <1>5 DEF ZombieReaper
<1>6. CASE ParkReaper BY <1>6 DEF ParkReaper
<1> QED BY <1>1, <1>2, <1>3, <1>4, <1>5, <1>6

LEMMA StepPark == SingleClient /\ TypeOK /\ ParkInv /\ [Next]_vars => ParkInv'
<1> SUFFICES ASSUME SingleClient, TypeOK, ParkInv, [Next]_vars PROVE ParkInv'
  OBVIOUS
<1>1. CASE UNCHANGED vars
  BY <1>1 DEF vars, ParkInv, PastPark, RowIsParkedWithItsLoop,
              RepliesBelongToThePark, FlippedBeforeDelivery
<1>2. CASE Next
  BY <1>2, LoopPark, PersistPark, ReplyPark, OthersPark DEF Next
<1> QED BY <1>1, <1>2

-----------------------------------------------------------------------------
(* Type correctness of the row, the loop, its timers and its callers, for  *)
(* any number of clients and parks.                                        *)
THEOREM TaskTypeCorrect == Spec => []TypeOK
<1>1. TypeInv => TypeOK
  BY DEF TypeInv
<1> QED BY InitTypes, StepTypes, <1>1, PTL DEF Spec

(* The invariant of the park, with a single replying client.               *)
LEMMA ParkInvariant == ASSUME SingleClient PROVE Spec => []ParkInv
<1>1. TypeOK /\ ParkInv /\ [Next]_vars => ParkInv'
  BY StepPark
<1> QED BY TaskTypeCorrect, InitPark, <1>1, PTL DEF Spec

(* The guard of persistVisionOutcome (task-repository.ts:379) refuses only *)
(* the outcomes of timed-out and aborted parks.                            *)
THEOREM FailuresAreRecorded ==
  ASSUME SingleClient PROVE Spec => []FailureIsNeverRefused
<1>1. ParkInv => FailureIsNeverRefused
  BY DEF ParkInv, RowIsParkedWithItsLoop, PastPark, FailureIsNeverRefused
<1> QED BY ParkInvariant, <1>1, PTL

(* tasks.reply moves the row out of awaiting_user before it wakes the loop *)
(* (tasks.ts:4210), whatever comes between its steps.                      *)
THEOREM RepliesWakeUnparkedRows ==
  ASSUME SingleClient PROVE Spec => WokenRowIsNotParked
<1>1. ParkInv /\ [Next]_vars =>
        [loop = "parked" /\ loop' = "turn" => row # "awaiting_user"]_vars
  <2> SUFFICES ASSUME ParkInv, [Next]_vars, loop = "parked", loop' = "turn"
               PROVE  row # "awaiting_user"
    OBVIOUS
  <2>1. PICK r \in Replies : ReplyDeliver(r)
    BY DEF vars, Next, Install, SetupFails, ApiFails, Answer, Close, Delegate,
           Throw, LoopExits, Ask, Park, ParkTimeout, DeadlinePasses, Retry,
           Persist, PersistFails, PersistHandoff, Finally, ReplyCheck,
           ReplyFlip, Abort, Watchdog, SupercarAbort, HasHandle, Return,
           ControlCheck, ControlWrite, ZombieReaper, ParkReaper
  <2> QED BY <2>1 DEF ReplyDeliver, ParkInv, FlippedBeforeDelivery
<1> QED BY ParkInvariant, <1>1, PTL DEF Spec, WokenRowIsNotParked

-----------------------------------------------------------------------------
(* StepTask, for every plan, set of clients and bound: every state of the  *)
(* task, in a copy, a result, a call or the rows, is behind the reports.   *)

Closed  == {"completed", "failed"}
Settled == {"completed", "failed", "awaiting_user", "skipped"}

(* No state of the task, wherever it is held, is past a step whose result  *)
(* the server has not received.                                            *)
Covered(s) == \A i \in Steps : i < s.cursor => i \in reported

CopiesCovered ==
  /\ \A c \in Clients : mem[c] # NoTask => Covered(mem[c])
  /\ bucket # NoTask => Covered(bucket)

(* A result under way was received; once decided, it is for the step its   *)
(* state stands on, and is decided as OnStepResult says.                   *)
ResultFits(h) ==
  /\ h.step \in reported /\ Covered(h.prev)
  /\ h.at = "persist" =>
       /\ h.prev.cursor = h.step /\ h.next = OnStepResult(h.prev, h.result)
       /\ h.result = "error" /\ h.prev.status # "executing" => h.step \in blurred

(* A call under way decided on a state read from the rows; a confirm on    *)
(* one that waits, on a step that was reported.                            *)
CallFits(k) ==
  /\ Covered(k.prev) /\ k.next = Decided(k.op, k.prev, k.decision)
  /\ (k.op = "confirm") <=> (k.decision # "none")
  /\ k.op = "confirm" =>
       /\ k.prev.status = "awaiting_user"
       /\ k.prev.pending # "none" => k.prev.cursor \in Steps
       /\ \A i \in Steps : i <= k.prev.cursor => i \in reported

HandlersOK == \A h \in handlers : ResultFits(h)
CallsOK    == \A k \in calls : CallFits(k)

(* A row that waits for the user stands on a step that was reported: what  *)
(* a later call recovers from it is no further.                            *)
FirstOpen(d, i) == \A j \in Steps : j < i => d.rows[j] \in Closed

WaitsOnReported ==
  db.status = "awaiting_user" =>
    \A i \in Steps : FirstOpen(db, i) => i \in reported

StepInv ==
  /\ StepTypeOK
  /\ CopiesCovered /\ HandlersOK /\ CallsOK
  /\ WaitsOnReported
  /\ SettledMeansReported /\ GateNeedsItsOwnConfirm

-----------------------------------------------------------------------------
(* Types of the states and of the rows.                                    *)

DbType ==
  [exists: BOOLEAN, status: TaskStatuses, pause: Reasons,
   rows: [Steps -> RowStatuses], retry: [Steps -> 0 .. MaxStepRetries],
   pend: [Steps -> Pending]]

HandlerType ==
  [at: {"heal", "mark", "persist"}, client: Extensions, open: BOOLEAN,
   step: Steps, result: Results, prev: TaskState, next: TaskState]

CallType ==
  [at: {"loaded", "written"}, op: {"pause", "resume", "confirm"},
   decision: {"none", "approve", "skip", "reject"},
   prev: TaskState, next: TaskState]

LEMMA StepTaskTypes ==
  StepTypeOK <=> /\ up \in BOOLEAN /\ boots \in 0 .. MaxBoots
                 /\ db \in DbType
                 /\ mem \in [Clients -> TaskState \cup {NoTask}]
                 /\ conn \subseteq Clients
                 /\ bucket \in TaskState \cup {NoTask}
                 /\ work \in [Extensions -> [Steps -> 0 .. MaxRuns]]
                 /\ handlers \subseteq HandlerType /\ calls \subseteq CallType
                 /\ failures \in Nat /\ healed \in [Extensions -> SUBSET Steps]
                 /\ approved \subseteq Steps /\ reported \subseteq Steps
                 /\ blurred \subseteq Steps
BY DEF StepTypeOK, DbType, HandlerType, CallType

LEMMA Plan ==
  /\ Len(Gates) \in Nat \ {0} /\ 1 \in Steps
  /\ Steps = 1 .. Len(Gates) /\ Extensions \subseteq Clients
  /\ \A i \in Steps : Gates[i] \in BOOLEAN
  /\ MaxBoots \in Nat /\ MaxRuns \in Nat
BY StepTaskAssumption DEF Steps

LEMMA NoTaskIsNoState == NoTask \notin TaskState
BY DEF NoTask, TaskState, TaskStatuses

(* What a state becomes, as far as the proofs look at it.                  *)
LEMMA AdvanceState ==
  ASSUME NEW s \in TaskState, s.cursor \in Steps
  PROVE  /\ Advance(s) \in TaskState /\ Advance(s).cursor = s.cursor + 1
         /\ Advance(s).status \in {"executing", "completed"}
         /\ Advance(s).status = "executing" => ~Past(Advance(s))
         /\ Advance(s).retry = s.retry
<1> DEFINE moved == [s EXCEPT !.cursor = s.cursor + 1, !.pending = "none"]
<1>1. s.cursor + 1 \in 1 .. Len(Gates) + 1
  BY Plan
<1>2. moved \in TaskState /\ moved.cursor = s.cursor + 1 /\ moved.retry = s.retry
  BY <1>1 DEF TaskState, Pending
<1> HIDE DEF moved
<1>3. ASSUME NEW status \in {"executing", "completed"}
      PROVE  /\ [moved EXCEPT !.status = status] \in TaskState
             /\ [moved EXCEPT !.status = status].status = status
             /\ [moved EXCEPT !.status = status].cursor = moved.cursor
             /\ [moved EXCEPT !.status = status].retry = moved.retry
  BY <1>2 DEF TaskState, TaskStatuses
<1>4. Advance(s) = [moved EXCEPT !.status = IF Past(moved) THEN "completed"
                                            ELSE "executing"]
  BY DEF Advance, moved
<1>5. CASE Past(moved)
  BY <1>2, <1>3, <1>4, <1>5
<1>6. CASE ~Past(moved)
  BY <1>2, <1>3, <1>4, <1>6 DEF Past
<1> QED BY <1>5, <1>6

LEMMA RetryState ==
  ASSUME NEW s \in TaskState, s.cursor \in Steps, Retryable(s)
  PROVE  LET next == [s EXCEPT !.retry[s.cursor] = @ + 1]
         IN  /\ next \in TaskState /\ next.status = s.status /\ next.cursor = s.cursor
             /\ next.pause = s.pause
             /\ next.retry[s.cursor] > s.retry[s.cursor]
<1> DEFINE retry == [s.retry EXCEPT ![s.cursor] = s.retry[s.cursor] + 1]
           next == [s EXCEPT !.retry = retry]
<1>1. s.retry \in [Steps -> 0 .. MaxStepRetries]
  BY DEF TaskState
<1>2. s.retry[s.cursor] + 1 \in 0 .. MaxStepRetries
  BY <1>1 DEF Retryable, MaxStepRetries
<1>3. /\ retry \in [Steps -> 0 .. MaxStepRetries]
      /\ retry[s.cursor] > s.retry[s.cursor]
  BY <1>1, <1>2 DEF MaxStepRetries
<1> HIDE DEF retry
<1>4. /\ next \in TaskState /\ next.status = s.status /\ next.cursor = s.cursor
      /\ next.pause = s.pause /\ next.retry = retry
  BY <1>3 DEF TaskState
<1>5. [s EXCEPT !.retry[s.cursor] = @ + 1] = next
  BY DEF retry
<1> HIDE DEF next
<1> QED BY <1>3, <1>4, <1>5

LEMMA ResultState ==
  ASSUME NEW s \in TaskState, s.cursor \in Steps, NEW result \in Results
  PROVE  LET next == OnStepResult(s, result)
         IN  /\ next \in TaskState
             /\ result = "error" /\ Retryable(s) =>
                  /\ next.status = s.status /\ next.pause = s.pause
                  /\ next.cursor = s.cursor
                  /\ next.retry[s.cursor] > s.retry[s.cursor]
             /\ result = "error" /\ ~Retryable(s) =>
                  /\ next.status = "paused" /\ next.pause = "retries_exhausted"
                  /\ next.cursor = s.cursor
             /\ result # "error" /\ OpensGate(s, result) =>
                  next.status = "awaiting_user" /\ next.cursor = s.cursor
             /\ result # "error" /\ ~OpensGate(s, result) =>
                  next = Advance(s) /\ next.cursor = s.cursor + 1
             /\ Redispatches(s, result) => next.cursor \in Steps
<1> DEFINE next == OnStepResult(s, result)
<1>1. CASE result = "error" /\ Retryable(s)
  <2>1. next = [s EXCEPT !.retry[s.cursor] = @ + 1]
    BY <1>1 DEF OnStepResult
  <2> HIDE DEF next
  <2>2. /\ next \in TaskState /\ next.status = s.status /\ next.cursor = s.cursor
        /\ next.pause = s.pause /\ next.retry[s.cursor] > s.retry[s.cursor]
    BY <1>1, <2>1, RetryState
  <2> QED BY <1>1, <2>2 DEF next
<1>2. CASE result = "error" /\ ~Retryable(s)
  <2>1. next = [s EXCEPT !.status = "paused", !.pause = "retries_exhausted"]
    BY <1>2 DEF OnStepResult
  <2> HIDE DEF next
  <2>2. /\ next \in TaskState /\ next.status = "paused" /\ next.cursor = s.cursor
        /\ next.pause = "retries_exhausted"
    <3>1. "paused" \in TaskStatuses /\ "retries_exhausted" \in Reasons
      BY DEF TaskStatuses, Reasons
    <3> QED BY <2>1, <3>1 DEF TaskState
  <2> QED BY <1>2, <2>2 DEF next
<1>3. CASE result # "error" /\ OpensGate(s, result)
  <2> DEFINE pending == IF result = "batch" THEN "batch" ELSE "single"
  <2>1. next = [s EXCEPT !.status = "awaiting_user", !.pending = pending]
    BY <1>3 DEF OnStepResult
  <2>2. pending \in Pending /\ "awaiting_user" \in TaskStatuses /\ "none" \in Reasons
    BY DEF Pending, TaskStatuses, Reasons
  <2> HIDE DEF next, pending
  <2>3. next \in TaskState /\ next.status = "awaiting_user" /\ next.cursor = s.cursor
    BY <2>1, <2>2 DEF TaskState
  <2> QED BY <1>3, <2>3 DEF next
<1>4. CASE result # "error" /\ ~OpensGate(s, result)
  <2>1. next = Advance(s)
    BY <1>4 DEF OnStepResult
  <2>2. next \in TaskState /\ next.cursor = s.cursor + 1
    BY <2>1, AdvanceState
  <2> HIDE DEF next
  <2>3. ~Past(next) => next.cursor \in Steps
    BY <2>2, Plan DEF Past, TaskState
  <2>4. Redispatches(s, result) => next.cursor \in Steps
    BY <1>4, <2>3 DEF Redispatches, next
  <2> QED BY <1>4, <2>1, <2>2, <2>4 DEF next
<1> QED BY <1>1, <1>2, <1>3, <1>4

(* What a confirm makes of a state that waits on a step of the plan.       *)
LEMMA ConfirmState ==
  ASSUME NEW s \in TaskState, NEW decision \in {"approve", "skip", "reject"},
         s.cursor \in Steps, s.pending # "none"
  PROVE  LET next == UserConfirm(s, decision)
         IN  /\ next \in TaskState /\ next.status # "awaiting_user"
             /\ next.cursor \in {s.cursor, s.cursor + 1}
             /\ decision = "reject" <=> next.status = "cancelled"
             /\ decision = "skip" \/ (decision = "approve" /\ s.pending # "batch") =>
                  next = Advance(s)
<1> DEFINE next == UserConfirm(s, decision)
<1>0. /\ \A x \in {"cancelled", "completed", "executing"} : x \in TaskStatuses
      /\ "none" \in Pending /\ "none" \in Reasons
  BY DEF TaskStatuses, Pending, Reasons
<1>1. CASE decision = "reject"
  <2>1. next = [s EXCEPT !.status = "cancelled", !.pending = "none"]
    BY <1>1 DEF UserConfirm
  <2> HIDE DEF next
  <2>2. next \in TaskState /\ next.status = "cancelled" /\ next.cursor = s.cursor
    BY <1>0, <2>1 DEF TaskState
  <2> QED BY <1>1, <2>2 DEF next
<1>2. CASE decision = "approve" /\ s.pending = "batch"
  <2> DEFINE to == IF Past(s) THEN "completed" ELSE "executing"
  <2>1. next = [s EXCEPT !.status = to, !.pending = "none"] /\ to \in TaskStatuses
    BY <1>0, <1>2 DEF UserConfirm
  <2>2. to # "awaiting_user" /\ to # "cancelled"
    OBVIOUS
  <2> HIDE DEF next, to
  <2>3. next \in TaskState /\ next.status = to /\ next.cursor = s.cursor
    BY <1>0, <2>1 DEF TaskState
  <2> QED BY <1>2, <2>2, <2>3 DEF next
<1>3. CASE decision = "skip" \/ (decision = "approve" /\ s.pending # "batch")
  <2>1. next = Advance(s)
    BY <1>3 DEF UserConfirm
  <2> QED BY <1>3, <2>1, AdvanceState
<1> QED BY <1>1, <1>2, <1>3

LEMMA PauseState ==
  ASSUME NEW s \in TaskState
  PROVE  /\ Pause(s) \in TaskState /\ Pause(s).status = "paused"
         /\ Pause(s).cursor = s.cursor
         /\ Resume(s) \in TaskState /\ Resume(s).status \in {"executing", "completed"}
         /\ Resume(s).cursor = s.cursor
<1>0. /\ \A x \in {"paused", "completed", "executing"} : x \in TaskStatuses
      /\ "none" \in Pending /\ "none" \in Reasons /\ "user" \in Reasons
  BY DEF TaskStatuses, Pending, Reasons
<1>1. /\ Pause(s) \in TaskState /\ Pause(s).status = "paused"
      /\ Pause(s).cursor = s.cursor
  BY <1>0 DEF Pause, TaskState
<1> DEFINE to == IF Past(s) THEN "completed" ELSE "executing"
<1>2. Resume(s) = [s EXCEPT !.status = to, !.pause = "none"]
      /\ to \in {"executing", "completed"}
  BY DEF Resume
<1> HIDE DEF to
<1>3. /\ Resume(s) \in TaskState /\ Resume(s).status = to
      /\ Resume(s).cursor = s.cursor
  BY <1>0, <1>2 DEF TaskState
<1> QED BY <1>1, <1>2, <1>3

-----------------------------------------------------------------------------
(* The rows.                                                               *)

LEMMA TaskRowEffect ==
  ASSUME NEW d \in DbType, NEW next \in TaskState
  PROVE  /\ TaskRow(d, next) \in DbType /\ TaskRow(d, next).status = next.status
         /\ TaskRow(d, next).rows = d.rows /\ TaskRow(d, next).retry = d.retry
         /\ TaskRow(d, next).pend = d.pend /\ TaskRow(d, next).exists = d.exists
<1> DEFINE pause == IF next.status = "paused" THEN next.pause ELSE "none"
<1>1. pause \in Reasons /\ next.status \in TaskStatuses
  BY DEF TaskState, Reasons
<1>2. TaskRow(d, next) = [d EXCEPT !.status = next.status, !.pause = pause]
  BY DEF TaskRow
<1> HIDE DEF pause
<1> QED BY <1>1, <1>2 DEF DbType

LEMMA StartRowEffect ==
  ASSUME NEW d \in DbType, NEW next \in TaskState
  PROVE  LET after == StartRow(d, next)
         IN  /\ after \in DbType /\ after.status = d.status
             /\ \A i \in Steps : after.rows[i] \in {d.rows[i], "executing"}
             /\ next.status # "executing" => after = d
<1> DEFINE c     == next.cursor
           rows  == [d.rows EXCEPT ![c] = "executing"]
           pend  == [d.pend EXCEPT ![c] = "none"]
           after == StartRow(d, next)
<1>1. CASE next.status = "executing" /\ ~Past(next)
  <2>1. d.rows \in [Steps -> RowStatuses] /\ d.pend \in [Steps -> Pending]
    BY DEF DbType
  <2>2. /\ rows \in [Steps -> RowStatuses] /\ pend \in [Steps -> Pending]
        /\ \A i \in Steps : rows[i] \in {d.rows[i], "executing"}
    BY <2>1 DEF RowStatuses, Pending
  <2>3. after = [d EXCEPT !.rows = rows, !.pend = pend]
    BY <1>1 DEF StartRow
  <2> HIDE DEF rows, pend, after
  <2>4. after \in DbType /\ after.status = d.status /\ after.rows = rows
    BY <2>2, <2>3 DEF DbType
  <2> QED BY <1>1, <2>2, <2>4 DEF after
<1>2. CASE ~(next.status = "executing" /\ ~Past(next))
  BY <1>2 DEF StartRow
<1> QED BY <1>1, <1>2

LEMMA BatchApproveEffect ==
  ASSUME NEW d \in DbType, NEW next \in TaskState
  PROVE  LET after == ApplyBatchApprove(d, next)
         IN  /\ after \in DbType /\ after.status = next.status
             /\ \A i \in Steps : after.rows[i] \in {d.rows[i], "executing"}
<1> DEFINE task == [d EXCEPT !.status = next.status, !.pause = "none"]
<1>1. next.status \in TaskStatuses /\ "none" \in Reasons
  BY DEF TaskState, Reasons
<1>2. task \in DbType /\ task.status = next.status /\ task.rows = d.rows
  BY <1>1 DEF DbType
<1>3. ApplyBatchApprove(d, next) = StartRow(task, next)
  BY DEF ApplyBatchApprove
<1> HIDE DEF task
<1> QED BY <1>2, <1>3, StartRowEffect

(* The one row a result settles is that of the step the state stood on.    *)
LEMMA StepResultRows ==
  ASSUME NEW d \in DbType, NEW prev \in TaskState, NEW next \in TaskState,
         NEW result \in Results
  PROVE  LET after == ApplyStepResult(d, prev, next, result)
         IN  /\ after \in DbType /\ after.status = next.status
             /\ \A i \in Steps :
                  \/ after.rows[i] \in {d.rows[i], "executing"}
                  \/ /\ i = prev.cursor /\ ~IsRetry(prev, next)
                     /\ after.rows[i] = StepStatusFor(next, result)
             /\ next.status = "awaiting_user" /\ prev.cursor \in Steps =>
                  after.rows[prev.cursor] = "awaiting_user"
<1> DEFINE c     == prev.cursor
           task  == TaskRow(d, next)
           rows  == [d.rows EXCEPT ![c] = StepStatusFor(next, result)]
           retry == [d.retry EXCEPT ![c] = IF next.retry[c] > prev.retry[c]
                                           THEN next.retry[c] ELSE @]
           again == [d.retry EXCEPT ![c] = next.retry[c]]
           pend  == [d.pend EXCEPT ![c] = IF next.status = "awaiting_user"
                                          THEN next.pending ELSE "none"]
           settled == [task EXCEPT !.rows = rows, !.retry = retry, !.pend = pend]
           after == ApplyStepResult(d, prev, next, result)
<1>1. /\ task \in DbType /\ task.status = next.status
      /\ task.rows = d.rows /\ task.retry = d.retry /\ task.pend = d.pend
  BY TaskRowEffect
<1>2. /\ d.rows \in [Steps -> RowStatuses] /\ d.pend \in [Steps -> Pending]
      /\ d.retry \in [Steps -> 0 .. MaxStepRetries]
      /\ next.retry \in [Steps -> 0 .. MaxStepRetries]
      /\ next.pending \in Pending /\ "none" \in Pending
      /\ next.status \in TaskStatuses
      /\ prev.cursor \in 1 .. Len(Gates) + 1 /\ next.cursor \in 1 .. Len(Gates) + 1
  BY DEF DbType, TaskState, Pending
<1>3. StepStatusFor(next, result) \in RowStatuses
      /\ (next.status = "awaiting_user" => StepStatusFor(next, result) = "awaiting_user")
  BY DEF StepStatusFor, RowStatuses
<1>4. Past(prev) <=> c \notin Steps
  BY <1>2, Plan DEF Past
<1>5. CASE IsRetry(prev, next)
  <2>1. again \in [Steps -> 0 .. MaxStepRetries]
    BY <1>2
  <2>2. after = [task EXCEPT !.retry = again]
    BY <1>1, <1>5 DEF ApplyStepResult
  <2>3. next.status = "executing"
    BY <1>5 DEF IsRetry
  <2> HIDE DEF task, again, after
  <2>4. after \in DbType /\ after.status = next.status /\ after.rows = d.rows
    BY <1>1, <2>1, <2>2 DEF DbType
  <2> QED BY <2>3, <2>4 DEF after
<1>6. CASE ~IsRetry(prev, next) /\ Past(prev)
  <2>1. after = StartRow(task, next)
    BY <1>6 DEF ApplyStepResult
  <2> HIDE DEF task, after
  <2>2. /\ after \in DbType /\ after.status = next.status
        /\ \A i \in Steps : after.rows[i] \in {d.rows[i], "executing"}
    BY <1>1, <2>1, StartRowEffect
  <2> QED BY <1>4, <1>6, <2>2 DEF after
<1>7. CASE ~IsRetry(prev, next) /\ ~Past(prev)
  <2>1. /\ rows \in [Steps -> RowStatuses] /\ pend \in [Steps -> Pending]
        /\ retry \in [Steps -> 0 .. MaxStepRetries]
    BY <1>2, <1>3, <1>4, <1>7
  <2>2. /\ rows[c] = StepStatusFor(next, result)
        /\ \A i \in Steps : i # c => rows[i] = d.rows[i]
    BY <1>2, <1>4, <1>7
  <2>3. after = StartRow(settled, next)
    BY <1>1, <1>7 DEF ApplyStepResult
  <2> HIDE DEF task, rows, retry, pend
  <2>4. settled \in DbType /\ settled.status = next.status /\ settled.rows = rows
    BY <1>1, <2>1 DEF DbType
  <2> HIDE DEF settled, after
  <2>5. /\ after \in DbType /\ after.status = next.status
        /\ \A i \in Steps : after.rows[i] \in {rows[i], "executing"}
        /\ next.status # "executing" => after.rows = rows
    BY <2>3, <2>4, StartRowEffect
  <2> QED BY <1>3, <1>7, <2>2, <2>5 DEF after
<1> QED BY <1>5, <1>6, <1>7

LEMMA LeastOpenStep ==
  ASSUME NEW S \in SUBSET Nat, S # {}
  PROVE  \E m \in S : \A j \in S : m <= j
<1> DEFINE R == OpToRel(<, Nat)
<1>1. R = {ss \in Nat \X Nat : ss[1] < ss[2]}
  BY DEF OpToRel
<1>2. IsWellFoundedOn(R, Nat)
  BY NatLessThanWellFounded
<1> HIDE DEF R
<1>3. PICK m \in S : \A j \in S : ~(<<j, m>> \in R)
  BY <1>2, WFMin
<1>4. \A j \in S : ~(j < m)
  BY <1>1, <1>3
<1> QED BY <1>4

(* The state a boot or a call makes of the rows stands on the first step   *)
(* that is not closed.                                                     *)
LEMMA RehydratedState ==
  ASSUME NEW d \in DbType
  PROVE  LET s == Rehydrate(d)
         IN  /\ s \in TaskState /\ s.status = d.status
             /\ s.pending # "none" => s.cursor \in Steps
             /\ FirstOpen(d, s.cursor)
<1> DEFINE open == {i \in Steps : d.rows[i] \notin {"completed", "failed"}}
           c    == IF open = {} THEN Len(Gates) + 1
                   ELSE CHOOSE i \in open : \A j \in open : i <= j
           pending == IF c \in Steps THEN d.pend[c] ELSE "none"
           s == Rehydrate(d)
<1>1. s = [status |-> d.status, cursor |-> c, retry |-> d.retry,
           pending |-> pending, pause |-> d.pause]
  BY DEF Rehydrate
<1>2. open # {} => c \in open /\ \A j \in open : c <= j
  <2>1. open \in SUBSET Nat
    BY Plan
  <2> HIDE DEF open
  <2>2. open # {} => \E m \in open : \A j \in open : m <= j
    BY <2>1, LeastOpenStep
  <2> QED BY <2>2
<1>3. c \in 1 .. Len(Gates) + 1 /\ \A j \in Steps : j < c => d.rows[j] \in Closed
  <2>1. CASE open = {}
    BY <2>1, Plan DEF Closed
  <2>2. CASE open # {}
    <3> HIDE DEF c
    <3>1. c \in Steps /\ \A j \in Steps : j < c => j \notin open
      <4>1. c \in open /\ \A j \in open : c <= j
        BY <1>2, <2>2
      <4>2. open \subseteq Steps
        OBVIOUS
      <4> HIDE DEF open
      <4> QED BY <4>1, <4>2, Plan
    <3> QED BY <3>1, Plan DEF Closed
  <2> QED BY <2>1, <2>2
<1>4. pending \in Pending /\ (pending # "none" => c \in Steps)
  <2> HIDE DEF c
  <2> QED BY DEF DbType, Pending
<1> HIDE DEF c, pending, s
<1>5. s \in TaskState /\ s.status = d.status /\ s.cursor = c /\ s.pending = pending
  BY <1>1, <1>3, <1>4 DEF TaskState, DbType
<1> QED BY <1>3, <1>4, <1>5 DEF FirstOpen, s

-----------------------------------------------------------------------------
(* What keeps the parts of the invariant.                                  *)

(* The history only grows, so what it covers stays covered.                *)
LEMMA StillFits ==
  ASSUME reported \subseteq reported', blurred \subseteq blurred'
  PROVE  /\ \A s : Covered(s) => Covered(s)'
         /\ \A h : ResultFits(h) => ResultFits(h)'
         /\ \A k : CallFits(k) => CallFits(k)'
<1>1. ASSUME NEW s, Covered(s) PROVE Covered(s)'
  BY <1>1 DEF Covered
<1>2. ASSUME NEW h, ResultFits(h) PROVE ResultFits(h)'
  BY <1>2 DEF ResultFits, Covered
<1>3. ASSUME NEW k, CallFits(k) PROVE CallFits(k)'
  BY <1>3 DEF CallFits, Covered
<1> QED BY <1>1, <1>2, <1>3

RowsOK == WaitsOnReported /\ SettledMeansReported /\ GateNeedsItsOwnConfirm

(* A write that at most restarts a row and leaves it waiting only as it    *)
(* was.                                                                    *)
LEMMA RowsStay ==
  ASSUME RowsOK, reported \subseteq reported', blurred \subseteq blurred',
         approved \subseteq approved',
         \A i \in Steps : db'.rows[i] \in {db.rows[i], "executing"},
         db'.status = "awaiting_user" => db.status = "awaiting_user" /\ db'.rows = db.rows
  PROVE  RowsOK'
<1>1. WaitsOnReported'
  <2> SUFFICES ASSUME db'.status = "awaiting_user", NEW i \in Steps, FirstOpen(db, i)'
               PROVE  i \in reported'
    BY DEF WaitsOnReported
  <2>1. FirstOpen(db, i)
    BY DEF FirstOpen
  <2> QED BY <2>1 DEF RowsOK, WaitsOnReported
<1>2. SettledMeansReported'
  BY DEF RowsOK, SettledMeansReported
<1>3. GateNeedsItsOwnConfirm'
  BY DEF RowsOK, GateNeedsItsOwnConfirm
<1> QED BY <1>1, <1>2, <1>3 DEF RowsOK

(* The write of a result or a decision on a step that was reported.        *)
LEMMA RowsWritten ==
  ASSUME RowsOK, db \in DbType,
         NEW prev \in TaskState, NEW next \in TaskState, NEW result \in Results,
         db' = ApplyStepResult(db, prev, next, result),
         reported' = reported, blurred' = blurred, approved \subseteq approved',
         \A i \in Steps : i <= prev.cursor => i \in reported,
         \A i \in Steps : /\ i = prev.cursor /\ Gates[i] /\ ~IsRetry(prev, next)
                          /\ StepStatusFor(next, result) = "completed"
                          => i \in approved' \cup blurred
  PROVE  db' \in DbType /\ RowsOK'
<1>1. /\ db' \in DbType /\ db'.status = next.status
      /\ \A i \in Steps :
           \/ db'.rows[i] \in {db.rows[i], "executing"}
           \/ /\ i = prev.cursor /\ ~IsRetry(prev, next)
              /\ db'.rows[i] = StepStatusFor(next, result)
      /\ next.status = "awaiting_user" /\ prev.cursor \in Steps =>
           db'.rows[prev.cursor] = "awaiting_user"
  BY StepResultRows
<1>2. WaitsOnReported'
  <2> SUFFICES ASSUME db'.status = "awaiting_user", NEW i \in Steps, FirstOpen(db, i)'
               PROVE  i \in reported
    BY DEF WaitsOnReported
  <2>1. prev.cursor \in 1 .. Len(Gates) + 1
    BY DEF TaskState
  <2>2. i <= prev.cursor
    <3>1. CASE prev.cursor \in Steps
      <4>1. db'.rows[prev.cursor] = "awaiting_user"
        BY <1>1, <3>1
      <4>2. ~(prev.cursor < i)
        BY <3>1, <4>1 DEF FirstOpen, Closed
      <4> QED BY <3>1, <4>2, Plan
    <3>2. CASE prev.cursor \notin Steps
      BY <2>1, <3>2, Plan
    <3> QED BY <3>1, <3>2
  <2> QED BY <2>2
<1>3. SettledMeansReported'
  <2> SUFFICES ASSUME NEW i \in Steps,
                      db'.rows[i] \in {"completed", "failed", "awaiting_user", "skipped"}
               PROVE  i \in reported
    BY DEF SettledMeansReported
  <2>1. CASE db'.rows[i] \in {db.rows[i], "executing"}
    BY <2>1 DEF RowsOK, SettledMeansReported
  <2>2. CASE i = prev.cursor
    BY <2>2, Plan
  <2> QED BY <1>1, <2>1, <2>2
<1>4. GateNeedsItsOwnConfirm'
  <2> SUFFICES ASSUME NEW i \in Steps, Gates[i], db'.rows[i] = "completed"
               PROVE  i \in approved' \cup blurred'
    BY DEF GateNeedsItsOwnConfirm
  <2>1. CASE db'.rows[i] \in {db.rows[i], "executing"}
    BY <2>1 DEF RowsOK, GateNeedsItsOwnConfirm
  <2>2. CASE /\ i = prev.cursor /\ ~IsRetry(prev, next)
             /\ db'.rows[i] = StepStatusFor(next, result)
    BY <2>2
  <2> QED BY <1>1, <2>1, <2>2
<1> QED BY <1>1, <1>2, <1>3, <1>4 DEF RowsOK

LEMMA StartsWork ==
  ASSUME work \in [Extensions -> [Steps -> 0 .. MaxRuns]],
         NEW c \in Clients, NEW i \in Steps, Starts(c, i)
  PROVE  work' \in [Extensions -> [Steps -> 0 .. MaxRuns]]
<1>1. CASE c \in Extensions
  <2> DEFINE one == [work[c] EXCEPT ![i] = work[c][i] + 1]
  <2>1. /\ work[c][i] < MaxRuns /\ work[c][i] \in 0 .. MaxRuns
        /\ work' = [work EXCEPT ![c] = one]
    BY <1>1 DEF Starts
  <2>2. work[c][i] + 1 \in 0 .. MaxRuns
    BY <2>1, Plan
  <2>3. one \in [Steps -> 0 .. MaxRuns]
    BY <1>1, <2>2
  <2> HIDE DEF one
  <2> QED BY <2>1, <2>3
<1>2. CASE c \notin Extensions
  BY <1>2 DEF Starts
<1> QED BY <1>1, <1>2

(* A decision leaves copies that are covered and a result that fits.       *)
LEMMA DecideEffect ==
  ASSUME StepTypeOK, CopiesCovered, HandlersOK,
         NEW h \in HandlerType, NEW others \in SUBSET handlers,
         Decide(h, others), Covered(h.prev),
         reported \subseteq reported', h.step \in reported', UNCHANGED bucket
  PROVE  /\ mem' \in [Clients -> TaskState \cup {NoTask}]
         /\ handlers' \subseteq HandlerType
         /\ blurred' \subseteq Steps /\ blurred \subseteq blurred'
         /\ CopiesCovered' /\ HandlersOK'
<1> DEFINE next == OnStepResult(h.prev, h.result)
           g == [h EXCEPT !.at = "persist", !.next = next]
<1>0. /\ mem \in [Clients -> TaskState \cup {NoTask}]
      /\ handlers \subseteq HandlerType /\ blurred \subseteq Steps
      /\ h.client \in Clients /\ h.step \in Steps /\ h.prev \in TaskState
      /\ h.result \in Results /\ h.open \in BOOLEAN
  BY StepTaskTypes, Plan DEF HandlerType
<1>1. blurred' \subseteq Steps /\ blurred \subseteq blurred'
  BY <1>0 DEF Decide
<1>2. /\ \A t : Covered(t) => Covered(t)'
      /\ \A f : ResultFits(f) => ResultFits(f)'
  BY <1>1, StillFits
<1>3. ASSUME NEW t \in TaskState, Covered(t)', KeepCopy(h, t)
      PROVE  mem' \in [Clients -> TaskState \cup {NoTask}] /\ CopiesCovered'
  <2>1. /\ mem' \in [Clients -> TaskState \cup {NoTask}]
        /\ \A d \in Clients : mem'[d] = mem[d] \/ mem'[d] = t
    BY <1>0, <1>3 DEF KeepCopy
  <2>2. ASSUME NEW d \in Clients, mem'[d] # NoTask PROVE Covered(mem[d])'
    <3>1. mem'[d] = mem[d] \/ mem'[d] = t
      BY <2>1
    <3>2. CASE mem'[d] = t
      BY <1>3, <3>2 DEF Covered
    <3>3. CASE mem'[d] = mem[d]
      <4>1. Covered(mem[d])
        BY <2>2, <3>3 DEF CopiesCovered
      <4> QED BY <3>3, <4>1 DEF Covered
    <3> QED BY <3>1, <3>2, <3>3
  <2>3. bucket' # NoTask => Covered(bucket)'
    BY DEF CopiesCovered, Covered
  <2> QED BY <2>1, <2>2, <2>3 DEF CopiesCovered
<1>4. CASE h.prev.cursor # h.step
  <2>1. KeepCopy(h, h.prev) /\ handlers' = others
    BY <1>4 DEF Decide
  <2>2. HandlersOK'
    BY <1>2, <2>1 DEF HandlersOK
  <2>3. Covered(h.prev)'
    BY <1>2 DEF Covered
  <2> QED BY <1>0, <1>1, <1>3, <2>1, <2>2, <2>3
<1>5. CASE h.prev.cursor = h.step
  <2>1. /\ KeepCopy(h, next)
        /\ handlers' = others \cup {g}
        /\ blurred' = IF h.result = "error" /\ h.prev.status # "executing"
                      THEN blurred \cup {h.step} ELSE blurred
    BY <1>5 DEF Decide
  <2>2. next \in TaskState /\ next.cursor \in {h.prev.cursor, h.prev.cursor + 1}
    BY <1>0, <1>5, ResultState
  <2>3. /\ g \in HandlerType /\ g.step = h.step /\ g.prev = h.prev
        /\ g.next = next /\ g.result = h.result
    BY <2>2 DEF HandlerType
  <2>4. Covered(next)'
    BY <1>0, <1>2, <1>5, <2>2, Plan DEF Covered
  <2>5. ResultFits(g)'
    <3>1. h.result = "error" /\ h.prev.status # "executing" => h.step \in blurred'
      BY <2>1
    <3>2. Covered(h.prev)'
      BY <1>2 DEF Covered
    <3> HIDE DEF g
    <3> QED BY <1>5, <2>3, <3>1, <3>2 DEF ResultFits, Covered
  <2> HIDE DEF g, next
  <2>6. mem' \in [Clients -> TaskState \cup {NoTask}] /\ CopiesCovered'
    BY <1>3, <2>1, <2>2, <2>4
  <2>7. handlers' \subseteq HandlerType /\ HandlersOK'
    BY <1>0, <1>2, <2>1, <2>3, <2>5 DEF HandlersOK
  <2> QED BY <1>1, <2>6, <2>7
<1> QED BY <1>4, <1>5

-----------------------------------------------------------------------------
(* The steps.                                                              *)

LEMMA StepFacts ==
  ASSUME StepInv
  PROVE  /\ StepTypeOK /\ CopiesCovered /\ HandlersOK /\ CallsOK /\ RowsOK
         /\ up \in BOOLEAN /\ boots \in 0 .. MaxBoots
         /\ db \in DbType
         /\ mem \in [Clients -> TaskState \cup {NoTask}]
         /\ conn \subseteq Clients
         /\ bucket \in TaskState \cup {NoTask}
         /\ work \in [Extensions -> [Steps -> 0 .. MaxRuns]]
         /\ handlers \subseteq HandlerType /\ calls \subseteq CallType
         /\ failures \in Nat /\ healed \in [Extensions -> SUBSET Steps]
         /\ approved \subseteq Steps /\ reported \subseteq Steps /\ blurred \subseteq Steps
BY StepTaskTypes DEF StepInv, RowsOK

LEMMA StepInvFrom ==
  ASSUME up' \in BOOLEAN, boots' \in 0 .. MaxBoots, db' \in DbType,
         mem' \in [Clients -> TaskState \cup {NoTask}], conn' \subseteq Clients,
         bucket' \in TaskState \cup {NoTask},
         work' \in [Extensions -> [Steps -> 0 .. MaxRuns]],
         handlers' \subseteq HandlerType, calls' \subseteq CallType,
         failures' \in Nat, healed' \in [Extensions -> SUBSET Steps],
         approved' \subseteq Steps, reported' \subseteq Steps, blurred' \subseteq Steps,
         CopiesCovered', HandlersOK', CallsOK', RowsOK'
  PROVE  StepInv'
BY DEF StepInv, RowsOK, StepTypeOK, DbType, HandlerType, CallType

LEMMA RehydratedIsCovered ==
  ASSUME NEW d \in DbType, SettledMeansReported, d.rows = db.rows
  PROVE  Covered(Rehydrate(d))
<1> DEFINE s == Rehydrate(d)
<1>1. FirstOpen(d, s.cursor)
  BY RehydratedState
<1> HIDE DEF s
<1>2. Covered(s)
  BY <1>1 DEF FirstOpen, Closed, SettledMeansReported, Covered
<1> QED BY <1>2 DEF s

(* Copies that stay, go, or become a covered state.                        *)
LEMMA CopiesStay ==
  ASSUME StepTypeOK, CopiesCovered, reported \subseteq reported',
         NEW s \in TaskState \cup {NoTask}, s # NoTask => Covered(s),
         mem' \in [Clients -> TaskState \cup {NoTask}],
         \A c \in Clients : mem'[c] \in {mem[c], s, NoTask},
         bucket' \in {bucket, NoTask}
  PROVE  CopiesCovered'
<1>1. ASSUME NEW c \in Clients, mem'[c] # NoTask PROVE Covered(mem[c])'
  <2>1. mem'[c] = mem[c] \/ (mem'[c] = s /\ s # NoTask)
    BY <1>1
  <2>2. CASE mem'[c] = mem[c]
    BY <1>1, <2>2 DEF CopiesCovered, Covered
  <2>3. CASE mem'[c] = s /\ s # NoTask
    BY <2>3 DEF Covered
  <2> QED BY <2>1, <2>2, <2>3
<1>2. bucket' # NoTask => Covered(bucket)'
  BY DEF CopiesCovered, Covered
<1> QED BY <1>1, <1>2 DEF CopiesCovered

LEMMA CreateKeeps ==
  ASSUME StepInv, CreateTask
  PROVE  StepInv'
<1> DEFINE new == [db EXCEPT !.exists = TRUE]
           s == Rehydrate(db')
<1>0. /\ StepTypeOK /\ CopiesCovered /\ RowsOK /\ db \in DbType
      /\ mem \in [Clients -> TaskState \cup {NoTask}]
  BY StepFacts
<1>1. /\ db' = new /\ ShareState(s)
      /\ UNCHANGED <<procVars, work, handlers, healed, calls, failures, histVars>>
  BY DEF CreateTask
<1>2. new \in DbType /\ new.rows = db.rows /\ new.status = db.status
  BY <1>0 DEF DbType
<1> HIDE DEF new
<1>3. db' \in DbType /\ db'.rows = db.rows /\ db'.status = db.status
  BY <1>1, <1>2
<1>4. s \in TaskState /\ Covered(s)
  BY <1>0, <1>3, RehydratedState, RehydratedIsCovered DEF RowsOK
<1> HIDE DEF s
<1>5. /\ mem' \in [Clients -> TaskState \cup {NoTask}]
      /\ \A c \in Clients : mem'[c] \in {mem[c], s, NoTask}
  BY <1>0, <1>1, <1>4 DEF ShareState
<1>6. CopiesCovered'
  BY <1>0, <1>1, <1>4, <1>5, CopiesStay DEF procVars, histVars
<1>7. RowsOK'
  BY <1>0, <1>1, <1>3, RowsStay DEF histVars
<1>8. HandlersOK' /\ CallsOK'
  BY <1>1, StepFacts DEF procVars, histVars, HandlersOK, CallsOK, ResultFits,
       CallFits, Covered
<1> QED BY <1>1, <1>3, <1>5, <1>6, <1>7, <1>8, StepFacts, StepInvFrom DEF procVars, histVars

LEMMA ConnectKeeps ==
  ASSUME StepInv, NEW c \in Clients, Connect(c)
  PROVE  StepInv'
<1>0. /\ StepTypeOK /\ CopiesCovered /\ RowsOK
      /\ mem \in [Clients -> TaskState \cup {NoTask}]
      /\ bucket \in TaskState \cup {NoTask} /\ conn \subseteq Clients
      /\ work \in [Extensions -> [Steps -> 0 .. MaxRuns]]
  BY StepFacts
<1>1. /\ conn' = conn \cup {c} /\ mem' = [mem EXCEPT ![c] = bucket]
      /\ bucket' = NoTask
      /\ IF bucket # NoTask /\ bucket.status = "executing" /\ ~Past(bucket)
         THEN Starts(c, bucket.cursor)
         ELSE UNCHANGED work
      /\ UNCHANGED <<up, boots, db, handlers, healed, calls, failures, histVars>>
  BY DEF Connect
<1>2. /\ mem' \in [Clients -> TaskState \cup {NoTask}]
      /\ \A d \in Clients : mem'[d] \in {mem[d], bucket, NoTask}
  BY <1>0, <1>1
<1>3. CopiesCovered'
  <2>1. bucket # NoTask => Covered(bucket)
    BY <1>0 DEF CopiesCovered
  <2> QED BY <1>0, <1>1, <1>2, <2>1, CopiesStay DEF histVars
<1>4. work' \in [Extensions -> [Steps -> 0 .. MaxRuns]]
  <2>1. CASE bucket # NoTask /\ bucket.status = "executing" /\ ~Past(bucket)
    <3>1. bucket.cursor \in Steps
      BY <1>0, <2>1, Plan DEF TaskState, Past
    <3> QED BY <1>0, <1>1, <2>1, <3>1, StartsWork
  <2>2. CASE ~(bucket # NoTask /\ bucket.status = "executing" /\ ~Past(bucket))
    BY <1>0, <1>1, <2>2
  <2> QED BY <2>1, <2>2
<1>6. RowsOK'
  BY <1>0, <1>1, RowsStay DEF histVars
<1>7. HandlersOK' /\ CallsOK'
  BY <1>1, StepFacts DEF histVars, HandlersOK, CallsOK, ResultFits, CallFits, Covered
<1> QED BY <1>0, <1>1, <1>2, <1>3, <1>4, <1>6, <1>7, StepFacts, StepInvFrom
     DEF histVars

LEMMA DisconnectKeeps ==
  ASSUME StepInv, NEW c \in Clients, Disconnect(c)
  PROVE  StepInv'
<1>0. /\ StepTypeOK /\ CopiesCovered /\ HandlersOK /\ RowsOK
      /\ mem \in [Clients -> TaskState \cup {NoTask}] /\ conn \subseteq Clients
      /\ handlers \subseteq HandlerType /\ healed \in [Extensions -> SUBSET Steps]
  BY StepFacts
<1>1. /\ conn' = conn \ {c} /\ mem' = [mem EXCEPT ![c] = NoTask]
      /\ healed' = [e \in Extensions |-> IF e = c THEN {} ELSE healed[e]]
      /\ handlers' = {[h EXCEPT !.open = h.open /\ h.client # c] : h \in handlers}
      /\ UNCHANGED <<up, boots, bucket, db, work, calls, failures, histVars>>
  BY DEF Disconnect
<1>2. /\ mem' \in [Clients -> TaskState \cup {NoTask}]
      /\ \A d \in Clients : mem'[d] \in {mem[d], NoTask}
      /\ healed' \in [Extensions -> SUBSET Steps]
  BY <1>0, <1>1
<1>3. CopiesCovered'
  BY <1>0, <1>1, <1>2, CopiesStay DEF histVars
<1>4. RowsOK'
  BY <1>0, <1>1, RowsStay DEF histVars
<1>5. ASSUME NEW g \in handlers' PROVE g \in HandlerType /\ ResultFits(g)'
  <2>1. PICK h \in handlers : g = [h EXCEPT !.open = h.open /\ h.client # c]
    BY <1>1
  <2>2. h \in HandlerType /\ ResultFits(h)
    BY <1>0 DEF HandlersOK
  <2>3. (h.open /\ h.client # c) \in BOOLEAN
    OBVIOUS
  <2>4. /\ g \in HandlerType /\ g.at = h.at /\ g.step = h.step /\ g.prev = h.prev
        /\ g.result = h.result /\ g.next = h.next
    BY <2>1, <2>2, <2>3 DEF HandlerType
  <2> QED BY <1>1, <2>2, <2>4 DEF ResultFits, Covered, histVars
<1>6. CallsOK'
  BY <1>1, StepFacts DEF histVars, CallsOK, CallFits, Covered
<1>7. handlers' \subseteq HandlerType /\ HandlersOK'
  BY <1>5 DEF HandlersOK
<1> QED BY <1>0, <1>1, <1>2, <1>3, <1>4, <1>6, <1>7, StepFacts, StepInvFrom DEF histVars

(* A handler that starts to wait holds a covered state of its socket.      *)
LEMMA AwaitKeepsHandlers ==
  ASSUME StepTypeOK, HandlersOK, NEW h \in HandlerType,
         handlers' = handlers \cup {h}, h.at # "persist", Covered(h.prev),
         h.step \in reported', reported \subseteq reported', blurred \subseteq blurred'
  PROVE  handlers' \subseteq HandlerType /\ HandlersOK'
<1>1. handlers \subseteq HandlerType
  BY StepTaskTypes
<1>2. \A f : ResultFits(f) => ResultFits(f)'
  BY StillFits
<1>3. ResultFits(h)'
  BY DEF ResultFits, Covered
<1> QED BY <1>1, <1>2, <1>3 DEF HandlersOK

LEMMA StepDoneKeeps ==
  ASSUME StepInv, NEW c \in Extensions, NEW i \in Steps, NEW result \in Results,
         StepDone(c, i, result)
  PROVE  StepInv'
<1>0. /\ StepTypeOK /\ CopiesCovered /\ HandlersOK /\ CallsOK /\ RowsOK
      /\ mem \in [Clients -> TaskState \cup {NoTask}] /\ handlers \subseteq HandlerType
      /\ work \in [Extensions -> [Steps -> 0 .. MaxRuns]]
      /\ healed \in [Extensions -> SUBSET Steps]
      /\ reported \subseteq Steps /\ blurred \subseteq Steps
      /\ c \in Clients
  BY StepFacts, Plan
<1>1. UNCHANGED <<procVars, db, calls, failures, approved>>
  BY DEF StepDone
<1>2. work' \in [Extensions -> [Steps -> 0 .. MaxRuns]]
  <2> DEFINE one == [work[c] EXCEPT ![i] = work[c][i] - 1]
  <2>1. work[c][i] > 0 /\ work[c][i] \in 0 .. MaxRuns /\ work' = [work EXCEPT ![c] = one]
    BY <1>0 DEF StepDone
  <2>2. work[c][i] - 1 \in 0 .. MaxRuns
    BY <2>1, Plan
  <2>3. one \in [Steps -> 0 .. MaxRuns]
    BY <1>0, <2>2
  <2> HIDE DEF one
  <2> QED BY <1>0, <2>1, <2>3
<1>3. /\ mem' \in [Clients -> TaskState \cup {NoTask}] /\ handlers' \subseteq HandlerType
      /\ blurred' \subseteq Steps /\ blurred \subseteq blurred'
      /\ reported' \subseteq Steps /\ reported \subseteq reported'
      /\ healed' \in [Extensions -> SUBSET Steps]
      /\ CopiesCovered' /\ HandlersOK'
  <2>1. CASE up /\ c \in conn /\ mem[c] # NoTask
    <3> DEFINE h == Received(c, i, result, "persist")
    <3>1. /\ reported' = reported \cup {i}
          /\ \/ Decide(h, handlers) /\ UNCHANGED healed
             \/ AwaitHeal(c, i, result)
             \/ AwaitMark(c, i, result)
      BY <2>1 DEF StepDone
    <3>2. mem[c] \in TaskState /\ Covered(mem[c])
      BY <1>0, <2>1 DEF CopiesCovered
    <3>3. bucket' = bucket
      BY <1>1 DEF procVars
    <3>4. reported \subseteq reported' /\ i \in reported' /\ reported' \subseteq Steps
      BY <1>0, <3>1
    <3>5. CASE Decide(h, handlers) /\ UNCHANGED healed
      <4>1. h \in HandlerType /\ h.step = i /\ h.prev = mem[c]
        BY <3>2 DEF HandlerType, Received
      <4> HIDE DEF h
      <4>2. handlers \in SUBSET handlers
        OBVIOUS
      <4>3. Covered(h.prev) /\ h.step \in reported'
        BY <3>2, <3>4, <4>1
      <4> QED BY <1>0, <3>3, <3>4, <3>5, <4>1, <4>2, <4>3, DecideEffect
    <3>6. CASE AwaitHeal(c, i, result) \/ AwaitMark(c, i, result)
      <4>1. PICK g \in HandlerType :
              /\ handlers' = handlers \cup {g}
              /\ g.step = i /\ g.prev = mem[c] /\ g.at # "persist"
        <5>1. PICK at \in {"heal", "mark"} :
                handlers' = handlers \cup {Received(c, i, result, at)}
          BY <3>6 DEF AwaitHeal, AwaitMark
        <5>2. /\ Received(c, i, result, at) \in HandlerType
              /\ Received(c, i, result, at).step = i
              /\ Received(c, i, result, at).prev = mem[c]
              /\ Received(c, i, result, at).at = at
          BY <3>2 DEF HandlerType, Received
        <5> QED BY <5>1, <5>2
      <4>2. /\ UNCHANGED <<mem, blurred>>
            /\ healed' = healed \/ healed' = [healed EXCEPT ![c] = healed[c] \ {i}]
        BY <3>6 DEF AwaitHeal, AwaitMark
      <4>3. handlers' \subseteq HandlerType /\ HandlersOK'
        <5>1. Covered(g.prev) /\ g.step \in reported'
          BY <3>2, <3>4, <4>1
        <5> QED BY <1>0, <3>4, <4>1, <4>2, <5>1, AwaitKeepsHandlers
      <4>4. CopiesCovered'
        BY <1>0, <3>3, <3>4, <4>2 DEF CopiesCovered, Covered
      <4>5. healed' \in [Extensions -> SUBSET Steps]
        BY <1>0, <4>2
      <4> QED BY <1>0, <3>4, <4>2, <4>3, <4>4, <4>5
    <3> QED BY <3>1, <3>5, <3>6
  <2>2. CASE ~(up /\ c \in conn /\ mem[c] # NoTask)
    <3>1. UNCHANGED <<mem, handlers, healed, reported, blurred>>
      BY <2>2 DEF StepDone
    <3> QED BY <1>0, <1>1, <3>1
          DEF procVars, CopiesCovered, HandlersOK, ResultFits, Covered
  <2> QED BY <2>1, <2>2
<1>4. CallsOK'
  BY <1>0, <1>1, <1>3, StillFits DEF CallsOK
<1>5. RowsOK'
  BY <1>0, <1>1, <1>3, RowsStay
<1> QED BY <1>0, <1>1, <1>2, <1>3, <1>4, <1>5, StepFacts, StepInvFrom DEF procVars

LEMMA HealEndsKeeps ==
  ASSUME StepInv, NEW h \in handlers, NEW found \in BOOLEAN, HealEnds(h, found)
  PROVE  StepInv'
<1>0. /\ StepTypeOK /\ CopiesCovered /\ HandlersOK /\ CallsOK /\ RowsOK
      /\ h \in HandlerType /\ ResultFits(h)
      /\ healed \in [Extensions -> SUBSET Steps]
  BY StepFacts DEF HandlersOK
<1>1. /\ Decide(h, handlers \ {h})
      /\ healed' = IF found /\ h.open
                   THEN [healed EXCEPT ![h.client] = @ \cup {h.step}] ELSE healed
      /\ UNCHANGED <<procVars, db, work, calls, failures, reported, approved>>
  BY DEF HealEnds
<1>2. /\ h.client \in Extensions /\ h.step \in Steps
      /\ h.step \in reported /\ Covered(h.prev)
  BY <1>0 DEF HandlerType, ResultFits
<1>3. /\ mem' \in [Clients -> TaskState \cup {NoTask}] /\ handlers' \subseteq HandlerType
      /\ blurred' \subseteq Steps /\ blurred \subseteq blurred'
      /\ CopiesCovered' /\ HandlersOK'
  <2>1. handlers \ {h} \in SUBSET handlers
    OBVIOUS
  <2> QED BY <1>0, <1>1, <1>2, <2>1, DecideEffect DEF procVars
<1>4. CallsOK'
  BY <1>0, <1>1, <1>3, StillFits DEF CallsOK
<1>5. RowsOK'
  BY <1>0, <1>1, <1>3, RowsStay
<1>6. healed' \in [Extensions -> SUBSET Steps]
  BY <1>0, <1>1, <1>2
<1> QED BY <1>0, <1>1, <1>3, <1>4, <1>5, <1>6, StepFacts, StepInvFrom DEF procVars

(* A gated step's result closes its row only when it was blurred.          *)
LEMMA PersistResultKeeps ==
  ASSUME StepInv, NEW h \in handlers, NEW ok \in BOOLEAN, PersistResult(h, ok)
  PROVE  StepInv'
<1>0. /\ StepTypeOK /\ CopiesCovered /\ HandlersOK /\ CallsOK /\ RowsOK
      /\ h \in HandlerType /\ ResultFits(h) /\ db \in DbType /\ failures \in Nat
      /\ work \in [Extensions -> [Steps -> 0 .. MaxRuns]]
      /\ handlers \subseteq HandlerType
  BY StepFacts DEF HandlersOK
<1>1. /\ h.at = "persist" /\ handlers' = handlers \ {h}
      /\ IF ok
         THEN db' = ApplyStepResult(db, h.prev, h.next, h.result) /\ UNCHANGED failures
         ELSE failures' = failures + 1 /\ UNCHANGED db
      /\ IF h.open /\ Redispatches(h.prev, h.result)
         THEN Starts(h.client, h.next.cursor)
         ELSE UNCHANGED work
      /\ UNCHANGED <<procVars, mem, healed, calls, histVars>>
  BY DEF PersistResult
<1>2. /\ h.prev \in TaskState /\ h.next \in TaskState /\ h.client \in Clients
      /\ h.step \in Steps /\ h.result \in Results
      /\ h.step \in reported /\ h.prev.cursor = h.step /\ Covered(h.prev)
      /\ h.next = OnStepResult(h.prev, h.result)
      /\ h.result = "error" /\ h.prev.status # "executing" => h.step \in blurred
  BY <1>0, <1>1, Plan DEF HandlerType, ResultFits
<1>3. work' \in [Extensions -> [Steps -> 0 .. MaxRuns]]
  <2>1. CASE h.open /\ Redispatches(h.prev, h.result)
    <3>1. h.next.cursor \in Steps
      BY <1>2, <2>1, ResultState
    <3> QED BY <1>0, <1>1, <1>2, <2>1, <3>1, StartsWork
  <2>2. CASE ~(h.open /\ Redispatches(h.prev, h.result))
    BY <1>0, <1>1, <2>2
  <2> QED BY <2>1, <2>2
<1>4. ASSUME Gates[h.step], ~IsRetry(h.prev, h.next),
             StepStatusFor(h.next, h.result) = "completed"
      PROVE  h.step \in blurred
  <2> DEFINE s == h.prev
  <2>1. CASE h.result = "error" /\ Retryable(s)
    <3>1. /\ h.next.status = s.status /\ h.next.cursor = s.cursor
          /\ h.next.retry[s.cursor] > s.retry[s.cursor]
      BY <1>2, <2>1, ResultState
    <3>2. s.status # "executing"
      BY <1>4, <3>1 DEF IsRetry
    <3> QED BY <1>2, <2>1, <3>2
  <2>2. CASE h.result = "error" /\ ~Retryable(s)
    <3>1. h.next.status = "paused" /\ h.next.pause = "retries_exhausted"
      BY <1>2, <2>2, ResultState
    <3> QED BY <1>4, <3>1 DEF StepStatusFor
  <2>3. CASE h.result # "error" /\ OpensGate(s, h.result)
    <3>1. h.next.status = "awaiting_user"
      BY <1>2, <2>3, ResultState
    <3> QED BY <1>4, <3>1 DEF StepStatusFor
  <2>4. CASE h.result # "error" /\ ~OpensGate(s, h.result)
    <3>1. h.result = "skipped"
      BY <1>2, <1>4, <2>4 DEF OpensGate
    <3>2. h.next.status # "awaiting_user" /\ h.next.status # "paused"
      BY <1>2, <2>4, ResultState, AdvanceState
    <3> QED BY <1>4, <3>1, <3>2 DEF StepStatusFor
  <2> QED BY <2>1, <2>2, <2>3, <2>4
<1>5. db' \in DbType /\ RowsOK' /\ failures' \in Nat
  <2>1. CASE ok
    <3>1. \A i \in Steps : i <= h.prev.cursor => i \in reported
      BY <1>2, Plan DEF Covered
    <3>2. \A i \in Steps : /\ i = h.prev.cursor /\ Gates[i] /\ ~IsRetry(h.prev, h.next)
                           /\ StepStatusFor(h.next, h.result) = "completed"
                           => i \in approved' \cup blurred
      BY <1>2, <1>4
    <3>3. /\ db' = ApplyStepResult(db, h.prev, h.next, h.result) /\ failures' = failures
          /\ reported' = reported /\ blurred' = blurred /\ approved \subseteq approved'
      BY <1>1, <2>1 DEF histVars
    <3>4. db' \in DbType /\ RowsOK'
      BY <1>0, <1>2, <3>1, <3>2, <3>3, RowsWritten
    <3> QED BY <1>0, <3>3, <3>4
  <2>2. CASE ~ok
    <3>1. db' = db /\ failures' = failures + 1
      BY <1>1, <2>2
    <3>2. RowsOK'
      BY <1>0, <1>1, <3>1, RowsStay DEF histVars
    <3> QED BY <1>0, <3>1, <3>2
  <2> QED BY <2>1, <2>2
<1>6. CopiesCovered' /\ HandlersOK' /\ CallsOK'
  BY <1>0, <1>1 DEF procVars, histVars, CopiesCovered, HandlersOK, CallsOK, ResultFits,
       CallFits, Covered
<1>7. handlers' \subseteq HandlerType
  BY <1>0, <1>1
<1> QED BY <1>1, <1>3, <1>5, <1>6, <1>7, StepFacts, StepInvFrom DEF procVars, histVars

(* What a call has decided is a state, no further than the reports.        *)
LEMMA DecidedState ==
  ASSUME NEW s \in TaskState, NEW op \in {"pause", "resume", "confirm"},
         NEW decision \in {"none", "approve", "skip", "reject"},
         Covered(s),
         op = "confirm" => /\ decision # "none"
                           /\ s.pending # "none" => s.cursor \in Steps
                           /\ \A i \in Steps : i <= s.cursor => i \in reported
  PROVE  Decided(op, s, decision) \in TaskState /\ Covered(Decided(op, s, decision))
<1> DEFINE next == Decided(op, s, decision)
<1>1. CASE op # "confirm"
  <2>1. next = Pause(s) \/ next = Resume(s)
    BY <1>1 DEF Decided
  <2>2. next \in TaskState /\ next.cursor = s.cursor
    BY <2>1, PauseState
  <2> HIDE DEF next
  <2>3. Covered(next)
    BY <2>2 DEF Covered
  <2> QED BY <2>2, <2>3 DEF next
<1>2. CASE op = "confirm" /\ s.pending = "none"
  BY <1>2 DEF Decided
<1>3. CASE op = "confirm" /\ s.pending # "none"
  <2>1. next = UserConfirm(s, decision)
    BY <1>3 DEF Decided
  <2>2. next \in TaskState /\ next.cursor \in {s.cursor, s.cursor + 1}
    BY <1>3, <2>1, ConfirmState
  <2> HIDE DEF next
  <2>3. Covered(next)
    BY <1>3, <2>2, Plan DEF Covered
  <2> QED BY <2>2, <2>3 DEF next
<1> QED BY <1>1, <1>2, <1>3

LEMMA ControlLoadKeeps ==
  ASSUME StepInv, NEW op \in {"pause", "resume", "confirm"},
         NEW decision \in {"none", "approve", "skip", "reject"}, ControlLoad(op, decision)
  PROVE  StepInv'
<1> DEFINE s == Rehydrate(db)
           next == Decided(op, s, decision)
           new == [at |-> "loaded", op |-> op, decision |-> decision, prev |-> s,
                   next |-> next]
<1>0. /\ StepTypeOK /\ CopiesCovered /\ HandlersOK /\ CallsOK /\ RowsOK
      /\ db \in DbType /\ calls \subseteq CallType
  BY StepFacts
<1>1. /\ (op = "confirm") <=> (decision # "none")
      /\ Allowed(op, s) /\ calls' = calls \cup {new}
      /\ UNCHANGED <<procVars, db, mem, work, handlers, healed, failures, histVars>>
  BY DEF ControlLoad
<1>2. /\ s \in TaskState /\ Covered(s) /\ s.status = db.status
      /\ s.pending # "none" => s.cursor \in Steps
      /\ FirstOpen(db, s.cursor)
  BY <1>0, RehydratedState, RehydratedIsCovered DEF RowsOK
<1> HIDE DEF s
<1>3. op = "confirm" => /\ decision # "none" /\ s.status = "awaiting_user"
                        /\ \A i \in Steps : i <= s.cursor => i \in reported
  <2> SUFFICES ASSUME op = "confirm"
               PROVE  /\ decision # "none" /\ s.status = "awaiting_user"
                      /\ \A i \in Steps : i <= s.cursor => i \in reported
    OBVIOUS
  <2>1. decision # "none" /\ s.status = "awaiting_user"
    BY <1>1 DEF Allowed
  <2>2. \A i \in Steps : FirstOpen(db, i) => i \in reported
    BY <1>0, <1>2, <2>1 DEF RowsOK, WaitsOnReported
  <2>3. \A i \in Steps : i <= s.cursor => FirstOpen(db, i)
    BY <1>2, Plan DEF FirstOpen, TaskState
  <2> QED BY <2>1, <2>2, <2>3
<1>4. next \in TaskState /\ Covered(next)
  BY <1>2, <1>3, DecidedState
<1> HIDE DEF next
<1>5. PICK k \in CallType :
        /\ calls' = calls \cup {k}
        /\ k.op = op /\ k.decision = decision /\ k.prev = s /\ k.next = next
  <2>1. /\ new \in CallType /\ new.op = op /\ new.decision = decision
        /\ new.prev = s /\ new.next = next
    BY <1>2, <1>4 DEF CallType
  <2> HIDE DEF new
  <2> QED BY <1>1, <2>1
<1>6. CallFits(k)
  <2>1. k.next = Decided(k.op, k.prev, k.decision)
    BY <1>5 DEF next
  <2>2. (k.op = "confirm") <=> (k.decision # "none")
    BY <1>1, <1>5
  <2> QED BY <1>2, <1>3, <1>5, <2>1, <2>2 DEF CallFits
<1>7. CallsOK'
  <2>1. \A j : CallFits(j) => CallFits(j)'
    BY <1>1, StillFits DEF histVars
  <2> QED BY <1>0, <1>5, <1>6, <2>1 DEF CallsOK
<1>8. RowsOK'
  BY <1>0, <1>1, RowsStay DEF histVars
<1>9. CopiesCovered' /\ HandlersOK'
  BY <1>0, <1>1 DEF procVars, histVars, CopiesCovered, HandlersOK, ResultFits, Covered
<1>10. calls' \subseteq CallType
  BY <1>0, <1>5
<1> QED BY <1>1, <1>7, <1>8, <1>9, <1>10, StepFacts, StepInvFrom DEF procVars, histVars

(* A confirm that closes a row approves or skips the very step.            *)
LEMMA ControlPersistKeeps ==
  ASSUME StepInv, NEW k \in calls, ControlPersist(k)
  PROVE  StepInv'
<1> DEFINE passes == /\ k.prev.pending # "none"
                     /\ \/ k.decision = "skip"
                        \/ k.decision = "approve" /\ k.prev.pending # "batch"
           done == [k EXCEPT !.at = "written"]
<1>0. /\ StepTypeOK /\ CopiesCovered /\ HandlersOK /\ CallsOK /\ RowsOK
      /\ db \in DbType /\ calls \subseteq CallType /\ approved \subseteq Steps
      /\ k \in CallType /\ CallFits(k)
  BY StepFacts DEF CallsOK
<1>1. /\ calls' = (calls \ {k}) \cup {done}
      /\ db' = CASE k.op # "confirm" \/ k.next.status = "cancelled" ->
                      TaskRow(db, k.next)
                 [] k.decision = "approve" /\ k.prev.pending = "batch" ->
                      ApplyBatchApprove(db, k.next)
                 [] OTHER -> ApplyStepResult(db, k.prev, k.next, "ok")
      /\ approved' = IF passes /\ k.prev.cursor \in Steps
                     THEN approved \cup {k.prev.cursor} ELSE approved
      /\ UNCHANGED <<procVars, mem, work, handlers, healed, failures, reported, blurred>>
  BY DEF ControlPersist
<1>2. /\ k.prev \in TaskState /\ k.next \in TaskState
      /\ k.op \in {"pause", "resume", "confirm"}
      /\ k.decision \in {"none", "approve", "skip", "reject"}
      /\ k.next = Decided(k.op, k.prev, k.decision)
      /\ (k.op = "confirm") <=> (k.decision # "none")
      /\ k.op = "confirm" =>
           /\ k.prev.status = "awaiting_user"
           /\ k.prev.pending # "none" => k.prev.cursor \in Steps
           /\ \A i \in Steps : i <= k.prev.cursor => i \in reported
  BY <1>0 DEF CallType, CallFits
<1>3. done \in CallType /\ CallFits(done)
  <2>1. /\ done \in CallType /\ done.op = k.op /\ done.decision = k.decision
        /\ done.prev = k.prev /\ done.next = k.next
    BY <1>0 DEF CallType
  <2> HIDE DEF done
  <2> QED BY <1>0, <2>1 DEF CallFits
<1>4. approved' \subseteq Steps /\ approved \subseteq approved'
  BY <1>0, <1>1
<1> HIDE DEF done
<1>5. calls' \subseteq CallType /\ CallsOK'
  <2>1. \A j : CallFits(j) => CallFits(j)'
    BY <1>1, StillFits
  <2>2. \A j \in calls' : CallFits(j)
    BY <1>0, <1>1, <1>3 DEF CallsOK
  <2> QED BY <1>0, <1>1, <1>3, <2>1, <2>2 DEF CallsOK
<1>6. k.op = "confirm" /\ k.prev.pending # "none" =>
        /\ k.next.status # "awaiting_user"
        /\ k.decision = "reject" <=> k.next.status = "cancelled"
  <2> SUFFICES ASSUME k.op = "confirm", k.prev.pending # "none"
               PROVE  /\ k.next.status # "awaiting_user"
                      /\ k.decision = "reject" <=> k.next.status = "cancelled"
    OBVIOUS
  <2>1. k.next = UserConfirm(k.prev, k.decision)
    BY <1>2 DEF Decided
  <2> QED BY <1>2, <2>1, ConfirmState
<1>7. k.op # "confirm" => k.next.status # "awaiting_user"
  BY <1>2, PauseState DEF Decided
<1>8. ASSUME k.op # "confirm" \/ k.next.status = "cancelled"
      PROVE  db' \in DbType /\ RowsOK'
  <2>1. db' = TaskRow(db, k.next) /\ k.next.status # "awaiting_user"
    <3>1. db' = TaskRow(db, k.next)
      <4>1. ~(k.decision = "approve" /\ k.prev.pending = "batch")
        BY <1>2, <1>6, <1>8
      <4> QED BY <1>1, <1>8, <4>1
    <3>2. k.next.status # "awaiting_user"
      BY <1>7, <1>8
    <3> QED BY <3>1, <3>2
  <2>2. db' \in DbType /\ db'.rows = db.rows /\ db'.status = k.next.status
    BY <1>0, <1>2, <2>1, TaskRowEffect
  <2> QED BY <1>0, <1>1, <1>4, <2>1, <2>2, RowsStay
<1>9. ASSUME ~(k.op # "confirm" \/ k.next.status = "cancelled"),
             k.decision = "approve" /\ k.prev.pending = "batch"
      PROVE  db' \in DbType /\ RowsOK'
  <2>1. db' = ApplyBatchApprove(db, k.next) /\ k.next.status # "awaiting_user"
    BY <1>1, <1>6, <1>9
  <2>2. /\ db' \in DbType /\ db'.status = k.next.status
        /\ \A i \in Steps : db'.rows[i] \in {db.rows[i], "executing"}
    BY <1>0, <1>2, <2>1, BatchApproveEffect
  <2> QED BY <1>0, <1>1, <1>4, <2>1, <2>2, RowsStay
<1>10. ASSUME ~(k.op # "confirm" \/ k.next.status = "cancelled"),
              ~(k.decision = "approve" /\ k.prev.pending = "batch")
       PROVE  db' \in DbType /\ RowsOK'
  <2>1. db' = ApplyStepResult(db, k.prev, k.next, "ok")
    BY <1>1, <1>10
  <2>2. ASSUME StepStatusFor(k.next, "ok") = "completed", k.prev.cursor \in Steps
        PROVE  k.prev.cursor \in approved'
    <3>1. k.next.status # "awaiting_user"
      BY <2>2 DEF StepStatusFor
    <3>2. k.prev.pending # "none"
      BY <1>2, <1>10, <3>1 DEF Decided
    <3>3. passes
      BY <1>2, <1>6, <1>10, <3>2
    <3> QED BY <1>1, <2>2, <3>3
  <2>3. "ok" \in Results
    BY DEF Results
  <2>4. \A i \in Steps : /\ i = k.prev.cursor /\ Gates[i] /\ ~IsRetry(k.prev, k.next)
                         /\ StepStatusFor(k.next, "ok") = "completed"
                         => i \in approved' \cup blurred
    BY <2>2
  <2>5. \A i \in Steps : i <= k.prev.cursor => i \in reported
    BY <1>2, <1>10
  <2> HIDE DEF passes
  <2> QED BY <1>0, <1>1, <1>2, <1>4, <2>1, <2>3, <2>4, <2>5, RowsWritten
<1>11. db' \in DbType /\ RowsOK'
  BY <1>8, <1>9, <1>10
<1>12. CopiesCovered' /\ HandlersOK'
  BY <1>0, <1>1 DEF procVars, CopiesCovered, HandlersOK, ResultFits, Covered
<1> QED BY <1>1, <1>4, <1>5, <1>11, <1>12, StepFacts, StepInvFrom DEF procVars

LEMMA ControlShareKeeps ==
  ASSUME StepInv, NEW k \in calls, ControlShare(k)
  PROVE  StepInv'
<1>0. /\ StepTypeOK /\ CopiesCovered /\ HandlersOK /\ CallsOK /\ RowsOK
      /\ mem \in [Clients -> TaskState \cup {NoTask}]
      /\ calls \subseteq CallType /\ k \in CallType /\ CallFits(k)
  BY StepFacts DEF CallsOK
<1>1. /\ calls' = calls \ {k} /\ ShareState(k.next)
      /\ UNCHANGED <<procVars, db, work, handlers, healed, failures, histVars>>
  BY DEF ControlShare
<1>2. k.next \in TaskState /\ Covered(k.next)
  <2>1. /\ k.prev \in TaskState /\ k.op \in {"pause", "resume", "confirm"}
        /\ k.decision \in {"none", "approve", "skip", "reject"}
    BY <1>0 DEF CallType
  <2> QED BY <1>0, <2>1, DecidedState DEF CallFits
<1>3. /\ mem' \in [Clients -> TaskState \cup {NoTask}]
      /\ \A c \in Clients : mem'[c] \in {mem[c], k.next, NoTask}
  BY <1>0, <1>1, <1>2 DEF ShareState
<1>4. CopiesCovered'
  BY <1>0, <1>1, <1>2, <1>3, CopiesStay DEF procVars, histVars
<1>5. RowsOK'
  BY <1>0, <1>1, RowsStay DEF histVars
<1>6. HandlersOK' /\ CallsOK' /\ calls' \subseteq CallType
  BY <1>0, <1>1 DEF procVars, histVars, HandlersOK, CallsOK, ResultFits, CallFits,
       Covered
<1> QED BY <1>1, <1>3, <1>4, <1>5, <1>6, StepFacts, StepInvFrom DEF procVars, histVars

LEMMA CrashKeeps ==
  ASSUME StepInv, Crash
  PROVE  StepInv'
<1>0. /\ StepTypeOK /\ CopiesCovered /\ RowsOK
  BY StepFacts
<1>1. /\ up' = FALSE /\ conn' = {} /\ bucket' = NoTask
      /\ mem' = [c \in Clients |-> NoTask] /\ handlers' = {} /\ calls' = {}
      /\ UNCHANGED <<boots, db, work, failures, histVars>>
  BY DEF Crash
<1>2. mem' \in [Clients -> TaskState \cup {NoTask}]
  BY <1>1
<1>3. CopiesCovered' /\ HandlersOK' /\ CallsOK'
  BY <1>1 DEF CopiesCovered, HandlersOK, CallsOK
<1>4. RowsOK'
  BY <1>0, <1>1, RowsStay DEF histVars
<1>5. healed' \in [Extensions -> SUBSET Steps]
  BY DEF Crash
<1> QED BY <1>1, <1>2, <1>3, <1>4, <1>5, StepFacts, StepInvFrom DEF histVars

LEMMA BootKeeps ==
  ASSUME StepInv, Boot
  PROVE  StepInv'
<1>0. /\ StepTypeOK /\ CopiesCovered /\ HandlersOK /\ CallsOK /\ RowsOK
      /\ db \in DbType /\ boots \in 0 .. MaxBoots
  BY StepFacts
<1>1. /\ boots < MaxBoots /\ up' = TRUE /\ boots' = boots + 1
      /\ db' = [db EXCEPT !.status = "failed"] \/ db' = db
      /\ bucket' = IF InFlight(db') THEN Rehydrate(db') ELSE NoTask
      /\ UNCHANGED <<conn, mem, work, handlers, healed, calls, failures, histVars>>
  BY DEF Boot
<1>2. /\ db' \in DbType /\ db'.rows = db.rows
      /\ db'.status = "awaiting_user" => db.status = "awaiting_user"
  BY <1>0, <1>1 DEF DbType, TaskStatuses
<1>3. RowsOK'
  BY <1>0, <1>1, <1>2, RowsStay DEF histVars
<1>4. bucket' \in TaskState \cup {NoTask} /\ (bucket' # NoTask => Covered(bucket'))
  <2>1. Rehydrate(db') \in TaskState /\ Covered(Rehydrate(db'))
    BY <1>0, <1>2, RehydratedState, RehydratedIsCovered DEF RowsOK
  <2> QED BY <1>1, <2>1
<1>5. CopiesCovered'
  <2>1. bucket' # NoTask => Covered(bucket)'
    BY <1>1, <1>4 DEF Covered, histVars
  <2> QED BY <1>0, <1>1, <2>1 DEF CopiesCovered, Covered, histVars
<1>6. HandlersOK' /\ CallsOK'
  BY <1>0, <1>1 DEF histVars, HandlersOK, CallsOK, ResultFits, CallFits, Covered
<1>7. boots' \in 0 .. MaxBoots
  BY <1>0, <1>1, Plan
<1> QED BY <1>1, <1>2, <1>3, <1>4, <1>5, <1>6, <1>7, StepFacts, StepInvFrom
     DEF histVars

LEMMA StepInitInv == StepInit => StepInv
<1> SUFFICES ASSUME StepInit PROVE StepInv
  OBVIOUS
<1>1. EmptyRow \in DbType /\ EmptyRow.status = "executing"
      /\ \A i \in Steps : EmptyRow.rows[i] \in {"executing", "pending"}
  BY DEF EmptyRow, DbType, TaskStatuses, Reasons, RowStatuses, Pending, MaxStepRetries
<1>2. StepTypeOK
  <2>1. work \in [Extensions -> [Steps -> 0 .. MaxRuns]] /\ boots \in 0 .. MaxBoots
    BY Plan DEF StepInit
  <2>2. mem \in [Clients -> TaskState \cup {NoTask}]
    BY DEF StepInit
  <2> QED BY <1>1, <2>1, <2>2, StepTaskTypes DEF StepInit
<1>3. CopiesCovered /\ HandlersOK /\ CallsOK
  BY DEF StepInit, CopiesCovered, HandlersOK, CallsOK
<1>4. WaitsOnReported /\ SettledMeansReported /\ GateNeedsItsOwnConfirm
  BY <1>1 DEF StepInit, WaitsOnReported, SettledMeansReported, GateNeedsItsOwnConfirm
<1> QED BY <1>2, <1>3, <1>4 DEF StepInv

LEMMA StepInvNext == StepInv /\ [StepNext]_stepVars => StepInv'
<1> SUFFICES ASSUME StepInv, [StepNext]_stepVars PROVE StepInv'
  OBVIOUS
<1>1. CASE StepNext
  <2>1. CASE ResultStep
    BY <2>1, StepDoneKeeps, HealEndsKeeps, PersistResultKeeps DEF ResultStep
  <2>2. CASE ControlStep
    BY <2>2, ControlLoadKeeps, ControlPersistKeeps, ControlShareKeeps DEF ControlStep
  <2> QED BY <1>1, <2>1, <2>2, CreateKeeps, ConnectKeeps, DisconnectKeeps, CrashKeeps,
             BootKeeps DEF StepNext
<1>2. CASE UNCHANGED stepVars
  BY <1>2 DEF stepVars, procVars, histVars, StepInv, StepTypeOK, CopiesCovered,
       HandlersOK, CallsOK, ResultFits, CallFits, Covered, WaitsOnReported, FirstOpen,
       SettledMeansReported, GateNeedsItsOwnConfirm
<1> QED BY <1>1, <1>2

-----------------------------------------------------------------------------
(* The variables hold values of their types and the invariant above holds, *)
(* for every plan, every set of clients and whatever the bounds.           *)
THEOREM StepTaskInvariant == StepSpec => []StepInv
<1> QED BY StepInitInv, StepInvNext, PTL DEF StepSpec

(* No step row is settled without a report of that step: wherever a state  *)
(* of the task is held, it is not past what was reported, and a boot or a  *)
(* call that recovers one from the rows gets no further than they are.     *)
THEOREM SettledStepsWereReported == StepSpec => []SettledMeansReported
<1>1. StepInv => SettledMeansReported
  BY DEF StepInv
<1> QED BY <1>1, StepTaskInvariant, PTL

(* A gate is passed only by a decision on it, or by an error result that   *)
(* was handled while the task did not execute.                             *)
THEOREM GatesAreConfirmed == StepSpec => []GateNeedsItsOwnConfirm
<1>1. StepInv => GateNeedsItsOwnConfirm
  BY DEF StepInv
<1> QED BY <1>1, StepTaskInvariant, PTL
=============================================================================
