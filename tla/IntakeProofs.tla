---------------------------- MODULE IntakeProofs ----------------------------
(***************************************************************************)
(* Proofs about what a task passes on its way in, the gates of Admission   *)
(* and the queue of TaskQueue: for every set of tasks, calls and users,    *)
(* and every capacity, depth, cap, allowance and rate.                     *)
(***************************************************************************)
EXTENDS Admission, TaskQueue, FiniteSetTheorems, TLAPS

-----------------------------------------------------------------------------
(* TaskQueue                                                               *)

(* What the pacing counter rests on: only finitely many runs are out, and  *)
(* the counter is their number until stop().                               *)
QueueInv ==
  /\ QueueTypeOK
  /\ WaitingOnce
  /\ IsFiniteSet(Outstanding)
  /\ Pacing

(* An empty queue satisfies it.                                            *)
LEMMA InitInv == Init => QueueInv
<1> SUFFICES ASSUME Init PROVE QueueInv
  OBVIOUS
<1>1. Outstanding = {}
  BY DEF Init, QueueInit, Outstanding
<1>2. QueueTypeOK
  <2>1. queue \in Seq(Tasks) /\ overdue \in 0 .. Len(queue)
    <3>1. queue = <<>> /\ overdue = 0  BY DEF Init, QueueInit
    <3>2. <<>> \in Seq(Tasks) /\ Len(<<>>) = 0  OBVIOUS
    <3> QED BY <3>1, <3>2
  <2>2. inFlight \in Nat /\ wake \in Nat /\ stopped \in BOOLEAN
    BY DEF Init, QueueInit
  <2>3. fate \in [Tasks -> Fates]
    BY DEF Init, QueueInit, Fates
  <2> QED BY <2>1, <2>2, <2>3 DEF QueueTypeOK
<1>3. WaitingOnce
  <2>1. queue = <<>> /\ Len(queue) = 0 /\ DOMAIN queue = {}
    BY DEF Init, QueueInit
  <2>2. {t \in Tasks : fate[t] = "queued"} = {}
    BY DEF Init, QueueInit
  <2> QED BY <2>1, <2>2, MaxDepthAssumption DEF WaitingOnce
<1> QED
  BY <1>1, <1>2, <1>3, FS_EmptySet, CapacityAssumption
     DEF QueueInv, Pacing, Init, QueueInit

-----------------------------------------------------------------------------
(* What a call of tryDispatch takes off the queue: a prefix of k entries,  *)
(* and with it the state "queued" of exactly those tasks.                  *)
TakesPrefix(k) ==
  /\ queue' \in Seq(Tasks)
  /\ Len(queue') = Len(queue) - k
  /\ \A i \in 1 .. Len(queue') : queue'[i] = queue[i + k]
  /\ \A t \in Tasks : fate'[t] = "queued"
                        <=> fate[t] = "queued" /\ \A i \in 1 .. k : queue[i] # t

(* The entries that survive the reap.                                      *)
LEMMA KeptIsSuffix ==
  ASSUME QueueTypeOK
  PROVE  /\ Kept \in Seq(Tasks)
         /\ Len(Kept) = Len(queue) - overdue
         /\ \A i \in 1 .. Len(Kept) : Kept[i] = queue[i + overdue]
  BY DEF QueueTypeOK, Kept

(* A call that fires takes the overdue entries and the next one, which it  *)
(* starts.                                                                 *)
LEMMA FiringTakesPrefix ==
  ASSUME QueueTypeOK, Kept # <<>>, DispatchHead
  PROVE  /\ overdue < Len(queue)
         /\ TakesPrefix(overdue + 1)
         /\ fate' \in [Tasks -> Fates]
         /\ \A t \in Tasks : fate'[t] = IF t = queue[overdue + 1] THEN "running"
                                        ELSE IF t \in Expired THEN "expired"
                                        ELSE fate[t]
<1>1. /\ Kept \in Seq(Tasks)
      /\ Len(Kept) = Len(queue) - overdue
      /\ \A i \in 1 .. Len(Kept) : Kept[i] = queue[i + overdue]
  BY KeptIsSuffix
<1>2. Len(Kept) # 0
  BY <1>1
<1>3. overdue < Len(queue)
  BY <1>1, <1>2 DEF QueueTypeOK
<1>4. Head(Kept) = queue[overdue + 1] /\ queue[overdue + 1] \in Tasks
  BY <1>1, <1>2, <1>3 DEF QueueTypeOK
<1>5. /\ queue' \in Seq(Tasks)
      /\ Len(queue') = Len(queue) - (overdue + 1)
      /\ \A i \in 1 .. Len(queue') : queue'[i] = queue[i + (overdue + 1)]
  BY <1>1, <1>2, <1>3 DEF DispatchHead, QueueTypeOK
<1>6. AfterReap \in [Tasks -> Fates]
  BY DEF AfterReap, QueueTypeOK, Fates
<1>7. /\ fate' \in [Tasks -> Fates]
      /\ \A t \in Tasks : fate'[t] = IF t = queue[overdue + 1] THEN "running"
                                     ELSE IF t \in Expired THEN "expired"
                                     ELSE fate[t]
  BY <1>4, <1>6 DEF DispatchHead, AfterReap, Fates
<1>8. ASSUME NEW t \in Tasks
      PROVE  fate'[t] = "queued"
               <=> fate[t] = "queued" /\ \A i \in 1 .. (overdue + 1) : queue[i] # t
  <2>1. (\A i \in 1 .. (overdue + 1) : queue[i] # t)
          <=> t \notin Expired /\ t # queue[overdue + 1]
    BY DEF Expired, QueueTypeOK
  <2> QED BY <1>7, <2>1
<1> QED BY <1>3, <1>5, <1>7, <1>8 DEF TakesPrefix

(* A call that does not fire takes the overdue entries.                    *)
LEMMA ReapingTakesPrefix ==
  ASSUME QueueTypeOK, queue' = Kept, fate' = AfterReap
  PROVE  /\ TakesPrefix(overdue)
         /\ fate' \in [Tasks -> Fates]
         /\ \A t \in Tasks : fate'[t] = IF t \in Expired THEN "expired"
                                        ELSE fate[t]
<1>1. /\ queue' \in Seq(Tasks)
      /\ Len(queue') = Len(queue) - overdue
      /\ \A i \in 1 .. Len(queue') : queue'[i] = queue[i + overdue]
  BY KeptIsSuffix
<1>2. /\ fate' \in [Tasks -> Fates]
      /\ \A t \in Tasks : fate'[t] = IF t \in Expired THEN "expired"
                                     ELSE fate[t]
  BY DEF AfterReap, QueueTypeOK, Fates
<1>3. \A t \in Tasks : t \in Expired <=> \E i \in 1 .. overdue : queue[i] = t
  BY DEF Expired
<1> QED BY <1>1, <1>2, <1>3 DEF TakesPrefix

(* Taking a prefix keeps the rest of the queue exact.                      *)
LEMMA PrefixKeepsWaitingOnce ==
  ASSUME QueueTypeOK, WaitingOnce, NEW k \in 0 .. Len(queue), TakesPrefix(k)
  PROVE  WaitingOnce'
<1>1. DOMAIN queue = 1 .. Len(queue) /\ DOMAIN queue' = 1 .. Len(queue')
  BY DEF QueueTypeOK, TakesPrefix
<1>2. Len(queue) \in Nat /\ Len(queue') \in Nat /\ Len(queue') = Len(queue) - k
  BY DEF QueueTypeOK, TakesPrefix
<1>3. \A i \in 1 .. Len(queue') : queue'[i] = queue[i + k]
  BY DEF TakesPrefix
<1>4. {queue'[i] : i \in DOMAIN queue'} = {t \in Tasks : fate'[t] = "queued"}
  <2>1. ASSUME NEW i \in DOMAIN queue'
        PROVE  queue'[i] \in Tasks /\ fate'[queue'[i]] = "queued"
    <3>1. i + k \in DOMAIN queue /\ queue'[i] = queue[i + k]
      BY <1>1, <1>2, <1>3
    <3>2. queue[i + k] \in Tasks /\ fate[queue[i + k]] = "queued"
      BY <3>1 DEF WaitingOnce
    <3>3. \A j \in 1 .. k : queue[j] # queue[i + k]
      BY <1>1, <1>2, <3>1 DEF WaitingOnce
    <3> QED BY <3>1, <3>2, <3>3 DEF TakesPrefix
  <2>2. ASSUME NEW t \in Tasks, fate'[t] = "queued"
        PROVE  \E i \in DOMAIN queue' : queue'[i] = t
    <3>1. fate[t] = "queued" /\ \A i \in 1 .. k : queue[i] # t
      BY <2>2 DEF TakesPrefix
    <3>2. PICK j \in DOMAIN queue : queue[j] = t
      BY <3>1 DEF WaitingOnce
    <3>3. j - k \in DOMAIN queue' /\ queue'[j - k] = queue[(j - k) + k]
      BY <1>1, <1>2, <1>3, <3>1, <3>2
    <3>4. (j - k) + k = j
      BY <1>1, <1>2
    <3> QED BY <3>2, <3>3, <3>4
  <2> QED BY <2>1, <2>2
<1>5. \A i, j \in DOMAIN queue' : queue'[i] = queue'[j] => i = j
  <2> SUFFICES ASSUME NEW i \in DOMAIN queue', NEW j \in DOMAIN queue',
                      queue'[i] = queue'[j]
               PROVE  i = j
    OBVIOUS
  <2>1. i + k \in DOMAIN queue /\ j + k \in DOMAIN queue
    BY <1>1, <1>2
  <2>2. queue[i + k] = queue[j + k]
    BY <1>1, <1>3
  <2>3. i + k = j + k
    BY <2>1, <2>2 DEF WaitingOnce
  <2> QED BY <1>1, <1>2, <2>3
<1>6. Len(queue') <= MaxDepth
  BY <1>2, MaxDepthAssumption DEF WaitingOnce
<1> QED BY <1>4, <1>5, <1>6 DEF WaitingOnce

-----------------------------------------------------------------------------
(* The type invariant and the exactness of the queue, for the actions that *)
(* do not take entries off it.                                             *)
LEMMA CallerInv ==
  ASSUME QueueTypeOK, WaitingOnce, NEW t \in Tasks,
         Enqueue(t) \/ EnqueueRejected(t) \/ Settle(t) \/ Throw(t)
  PROVE  QueueTypeOK' /\ WaitingOnce'
<1>1. CASE Enqueue(t)
  <2>1. /\ queue' = Append(queue, t)
        /\ \A r \in Tasks : fate'[r] = IF r = t THEN "queued" ELSE fate[r]
        /\ fate[t] = "new"
    BY <1>1 DEF Enqueue, Admit, QueueTypeOK
  <2>2. QueueTypeOK'
    BY <1>1 DEF Enqueue, Admit, QueueTypeOK, Fates
  <2>3. /\ Len(queue) \in Nat
        /\ DOMAIN queue = 1 .. Len(queue)
        /\ DOMAIN queue' = 1 .. (Len(queue) + 1)
        /\ Len(queue') = Len(queue) + 1
        /\ \A i \in 1 .. Len(queue) : queue'[i] = queue[i]
        /\ queue'[Len(queue) + 1] = t
    BY <2>1 DEF QueueTypeOK
  <2>4. t \notin {queue[i] : i \in DOMAIN queue}
    BY <2>1 DEF WaitingOnce
  <2>5. {queue'[i] : i \in DOMAIN queue'} = {queue[i] : i \in DOMAIN queue} \cup {t}
    BY <2>3
  <2>6. {r \in Tasks : fate'[r] = "queued"}
          = {r \in Tasks : fate[r] = "queued"} \cup {t}
    BY <2>1
  <2>7. \A i, j \in DOMAIN queue' : queue'[i] = queue'[j] => i = j
    BY <2>3, <2>4 DEF WaitingOnce
  <2>8. Len(queue') <= MaxDepth
    BY <1>1, <2>3, MaxDepthAssumption DEF Enqueue
  <2> QED BY <2>2, <2>5, <2>6, <2>7, <2>8 DEF WaitingOnce
<1>2. CASE EnqueueRejected(t) \/ Settle(t) \/ Throw(t)
  <2>1. UNCHANGED queue
    BY <1>2 DEF EnqueueRejected, Settle, SignalSlotFreed, Throw
  <2>2. \A r \in Tasks : fate'[r] = "queued" <=> fate[r] = "queued"
    BY <1>2 DEF EnqueueRejected, Settle, Throw, QueueTypeOK
  <2>3. QueueTypeOK'
    BY <1>2 DEF EnqueueRejected, Settle, SignalSlotFreed, Throw, QueueTypeOK,
                Fates
  <2> QED BY <2>1, <2>2, <2>3 DEF WaitingOnce
<1> QED BY <1>1, <1>2

(* The same for a call of tryDispatch.                                     *)
LEMMA DispatchInv ==
  ASSUME QueueTypeOK, WaitingOnce, Microtask \/ Tick
  PROVE  QueueTypeOK' /\ WaitingOnce'
<1>1. TryDispatch /\ wake' \in Nat
  BY DEF Microtask, Tick, QueueTypeOK
<1>2. PICK k \in 0 .. Len(queue) :
        TakesPrefix(k) /\ fate' \in [Tasks -> Fates] /\ inFlight' \in Nat
  <2>1. CASE Fires /\ DispatchHead
    <3>1. /\ overdue < Len(queue)
          /\ TakesPrefix(overdue + 1)
          /\ fate' \in [Tasks -> Fates]
      BY <2>1, FiringTakesPrefix DEF Fires
    <3>2. inFlight' \in Nat
      BY <2>1 DEF DispatchHead, QueueTypeOK
    <3>3. overdue + 1 \in 0 .. Len(queue)
      BY <3>1 DEF QueueTypeOK
    <3> QED BY <3>1, <3>2, <3>3
  <2>2. CASE queue' = Kept /\ fate' = AfterReap /\ UNCHANGED inFlight
    <3>1. TakesPrefix(overdue) /\ fate' \in [Tasks -> Fates]
      BY <2>2, ReapingTakesPrefix
    <3> QED BY <2>2, <3>1 DEF QueueTypeOK
  <2> QED BY <1>1, <2>1, <2>2 DEF TryDispatch
<1>3. QueueTypeOK'
  BY <1>1, <1>2 DEF TryDispatch, TakesPrefix, QueueTypeOK
<1> QED BY <1>2, <1>3, PrefixKeepsWaitingOnce

(* Age and stop leave the queue and the fates alone.                       *)
LEMMA ClockInv ==
  ASSUME QueueTypeOK, WaitingOnce, Age \/ Stop \/ UNCHANGED queueVars
  PROVE  QueueTypeOK' /\ WaitingOnce'
<1>1. UNCHANGED <<queue, fate>>
  BY DEF Age, Stop, queueVars
<1>2. QueueTypeOK'
  <2>1. CASE Age
    BY <2>1 DEF Age, QueueTypeOK
  <2>2. CASE Stop
    BY <2>2 DEF Stop, QueueTypeOK
  <2>3. CASE UNCHANGED queueVars
    BY <2>3 DEF queueVars, QueueTypeOK
  <2> QED BY <2>1, <2>2, <2>3
<1> QED BY <1>1, <1>2 DEF WaitingOnce

-----------------------------------------------------------------------------
(* A settled run leaves, and the counter goes down with it, unless the     *)
(* queue is stopped.                                                       *)
LEMMA SettlePacing ==
  ASSUME QueueTypeOK, IsFiniteSet(Outstanding), Pacing,
         NEW t \in Tasks, Settle(t)
  PROVE  IsFiniteSet(Outstanding)' /\ Pacing'
<1>1. t \in Outstanding /\ Outstanding' = Outstanding \ {t}
  BY DEF Settle, Outstanding, QueueTypeOK
<1>2. /\ IsFiniteSet(Outstanding')
      /\ Cardinality(Outstanding') = Cardinality(Outstanding) - 1
  BY <1>1, FS_RemoveElement
<1>3. Cardinality(Outstanding) \in Nat /\ Cardinality(Outstanding') \in Nat
  BY <1>2, FS_CardinalityType
<1>4. CASE ~stopped
  BY <1>2, <1>3, <1>4, CapacityAssumption DEF Pacing, Settle, SignalSlotFreed
<1>5. CASE stopped
  BY <1>2, <1>5 DEF Pacing, Settle, SignalSlotFreed
<1> QED BY <1>4, <1>5

(* A dispatched run is counted once, below the ceiling; a dropped entry    *)
(* was never counted.                                                      *)
LEMMA DispatchPacing ==
  ASSUME QueueInv, TryDispatch
  PROVE  IsFiniteSet(Outstanding)' /\ Pacing'
<1> USE DEF QueueInv
<1>1. \A r \in Expired : r \in Tasks /\ fate[r] = "queued"
  BY DEF Expired, WaitingOnce, QueueTypeOK
<1>2. CASE Fires /\ DispatchHead
  <2> DEFINE h == queue[overdue + 1]
  <2>1. /\ overdue < Len(queue)
        /\ \A t \in Tasks : fate'[t] = IF t = h THEN "running"
                                       ELSE IF t \in Expired THEN "expired"
                                       ELSE fate[t]
    BY <1>2, FiringTakesPrefix DEF Fires
  <2>2. h \in Tasks /\ fate[h] = "queued"
    BY <2>1 DEF WaitingOnce, QueueTypeOK
  <2>3. h \notin Outstanding /\ Outstanding' = Outstanding \cup {h}
    BY <1>1, <2>1, <2>2 DEF Outstanding
  <2>4. /\ IsFiniteSet(Outstanding')
        /\ Cardinality(Outstanding') = Cardinality(Outstanding) + 1
    BY <2>3, FS_AddElement
  <2>5. inFlight' = inFlight + 1 /\ inFlight < Capacity /\ ~stopped
    BY <1>2 DEF Fires, DispatchHead, TryDispatch
  <2> QED BY <2>4, <2>5, CapacityAssumption DEF Pacing, QueueTypeOK
<1>3. CASE queue' = Kept /\ fate' = AfterReap /\ UNCHANGED inFlight
  <2>1. \A t \in Tasks : fate'[t] = IF t \in Expired THEN "expired" ELSE fate[t]
    BY <1>3, ReapingTakesPrefix
  <2>2. Outstanding' = Outstanding
    BY <1>1, <2>1 DEF Outstanding
  <2> QED BY <1>3, <2>2 DEF Pacing, TryDispatch
<1> QED BY <1>2, <1>3 DEF TryDispatch

(* QueueInv is inductive.                                                  *)
LEMMA NextInv == QueueInv /\ [Next]_vars => QueueInv'
<1> SUFFICES ASSUME QueueInv, [Next]_vars PROVE QueueInv'
  OBVIOUS
<1> USE DEF QueueInv
<1>1. ASSUME NEW t \in Tasks, Enqueue(t) \/ EnqueueRejected(t) \/ Throw(t)
      PROVE  QueueInv'
  <2>1. QueueTypeOK' /\ WaitingOnce'
    BY <1>1, CallerInv
  <2>2. Outstanding' = Outstanding
    BY <1>1 DEF Enqueue, Admit, EnqueueRejected, Throw, Outstanding,
                QueueTypeOK
  <2>3. UNCHANGED <<inFlight, stopped>>
    BY <1>1 DEF Enqueue, Admit, EnqueueRejected, Throw
  <2> QED BY <2>1, <2>2, <2>3 DEF Pacing
<1>2. ASSUME NEW t \in Tasks, Settle(t)
      PROVE  QueueInv'
  BY <1>2, CallerInv, SettlePacing
<1>3. CASE Microtask \/ Tick
  <2>1. TryDispatch
    BY <1>3 DEF Microtask, Tick
  <2> QED BY <1>3, <2>1, DispatchInv, DispatchPacing
<1>4. CASE Age \/ Stop \/ UNCHANGED queueVars
  <2>1. UNCHANGED <<inFlight, fate>> /\ (stopped' \/ UNCHANGED stopped)
    BY <1>4 DEF Age, Stop, queueVars
  <2>2. Outstanding' = Outstanding
    BY <2>1 DEF Outstanding
  <2> QED BY <1>4, <2>1, <2>2, ClockInv DEF Pacing
<1>5. UNCHANGED vars => UNCHANGED queueVars
  BY DEF vars, queueVars
<1> QED
  BY <1>1, <1>2, <1>3, <1>4, <1>5 DEF Next, QueueStep, PoolMoves

(* The inductive invariant holds in every reachable state.                 *)
THEOREM QueueInvariant == Spec => []QueueInv
  BY InitInv, NextInv, PTL DEF Spec

(* Type correctness.                                                       *)
THEOREM QueueTypeCorrect == Spec => []QueueTypeOK
  BY QueueInvariant, PTL DEF QueueInv

(* Until stop() the counter is the number of runs that are out and never   *)
(* exceeds the ceiling, whatever the pool predicate answers.               *)
THEOREM PacingIsExact == Spec => []Pacing
  BY QueueInvariant, PTL DEF QueueInv

(* The queue is exactly the waiting tasks, each once.                      *)
THEOREM QueueIsExact == Spec => []WaitingOnce
  BY QueueInvariant, PTL DEF QueueInv

-----------------------------------------------------------------------------
(* Only the entry behind the overdue ones is ever started.                 *)
LEMMA StepIsFifo ==
  ASSUME QueueInv, [Next]_vars,
         NEW i \in DOMAIN queue, NEW j \in DOMAIN queue,
         i < j, fate'[queue[j]] = "running"
  PROVE  fate'[queue[i]] # "queued"
<1> USE DEF QueueInv
<1>1. /\ queue[i] \in Tasks /\ fate[queue[i]] = "queued"
      /\ queue[j] \in Tasks /\ fate[queue[j]] = "queued"
  BY DEF WaitingOnce
<1>2. TryDispatch
  <2>1. ASSUME NEW t \in Tasks,
               Enqueue(t) \/ EnqueueRejected(t) \/ Settle(t) \/ Throw(t)
        PROVE  FALSE
    BY <1>1, <2>1
       DEF Enqueue, Admit, EnqueueRejected, Settle, Throw, QueueTypeOK
  <2>2. ~ (Age \/ Stop \/ PoolMoves \/ UNCHANGED vars)
    BY <1>1 DEF Age, Stop, PoolMoves, queueVars, vars
  <2> QED BY <2>1, <2>2 DEF Next, QueueStep, Microtask, Tick
<1>3. CASE Fires /\ DispatchHead
  <2>1. /\ overdue < Len(queue)
        /\ \A t \in Tasks : fate'[t] = IF t = queue[overdue + 1] THEN "running"
                                       ELSE IF t \in Expired THEN "expired"
                                       ELSE fate[t]
    BY <1>3, FiringTakesPrefix DEF Fires
  <2>2. queue[j] = queue[overdue + 1]
    BY <1>1, <2>1
  <2>3. j = overdue + 1
    BY <2>1, <2>2 DEF WaitingOnce, QueueTypeOK
  <2>4. queue[i] \in Expired
    BY <2>3 DEF Expired, QueueTypeOK
  <2> QED BY <1>1, <2>1, <2>4
<1>4. CASE queue' = Kept /\ fate' = AfterReap /\ UNCHANGED inFlight
  BY <1>1, <1>4, ReapingTakesPrefix
<1> QED BY <1>2, <1>3, <1>4 DEF TryDispatch

(* No task is ever started while an earlier one keeps waiting.             *)
THEOREM QueueIsFifo == Spec => Fifo
<1> DEFINE A == \A i, j \in DOMAIN queue :
                  i < j /\ fate'[queue[j]] = "running"
                    => fate'[queue[i]] # "queued"
<1>1. QueueInv /\ [Next]_vars => [A]_vars
  BY StepIsFifo
<1> QED BY <1>1, QueueInvariant, PTL DEF Spec, Fifo

-----------------------------------------------------------------------------
(* Admission                                                               *)

Stands == {"idle", "depth", "cap", "row", "bonus", "regular", "insert", "done",
           "refused"}
CallType == [at: Stands, user: Users, follow: BOOLEAN, pool: Pools,
             period: 0 .. MaxPeriods]
Counters == [used: Nat, bonus: Int]

AdmissionTypeOK ==
  /\ call \in [Calls -> CallType]
  /\ row \in [Calls -> Active \cup {"none", "ended"}]
  /\ writes \subseteq [task: Calls, to: Active] /\ revived \subseteq Calls
  /\ quota \in [0 .. MaxPeriods -> [Pools -> Counters]]
  /\ period \in 0 .. MaxPeriods
  /\ hits \in [Bypass -> SUBSET Calls]
  /\ stamp \in [Calls -> Nat]
  /\ granted \in Nat /\ time \in Nat
  /\ overlapped \subseteq Users
  /\ admitted \in [Bypass -> SUBSET Calls]

(* The rows a user has, without those a late write brought back, and those *)
(* his calls past the gate will insert.                                    *)
Reserved(u) == (ActiveOf(u) \ revived) \cup PastGate(u)

RowsComeFromInserts ==
  /\ \A c \in Calls : row[c] # "none" => call[c].at = "done"
  /\ \A w \in writes : row[w.task] # "none"

CapReserved ==
  \A u \in Users \ overlapped : Cardinality(Reserved(u)) <= Cap[u]

(* The bucket of the rate limit has forgotten nothing of its window, and a *)
(* call is stamped once.                                                   *)
BucketIsTheWindow ==
  /\ \A u \in Bypass : \A c \in admitted[u] :
       /\ stamp[c] <= time
       /\ call[c].at \notin {"idle", "depth", "cap"}
       /\ stamp[c] >= time - Window => c \in hits[u]
  /\ RateHeld

AdmissionInv ==
  /\ AdmissionTypeOK
  /\ RowsComeFromInserts /\ CapReserved
  /\ BucketIsTheWindow

LEMMA Bounds ==
  /\ TaskLimit \in Nat /\ OpusLimit \in Nat /\ RateMax \in Nat /\ Window \in Nat
  /\ MaxPeriods \in Nat /\ MaxGrants \in Nat /\ MaxTime \in Nat
  /\ Cap \in [Users -> Nat] /\ Depth \in Nat /\ Bypass \subseteq Users
BY AdmissionAssumption

-----------------------------------------------------------------------------
(* Types.                                                                  *)

LEMMA AdmissionInitInv == AdmissionInit => AdmissionInv
<1> SUFFICES ASSUME AdmissionInit PROVE AdmissionInv
  OBVIOUS
<1>1. Idle \in CallType /\ Idle.at = "idle"
  BY AdmissionAssumption DEF Idle, CallType, Stands, Pools
<1>2. AdmissionTypeOK
  <2>1. quota \in [0 .. MaxPeriods -> [Pools -> Counters]]
    BY DEF AdmissionInit, Counters
  <2>2. call \in [Calls -> CallType] /\ row \in [Calls -> Active \cup {"none", "ended"}]
         /\ writes = {} /\ revived = {}
    BY <1>1 DEF AdmissionInit
  <2>3. /\ period \in 0 .. MaxPeriods /\ granted \in Nat /\ time \in Nat
        /\ overlapped \subseteq Users
    BY Bounds DEF AdmissionInit
  <2>4. /\ hits \in [Bypass -> SUBSET Calls] /\ admitted \in [Bypass -> SUBSET Calls]
        /\ stamp \in [Calls -> Nat]
    BY DEF AdmissionInit
  <2> QED BY <2>1, <2>2, <2>3, <2>4 DEF AdmissionTypeOK
<1>4. RowsComeFromInserts
  BY DEF AdmissionInit, RowsComeFromInserts
<1>5. CapReserved
  <2>1. \A u \in Users : Reserved(u) = {}
    BY <1>1 DEF AdmissionInit, Reserved, ActiveOf, PastGate, Active
  <2>2. \A u \in Users : Cardinality(Reserved(u)) = 0
    BY <2>1, FS_EmptySet
  <2> QED BY <2>2, Bounds DEF CapReserved
<1>6. BucketIsTheWindow
  <2>1. ASSUME NEW u \in Bypass, NEW start \in 0 .. time PROVE InWindow(u, start) = {}
    BY DEF AdmissionInit, InWindow
  <2>2. RateHeld
    BY <2>1, FS_EmptySet, Bounds DEF RateHeld
  <2> QED BY <2>2 DEF AdmissionInit, BucketIsTheWindow
<1> QED BY <1>2, <1>4, <1>5, <1>6 DEF AdmissionInv

LEMMA MovedCall ==
  ASSUME NEW q \in CallType, NEW to \in Stands
  PROVE  /\ [q EXCEPT !.at = to] \in CallType
         /\ [q EXCEPT !.at = to].at = to /\ [q EXCEPT !.at = to].user = q.user
BY DEF CallType

LEMMA CallGoes ==
  ASSUME AdmissionTypeOK, NEW c \in Calls, NEW to \in Stands, Goes(c, to)
  PROVE  /\ call' \in [Calls -> CallType]
         /\ call'[c].at = to /\ call'[c].user = call[c].user
         /\ \A d \in Calls \ {c} : call'[d] = call[d]
<1>1. call' = [call EXCEPT ![c] = [call[c] EXCEPT !.at = to]]
  BY DEF Goes
<1>2. call[c] \in CallType /\ call \in [Calls -> CallType]
  BY DEF AdmissionTypeOK
<1> QED BY <1>1, <1>2, MovedCall

(* What the steps before and after the gates do to the calls.              *)
Steps(c) ==
  /\ call' \in [Calls -> CallType]
  /\ \A d \in Calls \ {c} : call'[d] = call[d]

(* An UPDATE of one counter of one period.                                 *)
LEMMA NestedUpdate ==
  ASSUME NEW P, NEW K, NEW V, NEW f \in [P -> [K -> V]],
         NEW p \in P, NEW k \in K, NEW v \in V
  PROVE  /\ [f EXCEPT ![p][k] = v] \in [P -> [K -> V]]
         /\ \A q \in P, j \in K :
              [f EXCEPT ![p][k] = v][q][j] = IF q = p /\ j = k THEN v ELSE f[q][j]
<1> DEFINE g == [f[p] EXCEPT ![k] = v]
<1>1. [f EXCEPT ![p][k] = v] = [f EXCEPT ![p] = g]
  OBVIOUS
<1>2. g \in [K -> V] /\ \A j \in K : g[j] = IF j = k THEN v ELSE f[p][j]
  OBVIOUS
<1> HIDE DEF g
<1>3. [f EXCEPT ![p] = g] \in [P -> [K -> V]]
  BY <1>2
<1>4. \A q \in P : [f EXCEPT ![p] = g][q] = IF q = p THEN g ELSE f[q]
  OBVIOUS
<1> QED BY <1>1, <1>2, <1>3, <1>4

LEMMA QuotaUpdate ==
  ASSUME AdmissionTypeOK, NEW p \in 0 .. MaxPeriods, NEW k \in Pools, NEW v \in Counters,
         quota' = [quota EXCEPT ![p][k] = v]
  PROVE  /\ quota' \in [0 .. MaxPeriods -> [Pools -> Counters]]
         /\ \A q \in 0 .. MaxPeriods, j \in Pools :
              quota'[q][j] = IF q = p /\ j = k THEN v ELSE quota[q][j]
<1>1. quota \in [0 .. MaxPeriods -> [Pools -> Counters]]
  BY DEF AdmissionTypeOK
<1> QED BY <1>1, NestedUpdate

(* A burn goes to its second outcome: the code never sees the row count.   *)
LEMMA BurnEffect ==
  ASSUME AdmissionTypeOK, NEW c \in Calls, NEW refusedTo \in CallType,
         call' = [call EXCEPT ![c] = refusedTo]
  PROVE  Steps(c) /\ call'[c] = refusedTo
BY DEF Steps, AdmissionTypeOK

LEMMA CounterTypes ==
  ASSUME AdmissionTypeOK, NEW c \in Calls
  PROVE  /\ CounterOf(c) \in Counters
         /\ call[c].period \in 0 .. MaxPeriods /\ call[c].pool \in Pools
         /\ [CounterOf(c) EXCEPT !.bonus = @ - 1] \in Counters
         /\ [CounterOf(c) EXCEPT !.used = @ + 1] \in Counters
         /\ [CounterOf(c) EXCEPT !.bonus = @ - 1].used = CounterOf(c).used
         /\ [CounterOf(c) EXCEPT !.bonus = @ - 1].bonus = CounterOf(c).bonus - 1
         /\ [CounterOf(c) EXCEPT !.used = @ + 1].used = CounterOf(c).used + 1
         /\ [CounterOf(c) EXCEPT !.used = @ + 1].bonus = CounterOf(c).bonus
<1>1. call[c] \in CallType
  BY DEF AdmissionTypeOK
<1>2. call[c].period \in 0 .. MaxPeriods /\ call[c].pool \in Pools
  BY <1>1 DEF CallType
<1>3. CounterOf(c) \in Counters
  BY <1>2 DEF AdmissionTypeOK, CounterOf
<1> QED BY <1>2, <1>3 DEF Counters

LEMMA BonusEffect ==
  ASSUME AdmissionTypeOK, NEW c \in Calls, BurnBonus(c)
  PROVE  /\ Steps(c) /\ call[c].at = "bonus" /\ call'[c].at = "regular"
         /\ call'[c].user = call[c].user
         /\ \/ UNCHANGED quota
            \/ /\ CounterOf(c).bonus > 0
               /\ quota' = [quota EXCEPT ![call[c].period][call[c].pool] =
                              [CounterOf(c) EXCEPT !.bonus = @ - 1]]
         /\ quota' \in [0 .. MaxPeriods -> [Pools -> Counters]]
         /\ UNCHANGED <<rowVars, period, gateVars, granted, time, overlapped>>
<1> DEFINE to  == [call[c] EXCEPT !.at = "regular"]
           new == [CounterOf(c) EXCEPT !.bonus = @ - 1]
<1>1. call[c] \in CallType
  BY DEF AdmissionTypeOK
<1>2. to \in CallType /\ to.at = "regular" /\ to.user = call[c].user
  BY <1>1, MovedCall DEF Stands
<1>3. /\ new \in Counters
      /\ call[c].period \in 0 .. MaxPeriods /\ call[c].pool \in Pools
  BY CounterTypes
<1>4. call' = [call EXCEPT ![c] = to]
  BY DEF BurnBonus, Burn, AffectedRowsRead
<1>5. \/ UNCHANGED quota
      \/ /\ CounterOf(c).bonus > 0
         /\ quota' = [quota EXCEPT ![call[c].period][call[c].pool] = new]
  BY DEF BurnBonus, Burn
<1>6. /\ call[c].at = "bonus"
      /\ UNCHANGED <<rowVars, period, gateVars, granted, time, overlapped>>
  BY DEF BurnBonus, Burn
<1>7. ASSUME to \in CallType, to.at = "regular", to.user = call[c].user
      PROVE  Steps(c) /\ call'[c].at = "regular" /\ call'[c].user = call[c].user
  <2> HIDE DEF to
  <2> QED BY <1>4, <1>7, BurnEffect
<1>8. quota' \in [0 .. MaxPeriods -> [Pools -> Counters]]
  <2> HIDE DEF new
  <2>1. CASE UNCHANGED quota BY <2>1 DEF AdmissionTypeOK
  <2>2. CASE quota' = [quota EXCEPT ![call[c].period][call[c].pool] = new]
    BY <1>3, <2>2, QuotaUpdate
  <2> QED BY <1>5, <2>1, <2>2
<1> QED BY <1>2, <1>5, <1>6, <1>7, <1>8

LEMMA RegularEffect ==
  ASSUME AdmissionTypeOK, NEW c \in Calls, BurnRegular(c)
  PROVE  /\ Steps(c) /\ call[c].at = "regular" /\ call'[c].at \in {"row", "refused"}
         /\ call'[c].user = call[c].user
         /\ \/ UNCHANGED quota
            \/ /\ CounterOf(c).used < Limit[call[c].pool]
               /\ quota' = [quota EXCEPT ![call[c].period][call[c].pool] =
                              [CounterOf(c) EXCEPT !.used = @ + 1]]
         /\ quota' \in [0 .. MaxPeriods -> [Pools -> Counters]]
         /\ UNCHANGED <<rowVars, period, gateVars, granted, time, overlapped>>
<1> DEFINE to  == IF call[c].pool = "opus"
                  THEN [call[c] EXCEPT !.at = "row", !.pool = "tasks"]
                  ELSE [call[c] EXCEPT !.at = "refused"]
           new == [CounterOf(c) EXCEPT !.used = @ + 1]
<1>1. call[c] \in CallType
  BY DEF AdmissionTypeOK
<1>2. to \in CallType /\ to.at \in {"row", "refused"} /\ to.user = call[c].user
  <2>1. /\ [call[c] EXCEPT !.at = "refused"] \in CallType
        /\ [call[c] EXCEPT !.at = "refused"].at = "refused"
        /\ [call[c] EXCEPT !.at = "refused"].user = call[c].user
    BY <1>1, MovedCall DEF Stands
  <2>2. /\ [call[c] EXCEPT !.at = "row", !.pool = "tasks"] \in CallType
        /\ [call[c] EXCEPT !.at = "row", !.pool = "tasks"].at = "row"
        /\ [call[c] EXCEPT !.at = "row", !.pool = "tasks"].user = call[c].user
    BY <1>1 DEF CallType, Stands, Pools
  <2> QED BY <2>1, <2>2
<1>3. /\ new \in Counters
      /\ call[c].period \in 0 .. MaxPeriods /\ call[c].pool \in Pools
  BY CounterTypes
<1>4. call' = [call EXCEPT ![c] = to]
  BY DEF BurnRegular, Burn, AffectedRowsRead
<1>5. \/ UNCHANGED quota
      \/ /\ CounterOf(c).used < Limit[call[c].pool]
         /\ quota' = [quota EXCEPT ![call[c].period][call[c].pool] = new]
  BY DEF BurnRegular, Burn, Below
<1>6. /\ call[c].at = "regular"
      /\ UNCHANGED <<rowVars, period, gateVars, granted, time, overlapped>>
  BY DEF BurnRegular, Burn
<1>7. ASSUME to \in CallType, to.at \in {"row", "refused"}, to.user = call[c].user
      PROVE  /\ Steps(c) /\ call'[c].at \in {"row", "refused"}
             /\ call'[c].user = call[c].user
  <2> HIDE DEF to
  <2> QED BY <1>4, <1>7, BurnEffect
<1>8. quota' \in [0 .. MaxPeriods -> [Pools -> Counters]]
  <2> HIDE DEF new
  <2>1. CASE UNCHANGED quota BY <2>1 DEF AdmissionTypeOK
  <2>2. CASE quota' = [quota EXCEPT ![call[c].period][call[c].pool] = new]
    BY <1>3, <2>2, QuotaUpdate
  <2> QED BY <1>5, <2>1, <2>2
<1> QED BY <1>2, <1>5, <1>6, <1>7, <1>8

LEMMA BeginEffect ==
  ASSUME AdmissionTypeOK, NEW c \in Calls, NEW u \in Users, NEW follow \in BOOLEAN,
         NEW pool \in Pools, Begin(c, u, follow, pool)
  PROVE  /\ Steps(c) /\ call[c].at = "idle" /\ call'[c].at = "depth"
         /\ UNCHANGED <<rowVars, quota, period, gateVars, granted, time, overlapped>>
<1> DEFINE new == [at |-> "depth", user |-> u, follow |-> follow, pool |-> pool,
                   period |-> 0]
<1>1. new \in CallType /\ new.at = "depth"
  BY Bounds DEF CallType, Stands
<1>2. call' = [call EXCEPT ![c] = new]
  BY DEF Begin
<1> HIDE DEF new
<1> QED BY <1>1, <1>2 DEF Begin, Steps, AdmissionTypeOK

LEMMA QuotaRowEffect ==
  ASSUME AdmissionTypeOK, NEW c \in Calls, QuotaRow(c)
  PROVE  /\ Steps(c) /\ call[c].at = "row" /\ call'[c].at = "bonus"
         /\ call'[c].user = call[c].user
         /\ UNCHANGED <<rowVars, quota, period, gateVars, granted, time, overlapped>>
<1> DEFINE new == [call[c] EXCEPT !.at = "bonus", !.period = period]
<1>1. call[c] \in CallType /\ period \in 0 .. MaxPeriods
  BY DEF AdmissionTypeOK
<1>2. new \in CallType /\ new.at = "bonus" /\ new.user = call[c].user
  BY <1>1 DEF CallType, Stands
<1>3. call' = [call EXCEPT ![c] = new]
  BY DEF QuotaRow
<1> HIDE DEF new
<1> QED BY <1>2, <1>3 DEF QuotaRow, Steps, AdmissionTypeOK

(* The gate, as its three outcomes.                                        *)
Passes(c) ==
  /\ ActiveCount(call[c].user) < Cap[call[c].user]
  /\ call[c].user \in Bypass => Cardinality(Pruned(hits[call[c].user])) < RateMax

LEMMA GateEffect ==
  ASSUME AdmissionTypeOK, NEW c \in Calls, CapGate(c)
  PROVE  /\ Steps(c) /\ call[c].at = "cap" /\ call[c].user \in Users
         /\ call'[c].at \in IF Passes(c) THEN {"insert", "row"} ELSE {"refused"}
         /\ call'[c].user = call[c].user
         /\ \/ /\ call[c].user \in Bypass /\ Passes(c)
               /\ hits' = [hits EXCEPT ![call[c].user] =
                             Pruned(hits[call[c].user]) \cup {c}]
               /\ stamp' = [stamp EXCEPT ![c] = time]
               /\ admitted' = [admitted EXCEPT ![call[c].user] = @ \cup {c}]
            \/ /\ call[c].user \in Bypass
               /\ hits' = [hits EXCEPT ![call[c].user] = Pruned(hits[call[c].user])]
               /\ UNCHANGED <<stamp, admitted>>
            \/ UNCHANGED <<hits, stamp, admitted>>
         /\ overlapped' = IF Passes(c) /\ PastGate(call[c].user) # {}
                          THEN overlapped \cup {call[c].user} ELSE overlapped
         /\ UNCHANGED <<rowVars, quota, period, granted, time>>
<1>1. call[c] \in CallType /\ call[c].user \in Users
  BY DEF AdmissionTypeOK, CallType
<1>2. PICK to \in IF Passes(c) THEN {"insert", "row"} ELSE {"refused"} : Goes(c, to)
  BY DEF CapGate, Passes
<1>3. to \in Stands
  BY DEF Stands
<1>4. Steps(c) /\ call'[c].at = to /\ call'[c].user = call[c].user
  BY <1>2, <1>3, CallGoes DEF Steps
<1> QED BY <1>1, <1>2, <1>4 DEF CapGate, Passes

LEMMA AdmissionTypes ==
  ASSUME AdmissionTypeOK, AdmissionNext
  PROVE  AdmissionTypeOK'
<1>1. ASSUME NEW c \in Calls, Steps(c), UNCHANGED <<rowVars, period, gateVars, granted, time, overlapped>>,
             quota' \in [0 .. MaxPeriods -> [Pools -> Counters]]
      PROVE  AdmissionTypeOK'
  BY <1>1 DEF AdmissionTypeOK, gateVars, rowVars, Steps
<1>2. ASSUME NEW c \in Calls, NEW u \in Users, NEW follow \in BOOLEAN, NEW pool \in Pools,
             Begin(c, u, follow, pool)
      PROVE  AdmissionTypeOK'
  BY <1>1, <1>2, BeginEffect DEF AdmissionTypeOK
<1>3. ASSUME NEW c \in Calls, DepthGate(c) PROVE AdmissionTypeOK'
  <2>1. Steps(c)
    BY <1>3, CallGoes DEF DepthGate, Steps, Stands
  <2> QED BY <1>1, <1>3, <2>1 DEF DepthGate, AdmissionTypeOK
<1>4. ASSUME NEW c \in Calls, CapGate(c) PROVE AdmissionTypeOK'
  <2> DEFINE u == call[c].user
             bucket == Pruned(hits[u])
  <2>1. u \in Users /\ (u \in Bypass => bucket \subseteq Calls)
    BY <1>4, GateEffect DEF Pruned, AdmissionTypeOK
  <2>2. \/ /\ u \in Bypass /\ hits' = [hits EXCEPT ![u] = bucket \cup {c}]
           /\ stamp' = [stamp EXCEPT ![c] = time]
           /\ admitted' = [admitted EXCEPT ![u] = @ \cup {c}]
        \/ /\ u \in Bypass /\ hits' = [hits EXCEPT ![u] = bucket]
           /\ UNCHANGED <<stamp, admitted>>
        \/ UNCHANGED <<hits, stamp, admitted>>
    BY <1>4, GateEffect
  <2>3. overlapped' = overlapped \/ overlapped' = overlapped \cup {u}
    BY <1>4, GateEffect
  <2>4. Steps(c) /\ UNCHANGED <<rowVars, quota, period, granted, time>>
    BY <1>4, GateEffect
  <2> HIDE DEF u, bucket
  <2>5. hits' \in [Bypass -> SUBSET Calls] /\ admitted' \in [Bypass -> SUBSET Calls]
    BY <2>1, <2>2 DEF AdmissionTypeOK
  <2>6. stamp' \in [Calls -> Nat] /\ overlapped' \subseteq Users
    BY <2>1, <2>2, <2>3 DEF AdmissionTypeOK
  <2> QED BY <2>4, <2>5, <2>6 DEF AdmissionTypeOK, Steps, rowVars
<1>5. ASSUME NEW c \in Calls, QuotaRow(c) PROVE AdmissionTypeOK'
  BY <1>1, <1>5, QuotaRowEffect DEF AdmissionTypeOK
<1>6. ASSUME NEW c \in Calls, BurnBonus(c) PROVE AdmissionTypeOK'
  BY <1>1, <1>6, BonusEffect
<1>7. ASSUME NEW c \in Calls, BurnRegular(c) PROVE AdmissionTypeOK'
  BY <1>1, <1>7, RegularEffect
<1>8. ASSUME NEW c \in Calls, NEW status \in {"queued", "executing"}, Insert(c, status)
      PROVE  AdmissionTypeOK'
  <2>1. Steps(c)
    BY <1>8, CallGoes DEF Insert, Steps, Stands
  <2> QED BY <1>8, <2>1 DEF Insert, AdmissionTypeOK, Steps, gateVars, Active
<1>9. ASSUME NEW c \in Calls,
             \/ RowEnds(c)
             \/ \E to \in {"paused", "executing", "awaiting_user"} : HandlerReads(c, to)
      PROVE  AdmissionTypeOK'
  <2>1. CASE RowEnds(c)
    BY <2>1 DEF RowEnds, AdmissionTypeOK, gateVars
  <2>2. ASSUME NEW to \in {"paused", "executing", "awaiting_user"}, HandlerReads(c, to)
        PROVE  AdmissionTypeOK'
    <3>1. [task |-> c, to |-> to] \in [task: Calls, to: Active]
      BY DEF Active
    <3> QED BY <2>2, <3>1 DEF HandlerReads, AdmissionTypeOK, gateVars
  <2> QED BY <1>9, <2>1, <2>2
<1>12. ASSUME NEW w \in writes, HandlerWrites(w) PROVE AdmissionTypeOK'
  <2>1. w \in [task: Calls, to: Active]
    BY DEF AdmissionTypeOK
  <2> QED BY <1>12, <2>1 DEF HandlerWrites, AdmissionTypeOK, gateVars, rowVars
<1>10. ASSUME NEW pool \in Pools, Grant(pool) PROVE AdmissionTypeOK'
  <2> DEFINE new == [quota[period][pool] EXCEPT !.bonus = @ + 1]
  <2>0. period \in 0 .. MaxPeriods /\ quota[period][pool] \in Counters
    BY DEF AdmissionTypeOK
  <2>1. new \in Counters
    BY <2>0 DEF Counters
  <2>2. quota' = [quota EXCEPT ![period][pool] = new]
    BY <1>10 DEF Grant
  <2> HIDE DEF new
  <2>3. quota' \in [0 .. MaxPeriods -> [Pools -> Counters]]
    BY <2>0, <2>1, <2>2, QuotaUpdate
  <2> QED BY <1>10, <2>3 DEF Grant, AdmissionTypeOK, gateVars, rowVars
<1>11. CASE NewPeriod \/ ClockTicks
  BY <1>11, Bounds DEF NewPeriod, ClockTicks, AdmissionTypeOK, gateVars, rowVars
<1> QED BY <1>2, <1>3, <1>4, <1>5, <1>6, <1>7, <1>8, <1>9, <1>10, <1>11, <1>12 DEF AdmissionNext

-----------------------------------------------------------------------------
(* The concurrency cap.                                                    *)

LEMMA ReservedFinite ==
  ASSUME NEW u
  PROVE  /\ IsFiniteSet(Reserved(u)) /\ Cardinality(Reserved(u)) \in Nat
         /\ IsFiniteSet(ActiveOf(u)) /\ Cardinality(ActiveOf(u)) \in Nat
         /\ IsFiniteSet(Reserved(u)') /\ Cardinality(Reserved(u)') \in Nat
         /\ ActiveOf(u) \ revived \subseteq Reserved(u)
<1>1. Reserved(u) \subseteq Calls /\ ActiveOf(u) \subseteq Calls /\ Reserved(u)' \subseteq Calls
  BY DEF Reserved, ActiveOf, PastGate
<1>2. IsFiniteSet(Calls)
  BY AdmissionAssumption
<1>3. IsFiniteSet(Reserved(u)) /\ IsFiniteSet(ActiveOf(u)) /\ IsFiniteSet(Reserved(u)')
  BY <1>1, <1>2, FS_Subset
<1> QED BY <1>3, FS_CardinalityType DEF Reserved

LEMMA ReservedShrinks ==
  ASSUME CapReserved, overlapped \subseteq overlapped',
         \A u \in Users \ overlapped' : Reserved(u)' \subseteq Reserved(u)
  PROVE  CapReserved'
<1> SUFFICES ASSUME NEW u \in Users \ overlapped'
             PROVE  Cardinality(Reserved(u)') <= Cap[u]
  BY DEF CapReserved
<1>1. Cardinality(Reserved(u)) <= Cap[u] /\ Cap[u] \in Nat
  BY Bounds DEF CapReserved
<1>2. Cardinality(Reserved(u)') <= Cardinality(Reserved(u))
  BY ReservedFinite, FS_Subset
<1> QED BY <1>1, <1>2, ReservedFinite

Past == {"row", "bonus", "regular", "insert"}

(* A call that moves but does not pass the gate reserves nothing.          *)
LEMMA CallReservesNothing ==
  ASSUME RowsComeFromInserts, CapReserved, NEW c \in Calls, Steps(c),
         call[c].at # "done", call'[c].at # "done",
         call'[c].at \in Past => call[c].at \in Past /\ call'[c].user = call[c].user,
         UNCHANGED <<rowVars, overlapped>>
  PROVE  RowsComeFromInserts' /\ CapReserved'
<1>1. row[c] = "none"
  BY DEF RowsComeFromInserts
<1>2. RowsComeFromInserts'
  BY <1>1 DEF RowsComeFromInserts, Steps, rowVars
<1>3. \A u \in Users \ overlapped' : Reserved(u)' \subseteq Reserved(u)
  BY <1>1 DEF Reserved, ActiveOf, PastGate, Past, Steps, Active, rowVars
<1> QED BY <1>2, <1>3, ReservedShrinks

LEMMA GateReserves ==
  ASSUME AdmissionTypeOK, RowsComeFromInserts, CapReserved, NEW c \in Calls, CapGate(c),
         NEW u, u = call[c].user
  PROVE  RowsComeFromInserts' /\ CapReserved'
<1>1. /\ Steps(c) /\ call[c].at = "cap" /\ u \in Users
      /\ call'[c].at \in IF Passes(c) THEN {"insert", "row"} ELSE {"refused"}
      /\ call'[c].user = u /\ UNCHANGED rowVars
      /\ overlapped' = IF Passes(c) /\ PastGate(u) # {}
                       THEN overlapped \cup {u} ELSE overlapped
  BY GateEffect
<1>2. row[c] = "none"
  BY <1>1 DEF RowsComeFromInserts
<1>3. RowsComeFromInserts'
  BY <1>1, <1>2 DEF RowsComeFromInserts, Steps, rowVars
<1>4. \A v \in Users \ {u} : Reserved(v)' \subseteq Reserved(v)
  BY <1>1 DEF Reserved, ActiveOf, PastGate, Steps, rowVars
<1>5. CASE ~Passes(c)
  BY <1>1, <1>3, <1>5, CallReservesNothing DEF Past
<1>6. CASE Passes(c) /\ PastGate(u) # {}
  BY <1>1, <1>3, <1>4, <1>6, ReservedShrinks
<1>7. CASE Passes(c) /\ PastGate(u) = {}
  <2>1. Reserved(u)' \subseteq ActiveOf(u) \cup {c}
    BY <1>1, <1>7 DEF Reserved, ActiveOf, PastGate, Steps, rowVars
  <2>2. Cardinality(ActiveOf(u)) < Cap[u] /\ Cap[u] \in Nat
    BY <1>1, <1>7, Bounds DEF Passes, ActiveCount
  <2>3. c \notin ActiveOf(u)
    BY <1>2 DEF ActiveOf, Active
  <2>4. /\ IsFiniteSet(ActiveOf(u) \cup {c})
        /\ Cardinality(ActiveOf(u) \cup {c}) = Cardinality(ActiveOf(u)) + 1
    BY <2>3, ReservedFinite, FS_AddElement
  <2>5. Cardinality(Reserved(u)') <= Cardinality(ActiveOf(u)) + 1
    BY <2>1, <2>4, FS_Subset
  <2>6. Cardinality(Reserved(u)') <= Cap[u]
    BY <2>2, <2>5, ReservedFinite
  <2>7. ASSUME NEW v \in Users \ overlapped', v # u
        PROVE  Cardinality(Reserved(v)') <= Cap[v]
    <3>1. Cardinality(Reserved(v)') <= Cardinality(Reserved(v))
      BY <1>4, <2>7, ReservedFinite, FS_Subset
    <3>2. Cardinality(Reserved(v)) <= Cap[v] /\ Cap[v] \in Nat
      BY <1>1, <1>7, Bounds DEF CapReserved
    <3> QED BY <3>1, <3>2, ReservedFinite
  <2>8. CapReserved'
    BY <2>6, <2>7 DEF CapReserved
  <2> QED BY <1>3, <2>8
<1> QED BY <1>5, <1>6, <1>7

LEMMA CapStep ==
  ASSUME AdmissionTypeOK, RowsComeFromInserts, CapReserved, AdmissionNext
  PROVE  RowsComeFromInserts' /\ CapReserved'
<1>1. ASSUME NEW c \in Calls, NEW u \in Users, NEW follow \in BOOLEAN, NEW pool \in Pools,
             Begin(c, u, follow, pool)
      PROVE  RowsComeFromInserts' /\ CapReserved'
  BY <1>1, BeginEffect, CallReservesNothing DEF Past
<1>2. ASSUME NEW c \in Calls, DepthGate(c) PROVE RowsComeFromInserts' /\ CapReserved'
  <2>1. PICK to \in {"refused", "cap"} : Goes(c, to)
    BY <1>2 DEF DepthGate
  <2>2. Steps(c) /\ call'[c].at = to
    BY <2>1, CallGoes DEF Steps, Stands
  <2> QED BY <1>2, <2>2, CallReservesNothing DEF DepthGate, Past
<1>3. ASSUME NEW c \in Calls, QuotaRow(c) PROVE RowsComeFromInserts' /\ CapReserved'
  BY <1>3, QuotaRowEffect, CallReservesNothing DEF Past
<1>4. ASSUME NEW c \in Calls, BurnBonus(c) PROVE RowsComeFromInserts' /\ CapReserved'
  BY <1>4, BonusEffect, CallReservesNothing DEF Past
<1>5. ASSUME NEW c \in Calls, BurnRegular(c) PROVE RowsComeFromInserts' /\ CapReserved'
  BY <1>5, RegularEffect, CallReservesNothing DEF Past
<1>6. ASSUME NEW c \in Calls, NEW status \in {"queued", "executing"}, Insert(c, status)
      PROVE  RowsComeFromInserts' /\ CapReserved'
  <2>1. Steps(c) /\ call'[c].at = "done" /\ call'[c].user = call[c].user
    BY <1>6, CallGoes DEF Insert, Steps, Stands
  <2>2. /\ call[c].at = "insert" /\ UNCHANGED overlapped
        /\ \A d \in Calls \ {c} : row'[d] = row[d]
    BY <1>6 DEF Insert, AdmissionTypeOK
  <2>5. UNCHANGED <<writes, revived>> /\ row'[c] # "none"
    BY <1>6 DEF Insert, AdmissionTypeOK
  <2>3. RowsComeFromInserts'
    BY <2>1, <2>2, <2>5 DEF RowsComeFromInserts, Steps, AdmissionTypeOK
  <2>4. \A u \in Users : Reserved(u)' \subseteq Reserved(u)
    BY <2>1, <2>2, <2>5 DEF Reserved, ActiveOf, PastGate, Steps
  <2> QED BY <2>2, <2>3, <2>4, ReservedShrinks
<1>7. ASSUME NEW c \in Calls,
             \/ RowEnds(c)
             \/ \E to \in {"paused", "executing", "awaiting_user"} : HandlerReads(c, to)
      PROVE  RowsComeFromInserts' /\ CapReserved'
  <2>1. /\ row[c] \in Active /\ UNCHANGED <<call, revived, overlapped>>
        /\ \A d \in Calls : row'[d] = row[d] \/ (d = c /\ row'[d] = "ended")
        /\ \A w \in writes' : w \in writes \/ w.task = c
    BY <1>7 DEF RowEnds, HandlerReads, ReadFor, AdmissionTypeOK, Active
  <2>2. RowsComeFromInserts'
    BY <2>1 DEF RowsComeFromInserts, Active, AdmissionTypeOK
  <2>3. \A u \in Users : Reserved(u)' \subseteq Reserved(u)
    BY <2>1 DEF Reserved, ActiveOf, PastGate, Active
  <2> QED BY <2>1, <2>2, <2>3, ReservedShrinks
<1>10. ASSUME NEW w \in writes, HandlerWrites(w)
       PROVE  RowsComeFromInserts' /\ CapReserved'
  <2>1. w.task \in Calls /\ row[w.task] \in Active \cup {"ended"}
    BY DEF AdmissionTypeOK, RowsComeFromInserts
  <2>2. /\ UNCHANGED <<call, overlapped>> /\ writes' \subseteq writes
        /\ \A d \in Calls \ {w.task} : row'[d] = row[d]
        /\ row[w.task] \in Active \/ w.task \in revived'
        /\ revived \subseteq revived' /\ row'[w.task] # "none"
    BY <1>10, <2>1 DEF HandlerWrites, AdmissionTypeOK, Active
  <2>3. RowsComeFromInserts'
    BY <2>1, <2>2 DEF RowsComeFromInserts, Active, AdmissionTypeOK
  <2>4. \A u \in Users : Reserved(u)' \subseteq Reserved(u)
    BY <2>2 DEF Reserved, ActiveOf, PastGate
  <2> QED BY <2>2, <2>3, <2>4, ReservedShrinks
<1>8. ASSUME UNCHANGED <<call, rowVars, overlapped>>
      PROVE  RowsComeFromInserts' /\ CapReserved'
  BY <1>8 DEF RowsComeFromInserts, CapReserved, Reserved, ActiveOf, PastGate, rowVars
<1>9. CASE NewPeriod \/ ClockTicks \/ \E pool \in Pools : Grant(pool)
  BY <1>8, <1>9 DEF NewPeriod, ClockTicks, Grant
<1> QED BY <1>1, <1>2, <1>3, <1>4, <1>5, <1>6, <1>7, <1>9, <1>10, GateReserves DEF AdmissionNext

-----------------------------------------------------------------------------
(* The rate limit.                                                         *)

Early == {"idle", "depth", "cap"}

LEMMA WindowsFinite ==
  ASSUME AdmissionTypeOK, NEW u \in Bypass, NEW start
  PROVE  /\ IsFiniteSet(InWindow(u, start)) /\ Cardinality(InWindow(u, start)) \in Nat
         /\ IsFiniteSet(Pruned(hits[u])) /\ Cardinality(Pruned(hits[u])) \in Nat
<1>1. InWindow(u, start) \subseteq Calls /\ Pruned(hits[u]) \subseteq Calls
  BY DEF InWindow, Pruned, AdmissionTypeOK
<1> QED BY <1>1, FS_Subset, FS_CardinalityType, AdmissionAssumption

LEMMA BucketAlone ==
  ASSUME BucketIsTheWindow, UNCHANGED <<gateVars, time>>,
         \A c \in Calls : call'[c].at \in Early => call[c].at \in Early,
         AdmissionTypeOK
  PROVE  BucketIsTheWindow'
<1>1. RateHeld'
  BY DEF BucketIsTheWindow, RateHeld, InWindow, gateVars
<1>2. \A u \in Bypass : admitted[u] \subseteq Calls
  BY DEF AdmissionTypeOK
<1> QED BY <1>1, <1>2 DEF BucketIsTheWindow, gateVars, Early

LEMMA TickKeepsBucket ==
  ASSUME AdmissionTypeOK, BucketIsTheWindow, ClockTicks
  PROVE  BucketIsTheWindow'
<1>1. time \in Nat /\ time' = time + 1 /\ UNCHANGED <<call, hits, stamp, admitted>>
  BY DEF ClockTicks, gateVars, AdmissionTypeOK
<1>2. \A u \in Bypass : \A c \in admitted[u] : stamp[c] \in Nat /\ stamp[c] <= time
  BY DEF BucketIsTheWindow, AdmissionTypeOK
<1>3. \A u \in Bypass : \A c \in admitted[u] :
        /\ stamp'[c] <= time'
        /\ call'[c].at \notin {"idle", "depth", "cap"}
        /\ stamp'[c] >= time' - Window => c \in hits'[u]
  BY <1>1, <1>2, Bounds DEF BucketIsTheWindow
<1>4. ASSUME NEW u \in Bypass, NEW start \in 0 .. time'
      PROVE  Cardinality(InWindow(u, start)') <= RateMax
  <2>1. InWindow(u, start)' = InWindow(u, start)
    BY <1>1 DEF InWindow
  <2>2. CASE start \in 0 .. time
    BY <2>1, <2>2 DEF BucketIsTheWindow, RateHeld
  <2>3. CASE start = time + 1
    <3>1. InWindow(u, start) = {}
      BY <1>1, <1>2, <2>3, Bounds DEF InWindow
    <3> QED BY <2>1, <3>1, FS_EmptySet, Bounds
  <2> QED BY <1>1, <2>2, <2>3
<1>5. RateHeld'
  BY <1>4 DEF RateHeld
<1> QED BY <1>1, <1>3, <1>5 DEF BucketIsTheWindow

LEMMA GateKeepsBucket ==
  ASSUME AdmissionTypeOK, BucketIsTheWindow, NEW c \in Calls, CapGate(c),
         NEW u, u = call[c].user
  PROVE  BucketIsTheWindow'
<1> DEFINE bucket == Pruned(hits[u])
<1>1. /\ Steps(c) /\ call[c].at = "cap" /\ call'[c].at \notin Early
      /\ UNCHANGED time
      /\ \/ /\ u \in Bypass /\ Passes(c)
            /\ hits' = [hits EXCEPT ![u] = bucket \cup {c}]
            /\ stamp' = [stamp EXCEPT ![c] = time]
            /\ admitted' = [admitted EXCEPT ![u] = @ \cup {c}]
         \/ /\ u \in Bypass /\ hits' = [hits EXCEPT ![u] = bucket]
            /\ UNCHANGED <<stamp, admitted>>
         \/ UNCHANGED <<hits, stamp, admitted>>
  BY GateEffect DEF Early
<1>2. /\ time \in Nat /\ stamp \in [Calls -> Nat] /\ hits \in [Bypass -> SUBSET Calls]
      /\ admitted \in [Bypass -> SUBSET Calls]
  BY DEF AdmissionTypeOK
<1>3. \A v \in Bypass : c \notin admitted[v]
  BY <1>1 DEF BucketIsTheWindow
<1>4. \A v \in Bypass : \A d \in admitted[v] :
        /\ call'[d].at \notin Early /\ stamp[d] <= time
        /\ stamp[d] >= time - Window => d \in hits[v]
  BY <1>1, <1>2, <1>3 DEF BucketIsTheWindow, Steps, Early
<1>5. bucket = {d \in hits[u] : stamp[d] >= time - Window}
  BY DEF Pruned
<1>6. CASE UNCHANGED <<stamp, admitted>>
  <2>1. RateHeld'
    BY <1>1, <1>6 DEF BucketIsTheWindow, RateHeld, InWindow
  <2>2. \A v \in Bypass : \A d \in admitted[v] :
          stamp[d] >= time - Window => d \in hits'[v]
    <3> HIDE DEF bucket
    <3> QED BY <1>1, <1>2, <1>3, <1>4, <1>5, <1>6
  <2> QED BY <1>1, <1>4, <1>6, <2>1, <2>2 DEF BucketIsTheWindow, Early
<1>7. CASE /\ u \in Bypass /\ Passes(c)
           /\ hits' = [hits EXCEPT ![u] = bucket \cup {c}]
           /\ stamp' = [stamp EXCEPT ![c] = time]
           /\ admitted' = [admitted EXCEPT ![u] = @ \cup {c}]
  <2>1. /\ stamp'[c] = time /\ \A d \in Calls \ {c} : stamp'[d] = stamp[d]
        /\ admitted'[u] = admitted[u] \cup {c} /\ hits'[u] = bucket \cup {c}
        /\ \A v \in Bypass \ {u} : admitted'[v] = admitted[v] /\ hits'[v] = hits[v]
    <3> HIDE DEF bucket
    <3> QED BY <1>2, <1>7
  <2>2. \A v \in Bypass : \A d \in admitted[v] : d \in Calls \ {c}
    BY <1>2, <1>3
  <2>3. \A v \in Bypass : \A d \in admitted'[v] :
          /\ stamp'[d] <= time'
          /\ call'[d].at \notin Early
          /\ stamp'[d] >= time' - Window => d \in hits'[v]
    <3> SUFFICES ASSUME NEW v \in Bypass, NEW d \in admitted'[v]
                 PROVE  /\ stamp'[d] <= time'
                        /\ call'[d].at \notin Early
                        /\ stamp'[d] >= time' - Window => d \in hits'[v]
      OBVIOUS
    <3>1. CASE d = c
      <4>1. v = u
        BY <1>3, <2>1, <3>1
      <4> QED BY <1>1, <1>2, <2>1, <3>1, <4>1
    <3>2. CASE d # c
      <4>1. d \in admitted[v] /\ stamp'[d] = stamp[d]
        BY <2>1, <2>2, <3>2
      <4>2. stamp[d] >= time - Window => d \in hits'[v]
        BY <1>4, <1>5, <2>1, <4>1
      <4> QED BY <1>1, <1>4, <4>1, <4>2
    <3> QED BY <3>1, <3>2
  <2>4. ASSUME NEW v \in Bypass, NEW start \in 0 .. time
        PROVE  Cardinality(InWindow(v, start)') <= RateMax
    <3>1. CASE v # u \/ time \notin start .. start + Window
      <4>1. InWindow(v, start)' = InWindow(v, start)
        <5>1. CASE v # u
          BY <2>1, <2>2, <5>1 DEF InWindow
        <5>2. CASE v = u /\ time \notin start .. start + Window
          BY <2>1, <2>2, <5>2 DEF InWindow
        <5> QED BY <3>1, <5>1, <5>2
      <4> QED BY <4>1 DEF BucketIsTheWindow, RateHeld
    <3>2. CASE v = u /\ time \in start .. start + Window
      <4>1. start >= time - Window
        BY <1>2, <3>2, Bounds
      <4>2. \A d \in admitted[u] : stamp[d] >= start => d \in bucket
        BY <1>2, <1>4, <1>5, <1>7, <2>2, <4>1, Bounds
      <4>3. InWindow(u, start)' \subseteq bucket \cup {c}
        BY <2>1, <2>2, <1>7, <4>2 DEF InWindow
      <4>4. IsFiniteSet(bucket) /\ Cardinality(bucket) \in Nat
        BY <1>7, WindowsFinite
      <4>5. Cardinality(bucket) < RateMax
        BY <1>7 DEF Passes
      <4>6. /\ IsFiniteSet(bucket \cup {c})
            /\ Cardinality(bucket \cup {c}) <= Cardinality(bucket) + 1
        <5> HIDE DEF bucket
        <5>1. /\ IsFiniteSet(bucket \cup {c})
              /\ Cardinality(bucket \cup {c}) =
                   IF c \in bucket THEN Cardinality(bucket) ELSE Cardinality(bucket) + 1
          BY <4>4, FS_AddElement
        <5> QED BY <4>4, <5>1
      <4>7. Cardinality(InWindow(u, start)') <= Cardinality(bucket \cup {c})
        BY <4>3, <4>6, FS_Subset
      <4>8. /\ Cardinality(InWindow(u, start)') \in Nat
            /\ Cardinality(bucket \cup {c}) \in Nat
        BY <4>3, <4>6, FS_Subset, FS_CardinalityType
      <4> QED BY <3>2, <4>4, <4>5, <4>6, <4>7, <4>8, Bounds
    <3> QED BY <3>1, <3>2
  <2> QED BY <1>1, <2>3, <2>4 DEF BucketIsTheWindow, RateHeld, Early
<1> QED BY <1>1, <1>6, <1>7

LEMMA BucketStep ==
  ASSUME AdmissionTypeOK, BucketIsTheWindow, AdmissionNext
  PROVE  BucketIsTheWindow'
<1>1. ASSUME NEW c \in Calls, Steps(c), UNCHANGED <<gateVars, time>>,
             call'[c].at \in Early => call[c].at \in Early
      PROVE  BucketIsTheWindow'
  <2>1. \A d \in Calls : call'[d].at \in Early => call[d].at \in Early
    BY <1>1 DEF Steps
  <2> QED BY <1>1, <2>1, BucketAlone
<1>2. ASSUME NEW c \in Calls, NEW u \in Users, NEW follow \in BOOLEAN, NEW pool \in Pools,
             Begin(c, u, follow, pool)
      PROVE  BucketIsTheWindow'
  BY <1>1, <1>2, BeginEffect DEF Early
<1>3. ASSUME NEW c \in Calls, DepthGate(c) PROVE BucketIsTheWindow'
  <2>1. Steps(c)
    BY <1>3, CallGoes DEF DepthGate, Steps, Stands
  <2> QED BY <1>1, <1>3, <2>1 DEF DepthGate, Early
<1>4. ASSUME NEW c \in Calls, QuotaRow(c) \/ BurnBonus(c) \/ BurnRegular(c)
      PROVE  BucketIsTheWindow'
  BY <1>1, <1>4, QuotaRowEffect, BonusEffect, RegularEffect DEF Early
<1>5. ASSUME NEW c \in Calls, NEW status \in {"queued", "executing"}, Insert(c, status)
      PROVE  BucketIsTheWindow'
  <2>1. Steps(c) /\ call'[c].at = "done"
    BY <1>5, CallGoes DEF Insert, Steps, Stands
  <2> QED BY <1>1, <1>5, <2>1 DEF Insert, Early
<1>6. ASSUME \/ \E c \in Calls :
                  \/ RowEnds(c)
                  \/ \E to \in {"paused", "executing", "awaiting_user"} : HandlerReads(c, to)
             \/ \E w \in writes : HandlerWrites(w)
      PROVE  BucketIsTheWindow'
  BY <1>6, BucketAlone DEF RowEnds, HandlerReads, HandlerWrites
<1>7. CASE NewPeriod \/ \E pool \in Pools : Grant(pool)
  BY <1>7, BucketAlone DEF NewPeriod, Grant
<1> QED BY <1>2, <1>3, <1>4, <1>5, <1>6, <1>7, GateKeepsBucket, TickKeepsBucket
        DEF AdmissionNext

-----------------------------------------------------------------------------
(* Theorems about the gates.                                               *)

LEMMA AdmissionInvNext == AdmissionInv /\ [AdmissionNext]_admissionVars => AdmissionInv'
<1>1. ASSUME AdmissionInv, AdmissionNext PROVE AdmissionInv'
  BY <1>1, AdmissionTypes, CapStep, BucketStep DEF AdmissionInv
<1>2. ASSUME AdmissionInv, UNCHANGED admissionVars PROVE AdmissionInv'
  BY <1>2, BucketAlone
     DEF admissionVars, gateVars, rowVars, AdmissionInv, AdmissionTypeOK,
         RowsComeFromInserts, CapReserved, Reserved, ActiveOf, PastGate
<1> QED BY <1>1, <1>2

(* The inductive invariant of the gates.                                   *)
THEOREM AdmissionInvariant == AdmissionSpec => []AdmissionInv
BY AdmissionInitInv, AdmissionInvNext, PTL DEF AdmissionSpec

(* A user two of whose calls never stood between the gate of               *)
(* getActiveTaskCount and their INSERT at the same time has no more active *)
(* rows than the cap, except rows that had ended and that a handler wrote  *)
(* back by id.                                                             *)
THEOREM CapIsKept == AdmissionSpec => []CapHeldWithoutOverlap
<1>1. AdmissionInv => CapHeldWithoutOverlap
  <2> SUFFICES ASSUME AdmissionInv, NEW u \in Users \ overlapped
               PROVE  Cardinality(ActiveOf(u) \ revived) <= Cap[u]
    BY DEF CapHeldWithoutOverlap
  <2>1. Cardinality(Reserved(u)) <= Cap[u] /\ Cap[u] \in Nat
    BY Bounds DEF AdmissionInv, CapReserved
  <2>2. /\ Cardinality(ActiveOf(u) \ revived) <= Cardinality(Reserved(u))
        /\ Cardinality(ActiveOf(u) \ revived) \in Nat
    BY ReservedFinite, FS_Subset, FS_CardinalityType DEF Reserved
  <2> QED BY <2>1, <2>2, ReservedFinite
<1> QED BY <1>1, AdmissionInvariant, PTL

(* tryAcquire: no window of the rate limit has ever let more submissions   *)
(* of a user through than it allows, although the bucket forgets.          *)
THEOREM RateIsKept == AdmissionSpec => []RateHeld
<1>1. AdmissionInv => RateHeld BY DEF AdmissionInv, BucketIsTheWindow
<1> QED BY <1>1, AdmissionInvariant, PTL
=============================================================================
