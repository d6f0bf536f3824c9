-------------------------- MODULE TaskDispatchProofs --------------------------
(***************************************************************************)
(* Proofs about BrowserPool and TaskDispatch, for every set of tasks, pool *)
(* size and depth.  The pool comes first, by itself.  Its invariant is one *)
(* part of the invariant of the composition; the queue's is stated again   *)
(* there, because crashes empty the queue and forget the runs it counted.  *)
(***************************************************************************)
EXTENDS TaskDispatch, FiniteSetTheorems, TLAPS

-----------------------------------------------------------------------------
(* The pool by itself.                                                     *)

(* What the accounting rests on: the slots of the holders are exactly the  *)
(* claimed ones, claimed once, and every live process is explained.        *)
PoolInv == PoolTypeOK /\ SlotAccounting /\ LeftoversOnlyFromFailedSpawns

(* The initial pool is empty, so nothing is claimed and nothing runs.      *)
LEMMA InitInv == PoolInit => PoolInv
  BY DEF PoolInit, PoolInv, PoolTypeOK, SlotAccounting, Holders, InstStates,
         LeftoversOnlyFromFailedSpawns, NoSlot, Slots

(* Claiming a free slot and recording it for a task without one keeps the  *)
(* allocator and the registry in agreement.                                *)
LEMMA AllocateBeginInv ==
  ASSUME PoolInv, NEW t \in Tasks, AllocateBegin(t)
  PROVE  PoolInv'
<1> USE DEF PoolInv
<1>1. PICK s \in FreeSlots :
        /\ inUse' = inUse \cup {s}
        /\ slot' = [slot EXCEPT ![t] = s]
        /\ procs' = procs \cup {<<t, s>>}
  BY DEF AllocateBegin, Claim
<1>2. s \in Slots /\ s \notin inUse /\ s # NoSlot
  BY DEF FreeSlots, Slots, NoSlot
<1>3. t \notin Holders /\ Holders' = Holders \cup {t}
  BY DEF AllocateBegin, Holders, PoolTypeOK
<1>4. PoolTypeOK'
  BY <1>1, <1>2 DEF PoolTypeOK, AllocateBegin, InstStates
<1>5. \A r \in Tasks : slot'[r] = IF r = t THEN s ELSE slot[r]
  BY <1>1 DEF PoolTypeOK
<1>6. SlotAccounting'
  <2>1. inUse' = {slot'[r] : r \in Holders'}
    BY <1>1, <1>3, <1>5 DEF SlotAccounting, Holders
  <2>2. \A r \in Tasks : r \in Holders' <=> slot'[r] # NoSlot
    BY <1>2, <1>3, <1>5 DEF SlotAccounting
  <2>3. \A r, q \in Holders' : slot'[r] = slot'[q] => r = q
    BY <1>2, <1>3, <1>5 DEF SlotAccounting, Holders
  <2> QED BY <2>1, <2>2, <2>3 DEF SlotAccounting
<1>7. LeftoversOnlyFromFailedSpawns'
  BY <1>1, <1>3, <1>5
     DEF LeftoversOnlyFromFailedSpawns, AllocateBegin, PoolTypeOK, Holders
<1> QED BY <1>4, <1>6, <1>7

(* A step that changes neither who holds a slot nor which one keeps the    *)
(* accounting.                                                             *)
LEMMA SameHolders ==
  ASSUME SlotAccounting, Holders' = Holders, UNCHANGED <<inUse, slot>>
  PROVE  SlotAccounting'
  BY DEF SlotAccounting

(* A task that gives its slot back leaves the other holders as they were.  *)
LEMMA UnclaimAccounting ==
  ASSUME PoolTypeOK, SlotAccounting,
         NEW t \in Tasks, t \in Holders,
         Unclaim(t), slot' = [slot EXCEPT ![t] = NoSlot],
         Holders' = Holders \ {t}
  PROVE  SlotAccounting'
<1>1. \A r \in Tasks : slot'[r] = IF r = t THEN NoSlot ELSE slot[r]
  BY DEF PoolTypeOK
<1>2. Holders \subseteq Tasks
  BY DEF Holders
<1>3. inUse' = {slot'[r] : r \in Holders'}
  <2>1. inUse' = {slot[r] : r \in Holders} \ {slot[t]}
    BY DEF Unclaim, SlotAccounting
  <2>2. {slot[r] : r \in Holders} \ {slot[t]} = {slot[r] : r \in Holders \ {t}}
    BY DEF SlotAccounting
  <2>3. {slot[r] : r \in Holders \ {t}} = {slot'[r] : r \in Holders \ {t}}
    BY <1>1, <1>2
  <2> QED BY <2>1, <2>2, <2>3
<1>4. \A r \in Tasks : r \in Holders' <=> slot'[r] # NoSlot
  BY <1>1 DEF SlotAccounting
<1>5. \A r, q \in Holders' : slot'[r] = slot'[q] => r = q
  BY <1>1, <1>2 DEF SlotAccounting
<1> QED BY <1>3, <1>4, <1>5 DEF SlotAccounting

(* The steps of a spawn after its claim, and the refused allocation.       *)
LEMMA SpawnInv ==
  ASSUME PoolInv, NEW t \in Tasks,
         \/ AllocateRefused(t) \/ SpawnReady(t)
         \/ SpawnFailed(t) \/ TerminatedExit(t)
  PROVE  PoolInv'
<1> USE DEF PoolInv, InstStates
<1>1. CASE AllocateRefused(t)
  <2>1. PoolTypeOK'  BY <1>1 DEF PoolTypeOK, AllocateRefused
  <2>2. Holders' = Holders  BY <1>1 DEF AllocateRefused, Holders, PoolTypeOK
  <2>3. SlotAccounting'  BY <1>1, <2>2, SameHolders DEF AllocateRefused
  <2>4. LeftoversOnlyFromFailedSpawns'
    BY <1>1, <2>2
       DEF AllocateRefused, LeftoversOnlyFromFailedSpawns, PoolTypeOK, Holders
  <2> QED BY <2>1, <2>3, <2>4
<1>2. CASE SpawnReady(t)
  <2>1. PoolTypeOK'  BY <1>2 DEF PoolTypeOK, SpawnReady
  <2>2. Holders' = Holders  BY <1>2 DEF SpawnReady, Holders, PoolTypeOK
  <2>3. SlotAccounting'  BY <1>2, <2>2, SameHolders DEF SpawnReady
  <2>4. LeftoversOnlyFromFailedSpawns'
    BY <1>2, <2>2 DEF SpawnReady, LeftoversOnlyFromFailedSpawns, PoolTypeOK
  <2> QED BY <2>1, <2>3, <2>4
<1>3. CASE SpawnFailed(t)
  <2>1. PoolTypeOK'  BY <1>3 DEF PoolTypeOK, SpawnFailed, Unclaim
  <2>2. t \in Holders /\ Holders' = Holders \ {t}
    BY <1>3 DEF SpawnFailed, Holders, PoolTypeOK
  <2>3. SlotAccounting'  BY <1>3, <2>2, UnclaimAccounting DEF SpawnFailed
  <2>4. LeftoversOnlyFromFailedSpawns'
    BY <1>3, <2>2
       DEF SpawnFailed, LeftoversOnlyFromFailedSpawns, PoolTypeOK, Holders
  <2> QED BY <2>1, <2>3, <2>4
<1>4. CASE TerminatedExit(t)
  <2>1. PoolTypeOK'  BY <1>4 DEF PoolTypeOK, TerminatedExit
  <2>2. Holders' = Holders  BY <1>4 DEF TerminatedExit, Holders, PoolTypeOK
  <2>3. SlotAccounting'  BY <1>4, <2>2, SameHolders DEF TerminatedExit
  <2>4. LeftoversOnlyFromFailedSpawns'
    BY <1>4, <2>2
       DEF TerminatedExit, LeftoversOnlyFromFailedSpawns, PoolTypeOK
  <2> QED BY <2>1, <2>3, <2>4
<1> QED BY <1>1, <1>2, <1>3, <1>4

(* Touches, idleness, and the two halves of a release.                     *)
LEMMA ReleaseInv ==
  ASSUME PoolInv, NEW t \in Tasks,
         \/ Release(t) \/ ReleaseDone(t) \/ GoIdle(t) \/ Touch(t)
  PROVE  PoolInv'
<1> USE DEF PoolInv, InstStates
<1>1. CASE Release(t)
  <2>1. PoolTypeOK'  BY <1>1 DEF PoolTypeOK, Release
  <2>2. Holders' = Holders  BY <1>1 DEF Release, Holders, PoolTypeOK
  <2>3. SlotAccounting'  BY <1>1, <2>2, SameHolders DEF Release
  <2>4. LeftoversOnlyFromFailedSpawns'
    BY <1>1, <2>2 DEF Release, LeftoversOnlyFromFailedSpawns, PoolTypeOK
  <2> QED BY <2>1, <2>3, <2>4
<1>2. CASE ReleaseDone(t)
  <2>1. PoolTypeOK'  BY <1>2 DEF PoolTypeOK, ReleaseDone, Unclaim
  <2>2. t \in Holders /\ Holders' = Holders \ {t}
    BY <1>2 DEF ReleaseDone, Holders, PoolTypeOK
  <2>3. SlotAccounting'  BY <1>2, <2>2, UnclaimAccounting DEF ReleaseDone
  <2>4. LeftoversOnlyFromFailedSpawns'
    BY <1>2, <2>2
       DEF ReleaseDone, LeftoversOnlyFromFailedSpawns, PoolTypeOK
  <2> QED BY <2>1, <2>3, <2>4
<1>3. CASE GoIdle(t) \/ Touch(t)
  <2>1. PoolTypeOK'  BY <1>3 DEF PoolTypeOK, GoIdle, Touch
  <2>2. Holders' = Holders  BY <1>3 DEF GoIdle, Touch, Holders
  <2>3. SlotAccounting'  BY <1>3, <2>2, SameHolders DEF GoIdle, Touch
  <2>4. LeftoversOnlyFromFailedSpawns'
    BY <1>3, <2>2 DEF GoIdle, Touch, LeftoversOnlyFromFailedSpawns
  <2> QED BY <2>1, <2>3, <2>4
<1> QED BY <1>1, <1>2, <1>3

(* Draining ready instances keeps every holder a holder.                   *)
LEMMA DrainInv ==
  ASSUME PoolInv, GcSweep \/ Shutdown
  PROVE  PoolInv'
<1> USE DEF PoolInv, InstStates
<1>1. PICK S \in SUBSET Ready : inst' = Drain(S)
  BY DEF GcSweep, Shutdown
<1>2. PoolTypeOK'
  BY <1>1 DEF GcSweep, Shutdown, PoolTypeOK, Drain, Ready
<1>3. Holders' = Holders
  BY <1>1 DEF Drain, Ready, Holders, PoolTypeOK
<1>4. SlotAccounting'
  BY <1>3, SameHolders DEF GcSweep, Shutdown
<1>5. LeftoversOnlyFromFailedSpawns'
  <2>1. UNCHANGED <<up, procs, slot>>
    BY DEF GcSweep, Shutdown
  <2>2. \A r \in Tasks : inst[r] = "failed" => inst'[r] = "failed"
    BY <1>1 DEF Drain, Ready
  <2>3. \A p \in procs : p[1] \in Tasks
    BY DEF PoolTypeOK
  <2> QED BY <1>3, <2>1, <2>2, <2>3 DEF LeftoversOnlyFromFailedSpawns
<1> QED BY <1>2, <1>4, <1>5

(* The end of the process and the next boot.                               *)
LEMMA RestartInv ==
  ASSUME PoolInv, Exit \/ Crash \/ Boot
  PROVE  PoolInv'
<1> USE DEF PoolInv, InstStates
<1>1. CASE Die
  <2>1. PoolTypeOK'  BY <1>1 DEF PoolTypeOK, Die
  <2>2. Holders' = {}  BY <1>1 DEF Die, Holders
  <2>3. SlotAccounting'  BY <1>1, <2>2 DEF Die, SlotAccounting
  <2>4. LeftoversOnlyFromFailedSpawns'
    BY <1>1 DEF Die, LeftoversOnlyFromFailedSpawns
  <2> QED BY <2>1, <2>3, <2>4
<1>2. CASE Boot
  <2>1. PoolTypeOK'  BY <1>2 DEF PoolTypeOK, Boot
  <2>2. Holders' = Holders  BY <1>2 DEF Boot, Holders
  <2>3. SlotAccounting'  BY <1>2, <2>2, SameHolders DEF Boot
  <2>4. LeftoversOnlyFromFailedSpawns'
    BY <1>2 DEF Boot, LeftoversOnlyFromFailedSpawns
  <2> QED BY <2>1, <2>3, <2>4
<1> QED BY <1>1, <1>2 DEF Exit, Crash

(* Stuttering.                                                             *)
LEMMA StutterInv == PoolInv /\ UNCHANGED poolVars => PoolInv'
  BY DEF PoolInv, PoolTypeOK, SlotAccounting, Holders, poolVars,
         LeftoversOnlyFromFailedSpawns

(* PoolInv is inductive.                                                   *)
LEMMA NextInv == PoolInv /\ [PoolNext]_poolVars => PoolInv'
<1> SUFFICES ASSUME PoolInv, [PoolNext]_poolVars PROVE PoolInv'
  OBVIOUS
<1>1. ASSUME NEW t \in Tasks,
             \/ AllocateRefused(t) \/ AllocateBegin(t)
             \/ SpawnReady(t) \/ SpawnFailed(t) \/ TerminatedExit(t)
             \/ Release(t) \/ ReleaseDone(t) \/ GoIdle(t) \/ Touch(t)
      PROVE  PoolInv'
  BY <1>1, AllocateBeginInv, SpawnInv, ReleaseInv
<1>2. CASE GcSweep \/ Shutdown  BY <1>2, DrainInv
<1>3. CASE Exit \/ Crash \/ Boot  BY <1>3, RestartInv
<1>4. CASE UNCHANGED poolVars  BY <1>4, StutterInv
<1> QED BY <1>1, <1>2, <1>3, <1>4 DEF PoolNext

(* The inductive invariant holds in every reachable state.                 *)
THEOREM PoolInvariant == PoolSpec => []PoolInv
  BY InitInv, NextInv, PTL DEF PoolSpec

(* Type correctness.                                                       *)
THEOREM PoolTypeCorrect == PoolSpec => []PoolTypeOK
  BY PoolInvariant, PTL DEF PoolInv

(* For any number of tasks and any capacity the allocator and the registry *)
(* agree, and no two tasks hold the same slot.                             *)
THEOREM SlotsAreExclusive == PoolSpec => []SlotAccounting
  BY PoolInvariant, PTL DEF PoolInv

(* No process outlives its instance except those of a failed spawn, across *)
(* any number of crashes and boots.                                        *)
THEOREM NoForgottenProcess == PoolSpec => []LeftoversOnlyFromFailedSpawns
  BY PoolInvariant, PTL DEF PoolInv

-----------------------------------------------------------------------------
(* The refinement: what a step of the pool is in the table of leases.      *)
Leases == {<<t, slot[t]>> : t \in Holders}

(* Nobody holds a slot at first.                                           *)
LEMMA InitRefines == PoolInit => Lease!Init
  BY DEF PoolInit, Holders, FreeSlots, Slots, Lease!Init, Lease!All

(* A step that leaves holders and slots alone stutters.                    *)
LEMMA SameLeases ==
  ASSUME Holders' = Holders, slot' = slot, inUse' = inUse
  PROVE  Leases' = Leases /\ FreeSlots' = FreeSlots
  BY DEF Leases, FreeSlots

(* A claim is a grant: the task has no lease yet, and the slot is free.    *)
LEMMA AllocateBeginGrants ==
  ASSUME PoolInv, NEW t \in Tasks, AllocateBegin(t)
  PROVE  Lease!Next
<1>1. PICK s \in FreeSlots : slot' = [slot EXCEPT ![t] = s] /\ Claim(s)
  BY DEF AllocateBegin
<1>2. s \in Lease!All /\ FreeSlots' = FreeSlots \ {s}
  BY <1>1 DEF FreeSlots, Slots, Claim, Lease!All
<1>3. t \notin Holders /\ Holders' = Holders \cup {t} /\ Holders \subseteq Tasks
  BY DEF AllocateBegin, Holders, PoolInv, PoolTypeOK
<1>4. \A r \in Tasks : slot'[r] = IF r = t THEN s ELSE slot[r]
  BY <1>1 DEF PoolInv, PoolTypeOK
<1>5. \A l \in Leases : l[1] # t
  BY <1>3 DEF Leases
<1>6. Leases' = Leases \cup {<<t, s>>}
  BY <1>3, <1>4 DEF Leases
<1> QED BY <1>2, <1>5, <1>6 DEF Lease!Next, Lease!Grant, Leases

(* A task that stops holding its slot returns it.                          *)
LEMMA UnclaimReturns ==
  ASSUME PoolInv, NEW t \in Tasks, t \in Holders, Unclaim(t),
         slot' = [slot EXCEPT ![t] = NoSlot], Holders' = Holders \ {t}
  PROVE  Lease!Next
<1>1. \A r \in Tasks : r # t => slot'[r] = slot[r]
  BY DEF PoolInv, PoolTypeOK
<1>2. <<t, slot[t]>> \in Leases
  BY DEF Leases
<1>3. Leases' = Leases \ {<<t, slot[t]>>}
  BY <1>1 DEF Leases, Holders
<1>4. slot[t] \in inUse /\ slot[t] \in Slots
  BY DEF PoolInv, PoolTypeOK, SlotAccounting
<1>5. FreeSlots' = FreeSlots \cup {slot[t]}
  BY <1>4 DEF FreeSlots, Unclaim
<1> QED BY <1>2, <1>3, <1>4, <1>5 DEF Lease!Next, Lease!Return, Leases, Slots, Lease!All

(* Every step of the pool is a step of the table, or none.                 *)
LEMMA NextRefines ==
  PoolInv /\ [PoolNext]_poolVars => [Lease!Next]_<<Leases, FreeSlots>>
<1> SUFFICES ASSUME PoolInv, [PoolNext]_poolVars
             PROVE  Lease!Next \/ (Leases' = Leases /\ FreeSlots' = FreeSlots)
  OBVIOUS
<1>1. ASSUME NEW t \in Tasks, AllocateBegin(t)
      PROVE  Lease!Next
  BY <1>1, AllocateBeginGrants
<1>2. ASSUME NEW t \in Tasks, SpawnFailed(t) \/ ReleaseDone(t)
      PROVE  Lease!Next
  <2>1. t \in Holders /\ Holders' = Holders \ {t}
    BY <1>2 DEF SpawnFailed, ReleaseDone, Holders, PoolInv, PoolTypeOK
  <2>2. slot' = [slot EXCEPT ![t] = NoSlot] /\ Unclaim(t)
    BY <1>2 DEF SpawnFailed, ReleaseDone
  <2> QED BY <2>1, <2>2, UnclaimReturns
<1>3. ASSUME NEW t \in Tasks,
             \/ AllocateRefused(t) \/ SpawnReady(t)
             \/ TerminatedExit(t) \/ Release(t) \/ GoIdle(t) \/ Touch(t)
      PROVE  Leases' = Leases /\ FreeSlots' = FreeSlots
  <2>1. Holders' = Holders
    BY <1>3 DEF AllocateRefused, SpawnReady, TerminatedExit,
                Release, GoIdle, Touch, Holders, PoolInv, PoolTypeOK
  <2>2. slot' = slot /\ inUse' = inUse
    BY <1>3 DEF AllocateRefused, SpawnReady, TerminatedExit,
                Release, GoIdle, Touch
  <2> QED BY <2>1, <2>2, SameLeases
<1>4. CASE GcSweep \/ Shutdown
  <2>1. PICK S \in SUBSET Ready : inst' = Drain(S)
    BY <1>4 DEF GcSweep, Shutdown
  <2>2. Holders' = Holders
    BY <2>1 DEF Drain, Ready, Holders, PoolInv, PoolTypeOK
  <2>3. slot' = slot /\ inUse' = inUse
    BY <1>4 DEF GcSweep, Shutdown
  <2> QED BY <2>2, <2>3, SameLeases
<1>5. CASE Exit \/ Crash
  <2>1. Holders' = {} /\ inUse' = {}
    BY <1>5 DEF Exit, Crash, Die, Holders
  <2>2. Leases' = {} /\ FreeSlots' = Lease!All
    BY <2>1 DEF Leases, FreeSlots, Slots, Lease!All
  <2> QED BY <2>2 DEF Leases, Lease!Next, Lease!Forget
<1>6. CASE Boot \/ UNCHANGED poolVars
  <2>1. Holders' = Holders /\ slot' = slot /\ inUse' = inUse
    BY <1>6 DEF Boot, poolVars, Holders
  <2> QED BY <2>1, SameLeases
<1> QED BY <1>1, <1>2, <1>3, <1>4, <1>5, <1>6 DEF PoolNext

(* The pool implements the abstract table (ImplementsSlotLease): a slot    *)
(* changes hands only by coming back first, and none is lost, whatever     *)
(* spawns, deaths, sweeps and crashes do.                                  *)
THEOREM PoolImplementsLease == PoolSpec => ImplementsSlotLease
<1>1. PoolInit => Lease!Init
  BY InitRefines
<1>2. PoolInv /\ [PoolNext]_poolVars => [Lease!Next]_<<Leases, FreeSlots>>
  BY NextRefines
<1> QED
  BY <1>1, <1>2, PoolInvariant, PTL
     DEF PoolSpec, ImplementsSlotLease, Lease!Spec, Leases

-----------------------------------------------------------------------------
(* The composition.                                                        *)

(* Every waiting task is 'queued', and waits once.                         *)
EachWaitsOnce ==
  /\ \A i \in DOMAIN queue : fate[queue[i]] = "queued"
  /\ \A i, j \in DOMAIN queue : queue[i] = queue[j] => i = j

(* The pacing counter is the number of runs that were dispatched and never *)
(* signalled.                                                              *)
RunsArePaced ==
  ~stopped => /\ inFlight = Cardinality(Q!Outstanding)
              /\ inFlight <= MaxInstances

QueueOK ==
  /\ Q!QueueTypeOK
  /\ EachWaitsOnce
  /\ IsFiniteSet(Q!Outstanding)
  /\ RunsArePaced

RowsTypeOK ==
  /\ row \in [Tasks -> RowStates]
  /\ run \in [Tasks -> RunStates]
  /\ deleting \subseteq Tasks

(* A run in any phase was dispatched, and one that has not called allocate *)
(* yet has no instance.                                                    *)
RunsAreDispatched ==
  \A t \in Tasks :
    /\ run[t] # "none" => fate[t] = "running"
    /\ run[t] = "starting" => inst[t] \notin {"spawning", "ready"}

(* The queue is stopped only while the pool shuts down.                    *)
StoppedWithThePool == stopped => shuttingDown /\ up

DispatchInv ==
  /\ PoolInv
  /\ QueueOK
  /\ RowsTypeOK
  /\ RunsAreDispatched
  /\ BrowsersBelongToRuns
  /\ StoppedWithThePool

-----------------------------------------------------------------------------
(* The entries that survive the reap.                                      *)
LEMMA KeptIsSuffix ==
  ASSUME Q!QueueTypeOK
  PROVE  /\ Q!Kept \in Seq(Tasks)
         /\ Len(Q!Kept) = Len(queue) - overdue
         /\ \A i \in 1 .. Len(Q!Kept) : Q!Kept[i] = queue[i + overdue]
  BY DEF Q!QueueTypeOK, Q!Kept

(* What a call of tryDispatch does: it takes a prefix of k entries off the *)
(* queue, of which it starts at most the last one and drops the others.    *)
TakesPrefix(k) ==
  /\ queue' \in Seq(Tasks)
  /\ Len(queue') = Len(queue) - k
  /\ \A i \in 1 .. Len(queue') : queue'[i] = queue[i + k]
  /\ fate' \in [Tasks -> Q!Fates]
  /\ \A t \in Tasks : (\A i \in 1 .. k : queue[i] # t) => fate'[t] = fate[t]
  /\ \A i \in 1 .. k : fate'[queue[i]] \in {"running", "expired"}

(* A call that fires starts the entry behind the overdue ones.             *)
LEMMA FiringTakesPrefix ==
  ASSUME Q!QueueTypeOK, Q!Kept # <<>>, Q!DispatchHead
  PROVE  /\ overdue < Len(queue)
         /\ TakesPrefix(overdue + 1)
         /\ \A t \in Tasks : fate'[t] = IF t = queue[overdue + 1] THEN "running"
                                        ELSE IF t \in Q!Expired THEN "expired"
                                        ELSE fate[t]
<1>1. /\ Q!Kept \in Seq(Tasks)
      /\ Len(Q!Kept) = Len(queue) - overdue
      /\ \A i \in 1 .. Len(Q!Kept) : Q!Kept[i] = queue[i + overdue]
  BY KeptIsSuffix
<1>2. Len(Q!Kept) # 0
  BY <1>1
<1>3. overdue < Len(queue)
  BY <1>1, <1>2 DEF Q!QueueTypeOK
<1>4. Head(Q!Kept) = queue[overdue + 1] /\ queue[overdue + 1] \in Tasks
  BY <1>1, <1>2, <1>3 DEF Q!QueueTypeOK
<1>5. /\ queue' \in Seq(Tasks)
      /\ Len(queue') = Len(queue) - (overdue + 1)
      /\ \A i \in 1 .. Len(queue') : queue'[i] = queue[i + (overdue + 1)]
  BY <1>1, <1>2, <1>3 DEF Q!DispatchHead, Q!QueueTypeOK
<1>6. Q!AfterReap \in [Tasks -> Q!Fates]
  BY DEF Q!AfterReap, Q!QueueTypeOK, Q!Fates
<1>7. /\ fate' \in [Tasks -> Q!Fates]
      /\ \A t \in Tasks : fate'[t] = IF t = queue[overdue + 1] THEN "running"
                                     ELSE IF t \in Q!Expired THEN "expired"
                                     ELSE fate[t]
  BY <1>4, <1>6 DEF Q!DispatchHead, Q!AfterReap, Q!Fates
<1>8. \A t \in Tasks : (\A i \in 1 .. (overdue + 1) : queue[i] # t)
                         => t \notin Q!Expired /\ t # queue[overdue + 1]
  BY DEF Q!Expired, Q!QueueTypeOK
<1>9. \A i \in 1 .. (overdue + 1) :
        queue[i] \in Tasks /\ (queue[i] \in Q!Expired \/ i = overdue + 1)
  BY <1>3 DEF Q!Expired, Q!QueueTypeOK
<1> QED BY <1>3, <1>5, <1>7, <1>8, <1>9 DEF TakesPrefix

(* A call that does not fire drops the overdue entries.                    *)
LEMMA ReapingTakesPrefix ==
  ASSUME Q!QueueTypeOK, queue' = Q!Kept, fate' = Q!AfterReap
  PROVE  /\ TakesPrefix(overdue)
         /\ \A t \in Tasks : fate'[t] = IF t \in Q!Expired THEN "expired"
                                        ELSE fate[t]
<1>1. /\ queue' \in Seq(Tasks)
      /\ Len(queue') = Len(queue) - overdue
      /\ \A i \in 1 .. Len(queue') : queue'[i] = queue[i + overdue]
  BY KeptIsSuffix
<1>2. /\ fate' \in [Tasks -> Q!Fates]
      /\ \A t \in Tasks : fate'[t] = IF t \in Q!Expired THEN "expired"
                                     ELSE fate[t]
  BY DEF Q!AfterReap, Q!QueueTypeOK, Q!Fates
<1>3. \A t \in Tasks : t \in Q!Expired <=> \E i \in 1 .. overdue : queue[i] = t
  BY DEF Q!Expired
<1>4. \A i \in 1 .. overdue : queue[i] \in Tasks
  BY DEF Q!QueueTypeOK
<1> QED BY <1>1, <1>2, <1>3, <1>4 DEF TakesPrefix

(* Taking a prefix leaves each of the others waiting once.                 *)
LEMMA PrefixKeepsWaiting ==
  ASSUME Q!QueueTypeOK, EachWaitsOnce,
         NEW k \in 0 .. Len(queue), TakesPrefix(k)
  PROVE  EachWaitsOnce'
<1>1. DOMAIN queue = 1 .. Len(queue) /\ DOMAIN queue' = 1 .. Len(queue')
  BY DEF Q!QueueTypeOK, TakesPrefix
<1>2. Len(queue) \in Nat /\ Len(queue') \in Nat /\ Len(queue') = Len(queue) - k
  BY DEF Q!QueueTypeOK, TakesPrefix
<1>3. \A i \in DOMAIN queue' : i + k \in DOMAIN queue /\ queue'[i] = queue[i + k]
  BY <1>1, <1>2 DEF TakesPrefix
<1>4. ASSUME NEW i \in DOMAIN queue'
      PROVE  fate'[queue'[i]] = "queued"
  <2>1. queue[i + k] \in Tasks /\ fate[queue[i + k]] = "queued"
    BY <1>3 DEF EachWaitsOnce, Q!QueueTypeOK
  <2>2. \A j \in 1 .. k : queue[j] # queue[i + k]
    BY <1>1, <1>2, <1>3 DEF EachWaitsOnce
  <2> QED BY <1>3, <2>1, <2>2 DEF TakesPrefix
<1>5. ASSUME NEW i \in DOMAIN queue', NEW j \in DOMAIN queue',
             queue'[i] = queue'[j]
      PROVE  i = j
  <2>1. i + k = j + k
    BY <1>3, <1>5 DEF EachWaitsOnce
  <2> QED BY <1>1, <1>2, <2>1
<1> QED BY <1>4, <1>5 DEF EachWaitsOnce

-----------------------------------------------------------------------------
(* A task joins the queue.                                                 *)
LEMMA EnqueueOK ==
  ASSUME QueueOK, NEW t \in Tasks, Q!Enqueue(t)
  PROVE  QueueOK'
<1> USE DEF QueueOK
<1>1. /\ queue' = Append(queue, t)
      /\ \A r \in Tasks : fate'[r] = IF r = t THEN "queued" ELSE fate[r]
      /\ fate[t] = "new"
  BY DEF Q!Enqueue, Q!Admit, Q!QueueTypeOK
<1>2. Q!QueueTypeOK'
  BY DEF Q!Enqueue, Q!Admit, Q!QueueTypeOK, Q!Fates
<1>3. /\ Len(queue) \in Nat
      /\ DOMAIN queue = 1 .. Len(queue)
      /\ DOMAIN queue' = 1 .. (Len(queue) + 1)
      /\ \A i \in 1 .. Len(queue) : queue'[i] = queue[i] /\ queue[i] \in Tasks
      /\ queue'[Len(queue) + 1] = t
  BY <1>1 DEF Q!QueueTypeOK
<1>4. \A i \in DOMAIN queue : queue[i] # t
  BY <1>1 DEF EachWaitsOnce
<1>5. EachWaitsOnce'
  BY <1>1, <1>3, <1>4 DEF EachWaitsOnce
<1>6. Q!Outstanding' = Q!Outstanding /\ UNCHANGED <<inFlight, stopped>>
  BY <1>1 DEF Q!Outstanding, Q!Enqueue, Q!Admit
<1> QED BY <1>2, <1>5, <1>6 DEF RunsArePaced

(* A run is refused, settles or throws.                                    *)
LEMMA CallerOK ==
  ASSUME QueueOK, NEW t \in Tasks,
         Q!EnqueueRejected(t) \/ Q!Settle(t) \/ Q!Throw(t)
  PROVE  QueueOK'
<1> USE DEF QueueOK
<1>1. UNCHANGED queue /\ fate[t] # "queued"
  BY DEF Q!EnqueueRejected, Q!Settle, Q!SignalSlotFreed, Q!Throw
<1>2. Q!QueueTypeOK'
  BY DEF Q!EnqueueRejected, Q!Settle, Q!SignalSlotFreed, Q!Throw,
         Q!QueueTypeOK, Q!Fates
<1>3. \A r \in Tasks : r # t => fate'[r] = fate[r]
  BY DEF Q!EnqueueRejected, Q!Settle, Q!Throw, Q!QueueTypeOK
<1>4. EachWaitsOnce'
  BY <1>1, <1>3 DEF EachWaitsOnce, Q!QueueTypeOK
<1>5. IsFiniteSet(Q!Outstanding)' /\ RunsArePaced'
  <2>1. CASE Q!EnqueueRejected(t) \/ Q!Throw(t)
    <3>1. Q!Outstanding' = Q!Outstanding /\ UNCHANGED <<inFlight, stopped>>
      BY <2>1 DEF Q!Outstanding, Q!EnqueueRejected, Q!Throw, Q!QueueTypeOK
    <3> QED BY <3>1 DEF RunsArePaced
  <2>2. CASE Q!Settle(t)
    <3>1. t \in Q!Outstanding /\ Q!Outstanding' = Q!Outstanding \ {t}
      BY <2>2 DEF Q!Settle, Q!Outstanding, Q!QueueTypeOK
    <3>2. /\ IsFiniteSet(Q!Outstanding')
          /\ Cardinality(Q!Outstanding') = Cardinality(Q!Outstanding) - 1
      BY <3>1, FS_RemoveElement
    <3>3. /\ Cardinality(Q!Outstanding) \in Nat
          /\ Cardinality(Q!Outstanding') \in Nat
      BY <3>2, FS_CardinalityType
    <3>4. ~stopped => ~stopped' /\ inFlight' = IF inFlight > 0 THEN inFlight - 1 ELSE 0
      BY <2>2 DEF Q!Settle, Q!SignalSlotFreed
    <3>5. stopped' = stopped
      BY <2>2 DEF Q!Settle, Q!SignalSlotFreed
    <3> QED BY <3>2, <3>3, <3>4, <3>5, MaxInstancesAssumption DEF RunsArePaced
  <2> QED BY <2>1, <2>2
<1> QED BY <1>2, <1>4, <1>5

(* A call of tryDispatch, and what it does to the fates.                   *)
LEMMA TryDispatchOK ==
  ASSUME QueueOK, Q!TryDispatch, wake' \in Nat
  PROVE  /\ QueueOK'
         /\ \A t \in Tasks : fate'[t] # fate[t] =>
              fate[t] = "queued" /\ fate'[t] \in {"running", "expired"}
<1> USE DEF QueueOK
<1>1. \A r \in Q!Expired : r \in Tasks /\ fate[r] = "queued"
  BY DEF Q!Expired, EachWaitsOnce, Q!QueueTypeOK
<1>2. CASE Q!Fires /\ Q!DispatchHead
  <2> DEFINE h == queue[overdue + 1]
  <2>1. /\ overdue < Len(queue)
        /\ TakesPrefix(overdue + 1)
        /\ \A t \in Tasks : fate'[t] = IF t = h THEN "running"
                                       ELSE IF t \in Q!Expired THEN "expired"
                                       ELSE fate[t]
    BY <1>2, FiringTakesPrefix DEF Q!Fires
  <2>2. h \in Tasks /\ fate[h] = "queued" /\ overdue + 1 \in 0 .. Len(queue)
    BY <2>1 DEF EachWaitsOnce, Q!QueueTypeOK
  <2>3. EachWaitsOnce'
    BY <2>1, <2>2, PrefixKeepsWaiting
  <2>4. Q!QueueTypeOK'
    BY <1>2, <2>1 DEF Q!DispatchHead, Q!TryDispatch, TakesPrefix, Q!QueueTypeOK
  <2>5. h \notin Q!Outstanding /\ Q!Outstanding' = Q!Outstanding \cup {h}
    BY <1>1, <2>1, <2>2 DEF Q!Outstanding
  <2>6. /\ IsFiniteSet(Q!Outstanding')
        /\ Cardinality(Q!Outstanding') = Cardinality(Q!Outstanding) + 1
    BY <2>5, FS_AddElement
  <2>7. inFlight' = inFlight + 1 /\ inFlight < MaxInstances /\ UNCHANGED stopped
    BY <1>2 DEF Q!Fires, Q!DispatchHead, Q!TryDispatch
  <2>8. IsFiniteSet(Q!Outstanding)' /\ RunsArePaced'
    BY <2>6, <2>7, MaxInstancesAssumption DEF RunsArePaced, Q!QueueTypeOK
  <2> QED BY <1>1, <2>1, <2>2, <2>3, <2>4, <2>8
<1>3. CASE queue' = Q!Kept /\ fate' = Q!AfterReap /\ UNCHANGED inFlight
  <2>1. /\ TakesPrefix(overdue)
        /\ \A t \in Tasks : fate'[t] = IF t \in Q!Expired THEN "expired"
                                       ELSE fate[t]
    BY <1>3, ReapingTakesPrefix
  <2>2. EachWaitsOnce'
    BY <2>1, PrefixKeepsWaiting DEF Q!QueueTypeOK
  <2>3. Q!QueueTypeOK'
    BY <1>3, <2>1 DEF Q!TryDispatch, TakesPrefix, Q!QueueTypeOK
  <2>4. Q!Outstanding' = Q!Outstanding /\ UNCHANGED <<inFlight, stopped>>
    BY <1>1, <1>3, <2>1 DEF Q!Outstanding, Q!TryDispatch
  <2> QED BY <1>1, <2>1, <2>2, <2>3, <2>4 DEF RunsArePaced
<1> QED BY <1>2, <1>3 DEF Q!TryDispatch

(* Age, stop, and steps that leave the queue alone.                        *)
LEMMA ClockOK ==
  ASSUME QueueOK, Q!Age \/ Q!Stop \/ UNCHANGED queueVars
  PROVE  QueueOK' /\ UNCHANGED fate
<1> USE DEF QueueOK
<1>1. UNCHANGED <<queue, fate, inFlight>>
  BY DEF Q!Age, Q!Stop, queueVars
<1>2. Q!QueueTypeOK'
  <2>1. CASE Q!Age
    BY <2>1 DEF Q!Age, Q!QueueTypeOK
  <2>2. CASE Q!Stop
    BY <2>2 DEF Q!Stop, Q!QueueTypeOK
  <2>3. CASE UNCHANGED queueVars
    BY <2>3 DEF queueVars, Q!QueueTypeOK
  <2> QED BY <2>1, <2>2, <2>3
<1>3. stopped' \/ UNCHANGED stopped
  BY DEF Q!Age, Q!Stop, queueVars
<1>4. Q!Outstanding' = Q!Outstanding
  BY <1>1 DEF Q!Outstanding
<1> QED BY <1>1, <1>2, <1>3, <1>4 DEF EachWaitsOnce, RunsArePaced

(* The queue of a process that ended counts nothing.                       *)
LEMMA ForgetOK ==
  ASSUME ForgetQueue
  PROVE  QueueOK'
<1>1. Q!Outstanding' = {}
  BY DEF ForgetQueue, Q!Outstanding
<1>2. queue' = <<>> /\ Len(queue') = 0 /\ DOMAIN queue' = {} /\ queue' \in Seq(Tasks)
  BY DEF ForgetQueue
<1>3. Q!QueueTypeOK'
  <2>1. fate' \in [Tasks -> Q!Fates]
    BY DEF ForgetQueue, Q!Fates
  <2>2. overdue' = 0 /\ inFlight' = 0 /\ wake' = 0 /\ stopped' = FALSE
    BY DEF ForgetQueue
  <2>3. queue' \in Seq(Tasks) /\ overdue' \in 0 .. Len(queue')
    <3>1. queue' = <<>> /\ overdue' = 0
      BY DEF ForgetQueue
    <3> QED BY <3>1
  <2>4. inFlight' \in Nat /\ wake' \in Nat /\ stopped' \in BOOLEAN
    BY <2>2
  <2> QED BY <2>1, <2>3, <2>4 DEF Q!QueueTypeOK
<1>4. EachWaitsOnce'
  BY <1>2 DEF EachWaitsOnce
<1>5. IsFiniteSet(Q!Outstanding') /\ Cardinality(Q!Outstanding') = 0
  BY <1>1, FS_EmptySet
<1>6. RunsArePaced'
  BY <1>5, MaxInstancesAssumption DEF ForgetQueue, RunsArePaced
<1> QED BY <1>3, <1>4, <1>5, <1>6 DEF QueueOK

-----------------------------------------------------------------------------
(* The pool's half of a step of the composition.                           *)
LEMMA StepsThePool == [Next]_vars => [PoolNext]_poolVars
  BY DEF Next, Steps, Restarts, Create, Enqueue, EnqueueRejected, Start,
         StartRefused, Allocated, AllocateFailed, Finish, Finally, Watchdog,
         ReleaseIfReady, DeleteCheck, DeleteCommit, Microtask, Tick, Age, Hear,
         ZombieReaper, PoolStep, ShutDown, ExitProcess, CrashProcess,
         BootProcess, PoolNext, vars

(* The queue's half.                                                       *)
LEMMA StepsTheQueue == QueueOK /\ [Next]_vars => QueueOK'
<1> SUFFICES ASSUME QueueOK, [Next]_vars PROVE QueueOK'
  OBVIOUS
<1>1. ASSUME NEW t \in Tasks, Enqueue(t)
      PROVE  QueueOK'
  BY <1>1, EnqueueOK DEF Enqueue
<1>2. ASSUME NEW t \in Tasks,
             \/ EnqueueRejected(t) \/ StartRefused(t)
             \/ AllocateFailed(t) \/ Finally(t)
      PROVE  QueueOK'
  BY <1>2, CallerOK DEF EnqueueRejected, StartRefused, AllocateFailed, Finally
<1>3. CASE Microtask \/ Tick
  <2>1. Q!TryDispatch /\ wake' \in Nat
    BY <1>3 DEF Microtask, Tick, Q!Microtask, Q!Tick, QueueOK, Q!QueueTypeOK
  <2> QED BY <2>1, TryDispatchOK
<1>4. CASE Age \/ ShutDown
  BY <1>4, ClockOK DEF Age, ShutDown
<1>5. CASE ExitProcess \/ CrashProcess
  BY <1>5, ForgetOK DEF ExitProcess, CrashProcess
<1>6. CASE UNCHANGED queueVars
  BY <1>6, ClockOK
<1>7. ASSUME NEW t \in Tasks,
             \/ Create(t) \/ Start(t) \/ Allocated(t) \/ Finish(t)
             \/ Watchdog(t) \/ DeleteCheck(t) \/ DeleteCommit(t)
      PROVE  UNCHANGED queueVars
  BY <1>7 DEF Create, Start, Allocated, Finish, Watchdog, DeleteCheck,
              DeleteCommit
<1>8. ZombieReaper \/ PoolStep \/ BootProcess \/ UNCHANGED vars
        => UNCHANGED queueVars
  BY DEF ZombieReaper, PoolStep, BootProcess, vars
<1> QED
  BY <1>1, <1>2, <1>3, <1>4, <1>5, <1>6, <1>7, <1>8
     DEF Next, Steps, Restarts

(* The types of the rows and runs.                                         *)
LEMMA StepsTheRows == RowsTypeOK /\ [Next]_vars => RowsTypeOK'
<1> SUFFICES ASSUME RowsTypeOK, [Next]_vars PROVE RowsTypeOK'
  OBVIOUS
<1> USE DEF RowsTypeOK, RowStates, RunStates
<1>1. ASSUME NEW t \in Tasks,
             \/ Create(t) \/ Enqueue(t) \/ EnqueueRejected(t) \/ Start(t)
             \/ StartRefused(t) \/ Allocated(t) \/ AllocateFailed(t)
      PROVE  RowsTypeOK'
  BY <1>1 DEF Create, Enqueue, EnqueueRejected, Start, StartRefused, Allocated,
              AllocateFailed, SetRow, SetRun, rowVars
<1>2. ASSUME NEW t \in Tasks,
             \/ Finish(t) \/ Finally(t) \/ Watchdog(t) \/ DeleteCheck(t)
             \/ DeleteCommit(t)
      PROVE  RowsTypeOK'
  BY <1>2 DEF Finish, Finally, Watchdog, DeleteCheck, DeleteCommit, SetRow,
              SetRun, rowVars
<1>3. CASE Microtask \/ Tick
  BY <1>3 DEF Microtask, Tick, Hear
<1>4. CASE ZombieReaper \/ BootProcess
  BY <1>4 DEF ZombieReaper, BootProcess
<1>5. CASE ExitProcess \/ CrashProcess
  BY <1>5 DEF ExitProcess, CrashProcess, ForgetQueue
<1>6. CASE Age \/ PoolStep \/ ShutDown \/ UNCHANGED vars
  BY <1>6 DEF Age, PoolStep, ShutDown, vars, rowVars
<1> QED BY <1>1, <1>2, <1>3, <1>4, <1>5, <1>6 DEF Next, Steps, Restarts

-----------------------------------------------------------------------------
(* What ties instances, runs and fates together.                           *)
RunsOwnBrowsers == RunsAreDispatched /\ BrowsersBelongToRuns

(* A step that touches neither instances, runs nor fates keeps it.         *)
LEMMA SameRuns ==
  ASSUME RunsOwnBrowsers, UNCHANGED <<inst, run, fate>>
  PROVE  RunsOwnBrowsers'
  BY DEF RunsOwnBrowsers, RunsAreDispatched, BrowsersBelongToRuns

(* A step of one run, from its dispatch to its end.                        *)
LEMMA RunKeepsOwnership ==
  ASSUME PoolTypeOK, QueueOK, RowsTypeOK, RunsOwnBrowsers, NEW t \in Tasks,
         \/ Enqueue(t) \/ EnqueueRejected(t) \/ Start(t) \/ StartRefused(t)
         \/ Allocated(t) \/ AllocateFailed(t) \/ Finish(t)
         \/ Finally(t) \/ Watchdog(t)
  PROVE  RunsOwnBrowsers'
<1> USE DEF RunsOwnBrowsers, RunsAreDispatched, BrowsersBelongToRuns,
            PoolTypeOK, QueueOK, Q!QueueTypeOK, RowsTypeOK
<1>1. CASE Enqueue(t) \/ EnqueueRejected(t)
  BY <1>1 DEF Enqueue, EnqueueRejected, Q!Enqueue, Q!Admit, Q!EnqueueRejected,
              poolVars, rowVars
<1>2. CASE Start(t)
  BY <1>2 DEF Start, AllocateBegin, SetRun, queueVars
<1>3. CASE StartRefused(t)
  BY <1>3 DEF StartRefused, AllocateRefused, Q!Throw, SetRun
<1>4. CASE Allocated(t)
  BY <1>4 DEF Allocated, SpawnReady, SetRun, queueVars
<1>5. CASE AllocateFailed(t)
  BY <1>5 DEF AllocateFailed, SpawnFailed, Q!Throw, SetRun
<1>6. CASE Finish(t)
  BY <1>6 DEF Finish, SetRun, queueVars, poolVars
<1>7. CASE Finally(t)
  <2>1. inst'[t] # "ready" /\ inst'[t] # "spawning"
    BY <1>7 DEF Finally, ReleaseIfReady, Release, poolVars
  <2>2. \A r \in Tasks : r # t => /\ inst'[r] = inst[r]
                                 /\ fate'[r] = fate[r]
                                 /\ run'[r] = run[r]
    BY <1>7 DEF Finally, ReleaseIfReady, Release, Q!Settle, SetRun, poolVars
  <2>3. run'[t] = "none"
    BY <1>7 DEF Finally, SetRun
  <2> QED BY <2>1, <2>2, <2>3
<1>8. CASE Watchdog(t)
  BY <1>8 DEF Watchdog, Release, queueVars, rowVars
<1> QED
  BY <1>1, <1>2, <1>3, <1>4, <1>5, <1>6, <1>7, <1>8

(* What the queue and the pool do on their own.                            *)
LEMMA RestKeepsOwnership ==
  ASSUME PoolTypeOK, QueueOK, RowsTypeOK, RunsOwnBrowsers,
         \/ Microtask \/ Tick \/ PoolStep \/ ShutDown
         \/ ExitProcess \/ CrashProcess \/ BootProcess
  PROVE  RunsOwnBrowsers'
<1> USE DEF RunsOwnBrowsers, RunsAreDispatched, BrowsersBelongToRuns
<1>1. CASE Microtask \/ Tick
  <2>1. Q!TryDispatch /\ wake' \in Nat /\ Hear
    BY <1>1 DEF Microtask, Tick, Q!Microtask, Q!Tick, QueueOK, Q!QueueTypeOK
  <2>2. \A t \in Tasks : fate'[t] # fate[t] =>
          fate[t] = "queued" /\ fate'[t] \in {"running", "expired"}
    BY <2>1, TryDispatchOK
  <2>3. \A t \in Tasks :
          run'[t] = IF fate'[t] = "running" /\ fate[t] = "queued"
                    THEN "starting" ELSE run[t]
    BY <2>1 DEF Hear
  <2>4. UNCHANGED inst
    BY <2>1 DEF Hear, poolVars
  <2> QED BY <2>2, <2>3, <2>4
<1>2. CASE PoolStep \/ ShutDown \/ BootProcess
  <2>1. UNCHANGED <<run, fate>>
    BY <1>2 DEF PoolStep, ShutDown, BootProcess, Q!Stop, queueVars, rowVars
  <2>2. ASSUME NEW t \in Tasks
        PROVE  inst'[t] \in {"spawning", "ready"} => inst'[t] = inst[t]
    <3>1. CASE PoolStep
      BY <3>1 DEF PoolStep, TerminatedExit, ReleaseDone, GoIdle, Touch, Release,
                  GcSweep, Drain, Ready, PoolTypeOK
    <3>2. CASE ShutDown \/ BootProcess
      BY <3>2 DEF ShutDown, Shutdown, Drain, Ready, BootProcess, Boot
    <3> QED BY <1>2, <3>1, <3>2
  <2> QED BY <2>1, <2>2
<1>3. CASE ExitProcess \/ CrashProcess
  <2>1. \A t \in Tasks : run'[t] = "none" /\ inst'[t] \in {"none", "gone"}
    BY <1>3 DEF ExitProcess, CrashProcess, ForgetQueue, Exit, Crash, Die
  <2> QED BY <2>1
<1> QED BY <1>1, <1>2, <1>3

(* Every step keeps it.                                                    *)
LEMMA StepsTheRuns ==
  PoolTypeOK /\ QueueOK /\ RowsTypeOK /\ RunsOwnBrowsers /\ [Next]_vars
    => RunsOwnBrowsers'
<1> SUFFICES ASSUME PoolTypeOK, QueueOK, RowsTypeOK, RunsOwnBrowsers, [Next]_vars
             PROVE  RunsOwnBrowsers'
  OBVIOUS
<1>1. ASSUME NEW t \in Tasks,
             \/ Enqueue(t) \/ EnqueueRejected(t) \/ Start(t) \/ StartRefused(t)
             \/ Allocated(t) \/ AllocateFailed(t) \/ Finish(t)
             \/ Finally(t) \/ Watchdog(t)
      PROVE  RunsOwnBrowsers'
  BY <1>1, RunKeepsOwnership
<1>2. CASE \/ Microtask \/ Tick \/ PoolStep \/ ShutDown
           \/ ExitProcess \/ CrashProcess \/ BootProcess
  BY <1>2, RestKeepsOwnership
<1>3. ASSUME \/ \E t \in Tasks : Create(t) \/ DeleteCheck(t) \/ DeleteCommit(t)
             \/ Age \/ ZombieReaper \/ UNCHANGED vars
      PROVE  UNCHANGED <<inst, run, fate>>
  BY <1>3 DEF Create, DeleteCheck, DeleteCommit, Age, Q!Age, ZombieReaper, vars,
              poolVars, queueVars, rowVars
<1> QED BY <1>1, <1>2, <1>3, SameRuns DEF Next, Steps, Restarts

(* A stopped queue lives in a process that is shutting down.               *)
LEMMA StepsTheStop == StoppedWithThePool /\ [Next]_vars => StoppedWithThePool'
<1> SUFFICES ASSUME StoppedWithThePool, [Next]_vars PROVE StoppedWithThePool'
  OBVIOUS
<1> USE DEF StoppedWithThePool
<1>1. CASE ShutDown
  BY <1>1 DEF ShutDown, Shutdown, Q!Stop
<1>2. CASE ExitProcess \/ CrashProcess
  BY <1>2 DEF ExitProcess, CrashProcess, ForgetQueue
<1>3. CASE BootProcess
  BY <1>3 DEF BootProcess, Boot, queueVars
<1>4. CASE Steps \/ UNCHANGED vars
  <2>1. stopped' = stopped
    BY <1>4 DEF Steps, Create, Enqueue, EnqueueRejected, Start, StartRefused,
         Allocated, AllocateFailed, Finish, Finally, Watchdog, DeleteCheck,
         DeleteCommit, Microtask, Tick, Age, ZombieReaper, PoolStep, vars,
         queueVars, Q!Enqueue, Q!Admit, Q!EnqueueRejected, Q!Throw, Q!Settle,
         Q!SignalSlotFreed, Q!Microtask, Q!Tick, Q!TryDispatch, Q!Age
  <2>2. UNCHANGED <<shuttingDown, up>>
    BY <1>4 DEF Steps, Create, Enqueue, EnqueueRejected, Start, StartRefused,
         Allocated, AllocateFailed, Finish, Finally, Watchdog, DeleteCheck,
         DeleteCommit, Microtask, Tick, Age, ZombieReaper, PoolStep, vars,
         poolVars, Hear, AllocateBegin, AllocateRefused, SpawnReady, SpawnFailed,
         ReleaseIfReady, Release, TerminatedExit, ReleaseDone, GoIdle, Touch,
         GcSweep
  <2> QED BY <2>1, <2>2
<1> QED BY <1>1, <1>2, <1>3, <1>4 DEF Next, Restarts

-----------------------------------------------------------------------------
(* Nothing runs at first.                                                  *)
LEMMA DispatchInit == Init => DispatchInv
<1> SUFFICES ASSUME Init PROVE DispatchInv
  OBVIOUS
<1>1. PoolInv
  BY InitInv DEF Init
<1>2. QueueOK
  <2>1. Q!Outstanding = {}
    BY DEF Init, Q!QueueInit, Q!Outstanding
  <2>2. queue \in Seq(Tasks) /\ overdue \in 0 .. Len(queue) /\ DOMAIN queue = {}
    <3>1. queue = <<>> /\ overdue = 0
      BY DEF Init, Q!QueueInit
    <3> QED BY <3>1
  <2>3. Q!QueueTypeOK
    <3>1. inFlight \in Nat /\ wake \in Nat /\ stopped \in BOOLEAN
      BY DEF Init, Q!QueueInit
    <3>2. fate \in [Tasks -> Q!Fates]
      BY DEF Init, Q!QueueInit, Q!Fates
    <3> QED BY <2>2, <3>1, <3>2 DEF Q!QueueTypeOK
  <2>4. RunsArePaced /\ IsFiniteSet(Q!Outstanding)
    BY <2>1, FS_EmptySet, MaxInstancesAssumption
       DEF RunsArePaced, Init, Q!QueueInit
  <2> QED BY <2>2, <2>3, <2>4 DEF QueueOK, EachWaitsOnce
<1>3. RowsTypeOK /\ RunsAreDispatched /\ BrowsersBelongToRuns
  BY DEF Init, PoolInit, RowsTypeOK, RowStates, RunStates, RunsAreDispatched,
         BrowsersBelongToRuns
<1>4. StoppedWithThePool
  BY DEF Init, Q!QueueInit, StoppedWithThePool
<1> QED BY <1>1, <1>2, <1>3, <1>4 DEF DispatchInv

(* DispatchInv is inductive.                                               *)
LEMMA DispatchNext == DispatchInv /\ [Next]_vars => DispatchInv'
<1> SUFFICES ASSUME DispatchInv, [Next]_vars PROVE DispatchInv'
  OBVIOUS
<1> USE DEF DispatchInv
<1>1. PoolInv'  BY StepsThePool, NextInv
<1>2. QueueOK'  BY StepsTheQueue
<1>3. RowsTypeOK'  BY StepsTheRows
<1>4. RunsAreDispatched' /\ BrowsersBelongToRuns'
  BY StepsTheRuns DEF RunsOwnBrowsers, PoolInv
<1>5. StoppedWithThePool'  BY StepsTheStop
<1> QED BY <1>1, <1>2, <1>3, <1>4, <1>5

(* The inductive invariant holds in every reachable state.                 *)
THEOREM DispatchInvariant == Spec => []DispatchInv
  BY DispatchInit, DispatchNext, PTL DEF Spec

(* Type correctness of the composition.                                    *)
THEOREM DispatchTypeCorrect == Spec => []DispatchTypeOK
<1>1. DispatchInv => DispatchTypeOK
  BY DEF DispatchInv, PoolInv, QueueOK, RowsTypeOK, DispatchTypeOK
<1> QED BY <1>1, DispatchInvariant, PTL

(* For any number of tasks and any pool size, no browser is kept without a *)
(* dispatched run that will release it, through crashes and shutdowns.     *)
THEOREM NoBrowserWithoutRun == Spec => []BrowsersBelongToRuns
  BY DispatchInvariant, PTL DEF DispatchInv

(* The pool keeps its accounting under the calls the composition makes.    *)
THEOREM SlotsStayExclusive == Spec => []SlotAccounting
<1>1. DispatchInv => SlotAccounting
  BY DEF DispatchInv, PoolInv
<1> QED BY <1>1, DispatchInvariant, PTL

(* When no slot is free and none is being given back, every slot is held   *)
(* by a run the queue counts: there are as many of those as slots.         *)
LEMMA FullPoolIsCounted ==
  ASSUME DispatchInv, FreeSlots = {}, \A r \in Tasks : inst[r] # "draining",
         NEW t \in Tasks, run[t] = "starting"
  PROVE  Cardinality(Q!Outstanding) >= MaxInstances + 1
<1> USE DEF DispatchInv
<1>1. Holders \subseteq Q!Outstanding /\ t \in Q!Outstanding /\ t \notin Holders
  BY DEF Holders, Q!Outstanding, BrowsersBelongToRuns, RunsAreDispatched
<1>2. IsFiniteSet(Holders) /\ IsFiniteSet(Holders \cup {t})
  BY <1>1, FS_Subset, FS_AddElement DEF QueueOK
<1>3. Slots = {slot[r] : r \in Holders}
  BY DEF FreeSlots, PoolInv, PoolTypeOK, SlotAccounting
<1>4. Cardinality(Slots) <= Cardinality(Holders)
  <2> DEFINE f == [r \in Holders |-> slot[r]]
  <2>1. f \in Surjection(Holders, Slots)
    BY <1>3 DEF Surjection
  <2> QED BY <2>1, <1>2, FS_Surjection
<1>5. Cardinality(Slots) = MaxInstances
  BY FS_Interval, MaxInstancesAssumption DEF Slots
<1>6. Cardinality(Holders \cup {t}) = Cardinality(Holders) + 1
  BY <1>1, <1>2, FS_AddElement
<1>7. Cardinality(Holders \cup {t}) <= Cardinality(Q!Outstanding)
  BY <1>1, FS_Subset DEF QueueOK
<1>8. Cardinality(Holders) \in Nat /\ Cardinality(Q!Outstanding) \in Nat
  BY <1>2, FS_CardinalityType DEF QueueOK
<1> QED BY <1>4, <1>5, <1>6, <1>7, <1>8, MaxInstancesAssumption

(* The queue's pacing and the pool's accounting together: a dispatched     *)
(* task is refused a browser only while one is being torn down or the pool *)
(* shuts down, for every pool size.                                        *)
THEOREM RefusalsAreRare == Spec => RefusedOnlyWhileDraining
<1> DEFINE A == \A t \in Tasks : StartRefused(t) =>
                  shuttingDown \/ \E r \in Tasks : inst[r] = "draining"
<1>1. DispatchInv /\ [Next]_vars => [A]_vars
  <2> SUFFICES ASSUME DispatchInv, NEW t \in Tasks, StartRefused(t),
                      ~shuttingDown, \A r \in Tasks : inst[r] # "draining"
               PROVE  FALSE
    OBVIOUS
  <2>1. FreeSlots = {} /\ run[t] = "starting"
    BY DEF StartRefused, AllocateRefused, CanAllocate
  <2>2. Cardinality(Q!Outstanding) >= MaxInstances + 1
    BY <2>1, FullPoolIsCounted
  <2>3. inFlight = Cardinality(Q!Outstanding) /\ inFlight <= MaxInstances
    BY DEF DispatchInv, QueueOK, RunsArePaced, StoppedWithThePool
  <2> QED BY <2>2, <2>3, MaxInstancesAssumption DEF DispatchInv, QueueOK, Q!QueueTypeOK
<1> QED BY <1>1, DispatchInvariant, PTL DEF Spec, RefusedOnlyWhileDraining

-----------------------------------------------------------------------------
(* What the composition is to its parts: each of its steps is a step of    *)
(* the pool or leaves the pool alone, and a step of the queue, the end of  *)
(* the queue's process, or none of its business.                           *)
LEMMA StepsOfThePool == [Next]_vars => [PoolNext]_poolVars
<1> SUFFICES ASSUME [Next]_vars PROVE PoolNext \/ UNCHANGED poolVars
  OBVIOUS
<1>1. ASSUME NEW t \in Tasks,
             \/ Create(t) \/ Enqueue(t) \/ EnqueueRejected(t) \/ Finish(t)
             \/ DeleteCheck(t) \/ DeleteCommit(t)
      PROVE  UNCHANGED poolVars
  BY <1>1 DEF Create, Enqueue, EnqueueRejected, Finish, DeleteCheck, DeleteCommit
<1>2. ASSUME NEW t \in Tasks,
             \/ Start(t) \/ StartRefused(t) \/ Allocated(t) \/ AllocateFailed(t)
             \/ Finally(t) \/ Watchdog(t)
      PROVE  PoolNext \/ UNCHANGED poolVars
  BY <1>2 DEF Start, StartRefused, Allocated, AllocateFailed, Finally,
              ReleaseIfReady, Watchdog, PoolNext
<1>3. CASE Microtask \/ Tick \/ Age \/ ZombieReaper \/ UNCHANGED vars
  BY <1>3 DEF Microtask, Tick, Age, ZombieReaper, Hear, vars
<1>4. CASE PoolStep
  BY <1>4 DEF PoolStep, PoolNext
<1>5. CASE Restarts
  BY <1>5 DEF Restarts, ShutDown, ExitProcess, CrashProcess, BootProcess, PoolNext
<1> QED BY <1>1, <1>2, <1>3, <1>4, <1>5 DEF Next, Steps

LEMMA StepsOfTheQueue ==
  [Next]_vars => Q!QueueStep \/ ForgetQueue \/ UNCHANGED queueVars
<1> SUFFICES ASSUME [Next]_vars
             PROVE  Q!QueueStep \/ ForgetQueue \/ UNCHANGED queueVars
  OBVIOUS
<1>1. ASSUME NEW t \in Tasks,
             \/ Create(t) \/ Start(t) \/ Allocated(t) \/ Finish(t) \/ Watchdog(t)
             \/ DeleteCheck(t) \/ DeleteCommit(t)
      PROVE  UNCHANGED queueVars
  BY <1>1 DEF Create, Start, Allocated, Finish, Watchdog, DeleteCheck, DeleteCommit
<1>2. ASSUME NEW t \in Tasks,
             \/ Enqueue(t) \/ EnqueueRejected(t) \/ StartRefused(t)
             \/ AllocateFailed(t) \/ Finally(t)
      PROVE  Q!QueueStep
  BY <1>2 DEF Enqueue, EnqueueRejected, StartRefused, AllocateFailed, Finally,
              Q!QueueStep
<1>3. CASE Microtask \/ Tick \/ Age
  BY <1>3 DEF Microtask, Tick, Age, Q!QueueStep
<1>4. CASE ZombieReaper \/ PoolStep \/ UNCHANGED vars
  BY <1>4 DEF ZombieReaper, PoolStep, vars
<1>5. CASE Restarts
  BY <1>5 DEF Restarts, ShutDown, ExitProcess, CrashProcess, BootProcess, Q!QueueStep
<1> QED BY <1>1, <1>2, <1>3, <1>4, <1>5 DEF Next, Steps

(* The dispatcher drives the pool within the pool's own specification, so  *)
(* that whatever holds of every behaviour of BrowserPool holds of the      *)
(* composition: runs, watchdogs, shutdowns and crashes included.           *)
THEOREM DispatchRefinesPool == Spec => PoolSpec
<1>1. Init => PoolInit
  BY DEF Init
<1>2. [Next]_vars => [PoolNext]_poolVars
  BY StepsOfThePool
<1> QED BY <1>1, <1>2, PTL DEF Spec, PoolSpec

(* With the dispatcher's runs as the owners, slots are leases: one owner   *)
(* each, given back before they are granted again (ImplementsSlotLease).   *)
THEOREM DispatchImplementsLease == Spec => ImplementsSlotLease
  BY DispatchRefinesPool, PoolImplementsLease

(* Whatever a run, its watchdog or a crash leaves behind, the only         *)
(* processes without an instance are those of a failed spawn               *)
(* (LeftoversOnlyFromFailedSpawns).                                        *)
THEOREM DispatchForgetsNoProcess == Spec => []LeftoversOnlyFromFailedSpawns
  BY DispatchRefinesPool, NoForgottenProcess

(* Only the entry behind the overdue ones is ever started.                 *)
LEMMA DispatchStepIsFifo ==
  ASSUME DispatchInv, [Next]_vars,
         NEW i \in DOMAIN queue, NEW j \in DOMAIN queue,
         i < j, fate'[queue[j]] = "running"
  PROVE  fate'[queue[i]] # "queued"
<1> USE DEF DispatchInv, QueueOK
<1>1. /\ queue[i] \in Tasks /\ fate[queue[i]] = "queued"
      /\ queue[j] \in Tasks /\ fate[queue[j]] = "queued"
  BY DEF EachWaitsOnce, Q!QueueTypeOK
<1>2. Q!TryDispatch
  <2>1. ASSUME NEW t \in Tasks,
               Q!Enqueue(t) \/ Q!EnqueueRejected(t) \/ Q!Settle(t) \/ Q!Throw(t)
        PROVE  FALSE
    BY <1>1, <2>1
       DEF Q!Enqueue, Q!Admit, Q!EnqueueRejected, Q!Settle, Q!Throw, Q!QueueTypeOK
  <2>2. ~ (Q!Age \/ Q!Stop \/ UNCHANGED queueVars)
    BY <1>1 DEF Q!Age, Q!Stop, queueVars
  <2>3. ~ ForgetQueue
    BY <1>1 DEF ForgetQueue
  <2> QED BY <2>1, <2>2, <2>3, StepsOfTheQueue DEF Q!QueueStep, Q!Microtask, Q!Tick
<1>3. CASE Q!Fires /\ Q!DispatchHead
  <2>1. /\ overdue < Len(queue)
        /\ \A t \in Tasks : fate'[t] = IF t = queue[overdue + 1] THEN "running"
                                       ELSE IF t \in Q!Expired THEN "expired"
                                       ELSE fate[t]
    BY <1>3, FiringTakesPrefix DEF Q!Fires
  <2>2. queue[j] = queue[overdue + 1]
    BY <1>1, <2>1
  <2>3. j = overdue + 1
    BY <2>1, <2>2 DEF EachWaitsOnce, Q!QueueTypeOK
  <2>4. queue[i] \in Q!Expired
    BY <2>3 DEF Q!Expired, Q!QueueTypeOK
  <2> QED BY <1>1, <2>1, <2>4
<1>4. CASE queue' = Q!Kept /\ fate' = Q!AfterReap /\ UNCHANGED inFlight
  BY <1>1, <1>4, ReapingTakesPrefix
<1> QED BY <1>2, <1>3, <1>4 DEF Q!TryDispatch

(* Single global FIFO, over restarts as well: no task is dispatched while  *)
(* one that was enqueued before it keeps waiting.                          *)
THEOREM DispatchIsFifo == Spec => Q!Fifo
<1> DEFINE A == \A i, j \in DOMAIN queue :
                  i < j /\ fate'[queue[j]] = "running"
                    => fate'[queue[i]] # "queued"
<1>1. DispatchInv /\ [Next]_vars => [A]_Q!vars
  BY DispatchStepIsFifo
<1> QED BY <1>1, DispatchInvariant, PTL DEF Spec, Q!Fifo
-----------------------------------------------------------------------------
(* The rows and TaskLife.  A task that waits, or whose run has not called  *)
(* allocate, has a row that nobody has settled but a delete; a run under   *)
(* way may have been reaped, not completed.                                *)
RowsFitRuns ==
  \A t \in Tasks :
    /\ row[t] = "none" => fate[t] = "new" /\ t \notin deleting
    /\ fate[t] \in {"new", "queued"} => row[t] \in {"none", "queued", "deleted"}
    /\ run[t] = "starting" => row[t] \in {"queued", "deleted"}
    /\ run[t] \in {"allocating", "agent"} => row[t] \in {"executing", "failed", "deleted"}

(* What a step of the queue's worker does to rows, fates and runs.         *)
LEMMA HearSays ==
  ASSUME DispatchInv, Microtask \/ Tick, NEW t \in Tasks
  PROVE  /\ row'[t] = IF fate'[t] = "expired" /\ fate[t] = "queued" /\ row[t] # "deleted"
                      THEN "failed" ELSE row[t]
         /\ run'[t] = IF fate'[t] = "running" /\ fate[t] = "queued"
                      THEN "starting" ELSE run[t]
         /\ fate'[t] # fate[t] => fate[t] = "queued" /\ fate'[t] \in {"running", "expired"}
         /\ UNCHANGED deleting
<1>1. Q!TryDispatch /\ wake' \in Nat /\ Hear
  BY DEF Microtask, Tick, Q!Microtask, Q!Tick, DispatchInv, QueueOK, Q!QueueTypeOK
<1>2. fate'[t] # fate[t] => fate[t] = "queued" /\ fate'[t] \in {"running", "expired"}
  BY <1>1, TryDispatchOK DEF DispatchInv
<1> QED BY <1>1, <1>2 DEF Hear

(* Rows go on fitting their runs.                                          *)
LEMMA RowsStayFit ==
  ASSUME DispatchInv, RowsFitRuns, [Next]_vars
  PROVE  RowsFitRuns'
<1> USE DEF DispatchInv, QueueOK, RowsTypeOK, Q!QueueTypeOK
<1>1. ASSUME NEW t \in Tasks, Create(t) \/ DeleteCheck(t) \/ DeleteCommit(t)
      PROVE  RowsFitRuns'
  BY <1>1 DEF RowsFitRuns, Create, DeleteCheck, DeleteCommit, queueVars
<1>2. ASSUME NEW t \in Tasks, Enqueue(t) \/ EnqueueRejected(t)
      PROVE  RowsFitRuns'
  BY <1>2 DEF RowsFitRuns, RunsAreDispatched, Enqueue, EnqueueRejected, SetRow,
              Q!Enqueue, Q!Admit, Q!EnqueueRejected, rowVars
<1>3. ASSUME NEW t \in Tasks, Start(t) \/ StartRefused(t)
      PROVE  RowsFitRuns'
  BY <1>3 DEF RowsFitRuns, RunsAreDispatched, Start, StartRefused, SetRow, SetRun,
              Q!Throw, queueVars
<1>4. ASSUME NEW t \in Tasks, Allocated(t) \/ AllocateFailed(t) \/ Finish(t) \/ Finally(t)
      PROVE  RowsFitRuns'
  BY <1>4 DEF RowsFitRuns, RunsAreDispatched, Allocated, AllocateFailed, Finish,
              Finally, SetRow, SetRun, Q!Throw, Q!Settle, queueVars
<1>5. CASE Microtask \/ Tick
  BY <1>5, HearSays DEF RowsFitRuns, RunsAreDispatched
<1>6. CASE ZombieReaper \/ BootProcess
  BY <1>6 DEF RowsFitRuns, RunsAreDispatched, ZombieReaper, BootProcess, queueVars
<1>7. CASE ExitProcess \/ CrashProcess
  BY <1>7 DEF RowsFitRuns, ExitProcess, CrashProcess, ForgetQueue
<1>8. ASSUME \/ \E t \in Tasks : Watchdog(t)
             \/ Age \/ PoolStep \/ ShutDown \/ UNCHANGED vars
      PROVE  RowsFitRuns'
  <2>1. UNCHANGED <<row, run, deleting, fate>>
    BY <1>8 DEF Watchdog, Age, Q!Age, PoolStep, ShutDown, Q!Stop, vars, queueVars,
                rowVars
  <2> QED BY <2>1 DEF RowsFitRuns
<1> QED BY <1>1, <1>2, <1>3, <1>4, <1>5, <1>6, <1>7, <1>8 DEF Next, Steps, Restarts

(* A row set by a run that is under way ends or begins its task.           *)
LEMMA RunsLive ==
  ASSUME DispatchInv, RowsFitRuns, NEW t \in Tasks,
         EnqueueRejected(t) \/ Start(t) \/ StartRefused(t) \/ Finish(t)
  PROVE  [Life!Next]_row
<1> USE DEF DispatchInv, RowsTypeOK, RowsFitRuns
<1>1. CASE Start(t) \/ StartRefused(t)
  <2>1. row' = [row EXCEPT ![t] = IF @ = "deleted" THEN "deleted" ELSE "executing"]
    BY <1>1 DEF Start, StartRefused, SetRow
  <2>2. row[t] \in {"queued", "deleted"}
    BY <1>1 DEF Start, StartRefused
  <2>3. CASE row[t] = "queued"
    BY <2>1, <2>3 DEF Life!Next, Life!Begin, Life!Moves
  <2>4. CASE row[t] = "deleted"
    BY <2>1, <2>4
  <2> QED BY <2>2, <2>3, <2>4
<1>2. ASSUME row[t] \in {"queued", "executing", "failed", "deleted"},
             row' = [row EXCEPT ![t] = IF @ = "deleted" THEN "deleted" ELSE "failed"]
      PROVE  [Life!Next]_row
  <2>1. CASE row[t] \in {"queued", "executing"}
    <3>1. row' = [r \in Tasks |-> IF r \in {t} THEN "failed" ELSE row[r]]
      BY <1>2, <2>1
    <3>2. {t} \in SUBSET {r \in Tasks : row[r] \in {"queued", "executing"}}
      BY <2>1
    <3> QED BY <3>1, <3>2 DEF Life!Next, Life!GiveUp
  <2>2. CASE row[t] \in {"failed", "deleted"}
    BY <1>2, <2>2
  <2> QED BY <1>2, <2>1, <2>2
<1>3. CASE EnqueueRejected(t)
  BY <1>2, <1>3 DEF EnqueueRejected, SetRow, Q!EnqueueRejected
<1>4. CASE Finish(t)
  <2>1. PICK st \in {"done", "failed"} : SetRow(t, st)
    BY <1>4 DEF Finish
  <2>2. row[t] \in {"executing", "failed", "deleted"}
    BY <1>4 DEF Finish
  <2>3. CASE st = "failed"
    BY <1>2, <2>1, <2>2, <2>3 DEF SetRow
  <2>4. CASE st = "done" /\ row[t] # "deleted"
    BY <2>1, <2>2, <2>4 DEF SetRow, Life!Next, Life!Complete, Life!Moves
  <2>5. CASE row[t] = "deleted"
    BY <2>1, <2>5 DEF SetRow
  <2> QED BY <2>1, <2>3, <2>4, <2>5
<1> QED BY <1>1, <1>3, <1>4

(* Every step of the composition is one of TaskLife on the rows.           *)
LEMMA StepsOfTheRows ==
  ASSUME DispatchInv, RowsFitRuns, [Next]_vars
  PROVE  [Life!Next]_row
<1> USE DEF DispatchInv, RowsTypeOK, RowsFitRuns
<1> DEFINE Open == {t \in Tasks : row[t] \in {"queued", "executing"}}
<1>1. ASSUME NEW t \in Tasks,
             EnqueueRejected(t) \/ Start(t) \/ StartRefused(t) \/ Finish(t)
      PROVE  [Life!Next]_row
  BY <1>1, RunsLive
<1>2. ASSUME NEW t \in Tasks, Create(t) PROVE [Life!Next]_row
  BY <1>2 DEF Create, Life!Next, Life!Submit, Life!Moves
<1>3. ASSUME NEW t \in Tasks, DeleteCommit(t) PROVE [Life!Next]_row
  <2>1. row' = [row EXCEPT ![t] = "deleted"] /\ row[t] # "none"
    BY <1>3 DEF DeleteCommit
  <2>2. CASE row[t] = "deleted"
    BY <2>1, <2>2
  <2>3. CASE row[t] # "deleted"
    <3>1. row[t] \in {"queued", "executing", "done", "failed"}
      BY <2>1, <2>3 DEF RowStates
    <3> QED BY <2>1, <3>1 DEF Life!Next, Life!Delete, Life!Moves
  <2> QED BY <2>2, <2>3
<1>4. ASSUME NEW lost \in SUBSET Open,
             row' = [t \in Tasks |-> IF t \in lost THEN "failed" ELSE row[t]]
      PROVE  [Life!Next]_row
  BY <1>4 DEF Life!Next, Life!GiveUp
<1>5. CASE Microtask \/ Tick
  <2> DEFINE lost == {t \in Tasks : fate'[t] = "expired" /\ fate[t] = "queued"
                                      /\ row[t] # "deleted"}
  <2>1. row' = [t \in Tasks |-> IF t \in lost THEN "failed" ELSE row[t]]
    BY <1>5 DEF Microtask, Tick, Hear
  <2>2. lost \in SUBSET Open
    OBVIOUS
  <2> QED BY <1>4, <2>1, <2>2
<1>6. CASE ZombieReaper
  <2>1. PICK t \in Tasks : row[t] = "executing" /\ row' = [row EXCEPT ![t] = "failed"]
    BY <1>6 DEF ZombieReaper
  <2>2. row' = [r \in Tasks |-> IF r \in {t} THEN "failed" ELSE row[r]]
    BY <2>1
  <2> QED BY <1>4, <2>1, <2>2
<1>7. CASE BootProcess
  BY <1>4, <1>7 DEF BootProcess
<1>8. ASSUME \/ \E t \in Tasks : Enqueue(t) \/ Allocated(t) \/ AllocateFailed(t)
                                   \/ Finally(t) \/ Watchdog(t) \/ DeleteCheck(t)
             \/ Age \/ PoolStep \/ ShutDown \/ ExitProcess \/ CrashProcess
             \/ UNCHANGED vars
      PROVE  UNCHANGED row
  BY <1>8 DEF Enqueue, Allocated, AllocateFailed, Finally, Watchdog, DeleteCheck,
              Age, PoolStep, ShutDown, ExitProcess, CrashProcess, ForgetQueue, vars,
              rowVars
<1> QED BY <1>1, <1>2, <1>3, <1>5, <1>6, <1>7, <1>8 DEF Next, Steps, Restarts

(* Rows live as TaskLife says, over any number of restarts: what has ended *)
(* is never begun, and no reaper, sweep or late run takes a result back    *)
(* (ImplementsTaskLife).                                                   *)
THEOREM DispatchImplementsLife == Spec => ImplementsTaskLife
<1>1. Init => RowsFitRuns
  BY DEF Init, Q!QueueInit, RowsFitRuns
<1>2. Init => Life!Init
  BY DEF Init, Life!Init
<1>3. DispatchInv /\ RowsFitRuns /\ [Next]_vars => RowsFitRuns'
  BY RowsStayFit
<1>4. DispatchInv /\ RowsFitRuns /\ [Next]_vars => [Life!Next]_row
  BY StepsOfTheRows
<1> QED
  BY <1>1, <1>2, <1>3, <1>4, DispatchInvariant, PTL
     DEF Spec, ImplementsTaskLife, Life!Spec
=============================================================================
