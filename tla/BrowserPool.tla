---------------------------- MODULE BrowserPool ----------------------------
(***************************************************************************)
(* The per-task browser pool of the orchestrator                           *)
(* (apps/orchestrator/src/browser-pool).  One task owns at most one        *)
(* instance: a quartet of OS processes (Xvfb, Brave, x11vnc, websockify)   *)
(* on one slot, a slot being the index that fixes the display and the      *)
(* three ports.                                                            *)
(*                                                                         *)
(* Every action is one stretch of JavaScript between two awaits, so it is  *)
(* atomic in the program as well.  A task calls allocate at most once: its *)
(* id is generated by tasks.create, and the "existing instance" branch of  *)
(* allocate is therefore never taken.                                      *)
(***************************************************************************)
EXTENDS Integers

CONSTANTS
  Tasks,         \* ids of the tasks that may ask for a browser
  MaxInstances   \* config.maxInstances

ASSUME MaxInstancesAssumption == MaxInstances \in Nat \ {0}

VARIABLES
  inUse,         \* SlotAllocator.inUse: the claimed slot indices
  inst,          \* task -> where its instance is in its life
  slot,          \* task -> the slot index its quartet was given, or NoSlot
  idle,          \* tasks whose lastActiveAt is older than the idle cutoff
  shuttingDown,  \* BrowserPool.shuttingDown
  awaited,       \* tasks whose release() shutdown() is waiting for
  up,            \* the orchestrator process is running
  procs          \* <<task, slot>>: quartets with OS processes still alive

poolVars == <<inUse, inst, slot, idle, shuttingDown, awaited, up, procs>>

Slots  == 0 .. (MaxInstances - 1)
NoSlot == -1

FreeSlots == Slots \ inUse

(* SlotAllocator.claim: the lowest free index.                             *)
Claim(s) ==
  /\ s \in FreeSlots
  /\ \A r \in FreeSlots : s <= r
  /\ inUse' = inUse \cup {s}

InstStates == {"none", "spawning", "ready", "draining", "failed", "gone"}

Unclaim_Forgets(t) == inUse' = inUse

(* SlotAllocator.release.                                                  *)
Unclaim(t) == inUse' = inUse \ {slot[t]}

(* The tasks whose slot the allocator still counts as used.                *)
Holders == {t \in Tasks : inst[t] \in {"spawning", "ready", "draining"}}

PoolTypeOK ==
  /\ inUse \subseteq Slots
  /\ inst \in [Tasks -> InstStates]
  /\ slot \in [Tasks -> Slots \cup {NoSlot}]
  /\ idle \subseteq Tasks
  /\ shuttingDown \in BOOLEAN
  /\ awaited \subseteq Tasks
  /\ up \in BOOLEAN
  /\ procs \subseteq Tasks \X Slots

PoolInit ==
  /\ inUse = {}
  /\ inst = [t \in Tasks |-> "none"]
  /\ slot = [t \in Tasks |-> NoSlot]
  /\ idle = {}
  /\ shuttingDown = FALSE
  /\ awaited = {}
  /\ up = TRUE
  /\ procs = {}

-----------------------------------------------------------------------------
(* The queue's dispatch predicate.                                         *)
CanAllocate == ~shuttingDown /\ FreeSlots # {}

(* allocate() throws before its first await: the pool is shutting down, or *)
(* the allocator is full (PoolCapacityError).  Nothing was claimed.        *)
AllocateRefused(t) ==
  /\ up
  /\ inst[t] = "none"
  /\ ~CanAllocate
  /\ inst' = [inst EXCEPT ![t] = "gone"]
  /\ UNCHANGED <<inUse, slot, idle, shuttingDown, awaited, up, procs>>

(* allocate() up to its first await: claim the lowest free slot and start  *)
(* Xvfb.                                                                   *)
AllocateBegin(t) ==
  /\ up
  /\ inst[t] = "none"
  /\ CanAllocate
  /\ \E s \in FreeSlots :
       /\ Claim(s)
       /\ slot'  = [slot EXCEPT ![t] = s]
       /\ procs' = procs \cup {<<t, s>>}
  /\ inst' = [inst EXCEPT ![t] = "spawning"]
  /\ UNCHANGED <<idle, shuttingDown, awaited, up>>

(* The executor connected: the instance enters the registry, 'ready', and  *)
(* the exit listeners are attached.  (A child that exited before that is   *)
(* heard by the logging listener of spawn.ts only.)                        *)
SpawnReady(t) ==
  /\ up
  /\ inst[t] = "spawning"
  /\ inst' = [inst EXCEPT ![t] = "ready"]
  /\ UNCHANGED <<inUse, slot, idle, shuttingDown, awaited, up, procs>>

(* A spawn, the CDP wait or the connect threw: SIGTERM to whatever was     *)
(* started, and the slot goes back at once.                                *)
SpawnFailed(t) ==
  /\ up
  /\ inst[t] = "spawning"
  /\ inst'  = [inst EXCEPT ![t] = "failed"]
  /\ Unclaim(t)
  /\ slot'  = [slot EXCEPT ![t] = NoSlot]
  /\ UNCHANGED <<idle, shuttingDown, awaited, up, procs>>

(* The processes of a failed spawn obey the SIGTERM, later or never.       *)
TerminatedExit(t) ==
  /\ up
  /\ inst[t] = "failed"
  /\ inst' = [inst EXCEPT ![t] = "gone"]
  /\ procs' = {p \in procs : p[1] # t}
  /\ UNCHANGED <<inUse, slot, idle, shuttingDown, awaited, up>>

(* release(t) up to its first await, called by the end of a run, by its    *)
(* watchdog, or by the exit listener of a child that died.  On an unknown  *)
(* or draining instance it returns false and changes nothing.              *)
Release(t) ==
  /\ up
  /\ inst[t] = "ready"
  /\ inst' = [inst EXCEPT ![t] = "draining"]
  /\ UNCHANGED <<inUse, slot, idle, shuttingDown, awaited, up, procs>>

(* The rest of release(): disconnect, SIGTERM, 3 s, SIGKILL, then the slot *)
(* and the registry entry go.                                              *)
ReleaseDone(t) ==
  /\ up
  /\ inst[t] = "draining"
  /\ inst'  = [inst EXCEPT ![t] = "gone"]
  /\ Unclaim(t)
  /\ slot'  = [slot EXCEPT ![t] = NoSlot]
  /\ idle'  = idle \ {t}
  /\ procs' = procs \ {<<t, slot[t]>>}
  /\ UNCHANGED <<shuttingDown, awaited, up>>

(* A ready instance has not been touched for idleTimeoutMs.                *)
GoIdle(t) ==
  /\ up
  /\ inst[t] = "ready"
  /\ t \notin idle
  /\ idle' = idle \cup {t}
  /\ UNCHANGED <<inUse, inst, slot, shuttingDown, awaited, up, procs>>

(* touch(): a tick of the agent loop, or a frame of the VNC or screencast  *)
(* proxy.                                                                  *)
Touch(t) ==
  /\ up
  /\ inst[t] = "ready"
  /\ t \in idle
  /\ idle' = idle \ {t}
  /\ UNCHANGED <<inUse, inst, slot, shuttingDown, awaited, up, procs>>

Drain(S) == [t \in Tasks |-> IF t \in S THEN "draining" ELSE inst[t]]
Ready    == {t \in Tasks : inst[t] = "ready"}

GcSweep_Inverted ==
  /\ up
  /\ ~shuttingDown
  /\ Ready \ idle # {}
  /\ inst' = Drain(Ready \ idle)
  /\ UNCHANGED <<inUse, slot, idle, shuttingDown, awaited, up, procs>>

(* One turn of the 15 s timer: every stale ready instance is released.     *)
GcSweep ==
  /\ up
  /\ ~shuttingDown
  /\ Ready \cap idle # {}
  /\ inst' = Drain(Ready \cap idle)
  /\ UNCHANGED <<inUse, slot, idle, shuttingDown, awaited, up, procs>>

(* shutdown(): refuse further allocations and release what the registry    *)
(* holds.  A spawning instance is not in the registry yet, and release()   *)
(* of a draining one returns at once, so neither is waited for.            *)
Shutdown ==
  /\ up
  /\ ~shuttingDown
  /\ shuttingDown' = TRUE
  /\ awaited' = Ready
  /\ inst' = Drain(Ready)
  /\ UNCHANGED <<inUse, slot, idle, up, procs>>

(* The orchestrator process ends: its memory goes, the detached processes  *)
(* stay.                                                                   *)
Die ==
  /\ up' = FALSE
  /\ inst' = [t \in Tasks |-> IF inst[t] = "none" THEN "none" ELSE "gone"]
  /\ inUse' = {}
  /\ slot' = [t \in Tasks |-> NoSlot]
  /\ idle' = {}
  /\ awaited' = {}
  /\ UNCHANGED <<shuttingDown, procs>>

(* process.exit(0) after shutdown() resolved.                              *)
Exit ==
  /\ up
  /\ shuttingDown
  /\ \A t \in awaited : inst[t] = "gone"
  /\ Die

Crash == up /\ Die

Boot_NoReaper ==
  /\ ~up
  /\ up' = TRUE
  /\ shuttingDown' = FALSE
  /\ UNCHANGED <<inUse, inst, slot, idle, awaited, procs>>

(* The next boot: reapOrphans() kills the leftovers before the new pool is *)
(* built.                                                                  *)
Boot ==
  /\ ~up
  /\ up' = TRUE
  /\ shuttingDown' = FALSE
  /\ procs' = {}
  /\ UNCHANGED <<inUse, inst, slot, idle, awaited>>

PoolNext ==
  \/ \E t \in Tasks :
       \/ AllocateRefused(t)
       \/ AllocateBegin(t)
       \/ SpawnReady(t)
       \/ SpawnFailed(t)
       \/ TerminatedExit(t)
       \/ Release(t)
       \/ ReleaseDone(t)
       \/ GoIdle(t)
       \/ Touch(t)
  \/ GcSweep
  \/ Shutdown
  \/ Exit
  \/ Crash
  \/ Boot

(* Every await of the pool is bounded by a timer (the CDP wait, the        *)
(* connect timeout, the kill grace), the GC timer keeps firing, and        *)
(* shutdown() is followed by process.exit.  Nothing obliges a caller to    *)
(* release or touch, a SIGTERM'd process to exit, or anyone to reboot.     *)
PoolFairness ==
  /\ \A t \in Tasks : WF_poolVars(SpawnReady(t) \/ SpawnFailed(t))
  /\ \A t \in Tasks : WF_poolVars(ReleaseDone(t))
  /\ WF_poolVars(GcSweep)
  /\ WF_poolVars(Exit)

PoolSpec     == PoolInit /\ [][PoolNext]_poolVars
FairPoolSpec == PoolSpec /\ PoolFairness

-----------------------------------------------------------------------------
(* The allocator and the registry agree: a slot is claimed exactly when    *)
(* one task holds it, and no two tasks hold the same one.  (Two counters   *)
(* kept by different code paths: claim/release of the allocator, and the   *)
(* life of an instance with its spawn failures, deaths and sweeps.)        *)
SlotAccounting ==
  /\ inUse = {slot[t] : t \in Holders}
  /\ \A t \in Tasks : t \in Holders <=> slot[t] # NoSlot
  /\ \A t, r \in Holders : slot[t] = slot[r] => t = r

(* While the orchestrator runs, the only processes no registered or        *)
(* spawning instance answers for are those of a failed spawn that have not *)
(* obeyed their SIGTERM yet: release and the boot sweep leave none behind. *)
LeftoversOnlyFromFailedSpawns ==
  up => \A p \in procs : \/ inst[p[1]] = "failed"
                         \/ p[1] \in Holders /\ slot[p[1]] = p[2]

(* An instance nobody uses does not keep its slot: one that stays ready    *)
(* for ever is touched again and again (runGcSweep, browser-pool.ts:271).  *)
IdleIsReclaimed ==
  \A t \in Tasks : <>[](inst[t] = "ready") => []<>(t \notin idle)

(* The pool implements the abstract lease table of SlotLease: no slot has  *)
(* two owners and none is lost, whatever the allocator's counter and the   *)
(* registry go through apart from each other.                              *)
Lease == INSTANCE SlotLease
           WITH lease <- {<<t, slot[t]>> : t \in Holders},
                free  <- FreeSlots
ImplementsSlotLease == Lease!Spec
=============================================================================
