------------------------------ MODULE Admission ------------------------------
(***************************************************************************)
(* The gates of tasks.create: the global depth, the user's concurrency,    *)
(* the rate limit of the users that bypass quotas, and the quota of all    *)
(* others (quota/quota-service.ts, quota/rate-limiter.ts).  A call reads   *)
(* each of them after an await of its own and inserts its row after more   *)
(* of them, so that several calls can stand between a gate and the row     *)
(* that would have closed it.                                              *)
(*                                                                         *)
(* A row that is active goes on by the writes of its run and of the        *)
(* handlers that pause, resume or answer it.  They read the row, await and *)
(* write by id, so a late one puts a row that has ended back among the     *)
(* active.  The parents of follow-ups are older rows that have ended.      *)
(* There is one metered user, and it has the Pro plan, the only one with   *)
(* an allowance of Opus tasks.                                             *)
(***************************************************************************)
EXTENDS Integers, FiniteSets

CONSTANTS
  Calls,        \* calls of tasks.create
  Users, Bypass,  \* QUOTA_BYPASS_USERS are exempt from the quota
  Cap,          \* user -> tasks that may be active at a time
  Depth,        \* GLOBAL_QUEUE_DEPTH_LIMIT
  TaskLimit, OpusLimit,  \* allowances of a period
  RateMax, Window,       \* BYPASS_RATE, the window in ticks
  MaxPeriods, MaxGrants, MaxTime, MaxWrites  \* bounds

ASSUME AdmissionAssumption ==
  /\ IsFiniteSet(Calls) /\ Users # {} /\ Bypass \subseteq Users
  /\ \A u, v \in Users \ Bypass : u = v
  /\ Cap \in [Users -> Nat] /\ Depth \in Nat
  /\ {TaskLimit, OpusLimit, RateMax, Window} \subseteq Nat
  /\ {MaxPeriods, MaxGrants, MaxTime, MaxWrites} \subseteq Nat

VARIABLES
  call,       \* call -> where it stands, whose it is and what it asks for
  row,        \* call -> status of the row it inserted, "none" before
  writes,     \* the statuses that handlers under way will write by id
  quota,      \* period -> the metered user's task_quotas row, per pool
  period,     \* the current period
  hits,       \* bypass user -> the calls whose timestamps its bucket holds
  stamp,      \* call -> when it passed the rate limit
  granted, time,
  overlapped, \* history: users two of whose calls were past the gate at once
  revived,    \* history: rows that ended and were made active by a late write
  admitted    \* history: bypass user -> the calls let through

gateVars == <<hits, stamp, admitted>>
rowVars == <<row, writes, revived>>
admissionVars == <<call, rowVars, quota, period, gateVars, granted, time, overlapped>>

Pools == {"tasks", "opus"}
Limit == [pool \in Pools |-> IF pool = "tasks" THEN TaskLimit ELSE OpusLimit]
Idle == [at |-> "idle", user |-> CHOOSE u \in Users : TRUE, follow |-> FALSE,
         pool |-> "tasks", period |-> 0]
Active == {"pending", "planning", "queued", "executing", "awaiting_user",
           "paused"}

AdmissionInit ==
  /\ call = [c \in Calls |-> Idle]
  /\ row = [c \in Calls |-> "none"] /\ writes = {} /\ revived = {}
  /\ quota = [p \in 0 .. MaxPeriods |-> [k \in Pools |-> [used |-> 0, bonus |-> 0]]]
  /\ period = 0 /\ granted = 0 /\ time = 0
  /\ hits = [u \in Bypass |-> {}] /\ stamp = [c \in Calls |-> 0]
  /\ overlapped = {} /\ admitted = [u \in Bypass |-> {}]

Goes(c, to) == call' = [call EXCEPT ![c].at = to]

-----------------------------------------------------------------------------
(* Before the gates.  Only Pro users' calls are routed to Opus; follow-ups *)
(* and the calls of bypassing users are charged to no pool, so that the    *)
(* pool of the ones and the kind of the others make no difference.         *)
Begin(c, u, follow, pool) ==
  /\ call[c].at = "idle"
  /\ pool = "opus" => u \notin Bypass /\ ~follow
  /\ follow => u \notin Bypass
  /\ call' = [call EXCEPT ![c] = [at |-> "depth", user |-> u,
                                  follow |-> follow, pool |-> pool,
                                  period |-> 0]]
  /\ UNCHANGED <<rowVars, quota, period, gateVars, granted, time, overlapped>>

(* Rows that are queued or parked are not counted here.                    *)
QueueDepth == Cardinality({c \in Calls :
                row[c] \in {"pending", "executing", "planning"}})

DepthGate(c) ==
  /\ call[c].at = "depth"
  /\ Goes(c, IF QueueDepth >= Depth THEN "refused" ELSE "cap")
  /\ UNCHANGED <<rowVars, quota, period, gateVars, granted, time, overlapped>>

ActiveOf(u) == {c \in Calls : call[c].user = u /\ row[c] \in Active}

ActiveCount_NotQueued(u) ==
  Cardinality({c \in ActiveOf(u) : row[c] # "queued"})

(* getActiveTaskCount: every status that is not an end.                    *)
ActiveCount(u) == Cardinality(ActiveOf(u))

(* The calls of a user that passed the gate and have no row yet.           *)
PastGate(u) == {c \in Calls : call[c].user = u /\
                              call[c].at \in {"row", "bonus", "regular", "insert"}}

Pruned_Early(bucket) == {c \in bucket : stamp[c] > time - Window}

(* tryAcquire shifts the timestamps before the cutoff off the front; they  *)
(* ascend along the bucket.                                                *)
Pruned(bucket) == {c \in bucket : stamp[c] >= time - Window}

(* The concurrency gate and, in the same turn, the rate limit: a refused   *)
(* submission leaves no mark in the bucket.                                *)
CapGate(c) ==
  /\ call[c].at = "cap"
  /\ LET u      == call[c].user
         room   == ActiveCount(u) < Cap[u]
         bucket == Pruned(hits[u])
         pass   == room /\ (u \in Bypass => Cardinality(bucket) < RateMax)
     IN
     /\ Goes(c, IF ~pass THEN "refused"
                ELSE IF u \in Bypass \/ call[c].follow THEN "insert" ELSE "row")
     /\ IF u \in Bypass /\ pass
        THEN /\ hits' = [hits EXCEPT ![u] = bucket \cup {c}]
             /\ stamp' = [stamp EXCEPT ![c] = time]
             /\ admitted' = [admitted EXCEPT ![u] = @ \cup {c}]
        ELSE /\ hits' = IF u \in Bypass /\ room
                        THEN [hits EXCEPT ![u] = bucket] ELSE hits
             /\ UNCHANGED <<stamp, admitted>>
     /\ overlapped' = IF pass /\ PastGate(u) # {}
                      THEN overlapped \cup {u} ELSE overlapped
  /\ UNCHANGED <<rowVars, quota, period, granted, time>>

-----------------------------------------------------------------------------
(* tryConsume                                                              *)

(* affectedRows is looked up on drizzle's [header, fields] pair.           *)
AffectedRowsRead(changed) == 0

(* getOrCreateActiveQuota: the row of the period that is current now.      *)
QuotaRow(c) ==
  /\ call[c].at = "row"
  /\ call' = [call EXCEPT ![c].at = "bonus", ![c].period = period]
  /\ UNCHANGED <<rowVars, quota, period, gateVars, granted, time, overlapped>>

(* One conditional UPDATE on one counter of the call's quota row.          *)
Burn(c, changes, new, refusedTo) ==
  LET changed == IF changes THEN 1 ELSE 0
  IN  /\ quota' = IF changes
                  THEN [quota EXCEPT ![call[c].period][call[c].pool] = new]
                  ELSE quota
      /\ IF AffectedRowsRead(changed) = 1
         THEN Goes(c, "insert")
         ELSE call' = [call EXCEPT ![c] = refusedTo]
      /\ UNCHANGED <<rowVars, period, gateVars, granted, time, overlapped>>

CounterOf(c) == quota[call[c].period][call[c].pool]

BurnBonus(c) ==
  /\ call[c].at = "bonus"
  /\ Burn(c, CounterOf(c).bonus > 0,
          [CounterOf(c) EXCEPT !.bonus = @ - 1],
          [call[c] EXCEPT !.at = "regular"])

Below(used, pool) == used < Limit[pool]

(* Without a place left an Opus task is tried again as an ordinary one.    *)
BurnRegular(c) ==
  /\ call[c].at = "regular"
  /\ Burn(c, Below(CounterOf(c).used, call[c].pool),
          [CounterOf(c) EXCEPT !.used = @ + 1],
          IF call[c].pool = "opus"
          THEN [call[c] EXCEPT !.at = "row", !.pool = "tasks"]
          ELSE [call[c] EXCEPT !.at = "refused"])

-----------------------------------------------------------------------------
(* The browser lane seeds its row 'queued', the others 'executing'.        *)
Insert(c, status) ==
  /\ call[c].at = "insert"
  /\ row' = [row EXCEPT ![c] = status]
  /\ Goes(c, "done")
  /\ UNCHANGED <<writes, revived, quota, period, gateVars, granted, time, overlapped>>

(* The end of a run or a reaper's: the row is completed, failed or         *)
(* cancelled, which are one here.                                          *)
RowEnds(c) ==
  /\ row[c] \in Active /\ row' = [row EXCEPT ![c] = "ended"]
  /\ UNCHANGED <<call, writes, revived, quota, period, gateVars, granted, time,
                 overlapped>>

(* What a row may be when a handler decides to write a status: tasks.pause *)
(* wants a row in flight, tasks.resume a paused one, a reply a parked one; *)
(* the queue's onStart a queued one and a run that parks its own.          *)
ReadFor(to) ==
  CASE to = "paused"        -> {"pending", "planning", "executing", "awaiting_user"}
    [] to = "executing"     -> {"queued", "paused", "awaiting_user"}
    [] to = "awaiting_user" -> {"executing"}

HandlerReads(c, to) ==
  /\ row[c] \in ReadFor(to) /\ Cardinality(writes) < MaxWrites
  /\ writes' = writes \cup {[task |-> c, to |-> to]}
  /\ UNCHANGED <<call, row, revived, quota, period, gateVars, granted, time,
                 overlapped>>

(* applyControlTransition and its like: UPDATE ... WHERE id, whatever the  *)
(* row has become since.                                                   *)
HandlerWrites(w) ==
  /\ writes' = writes \ {w} /\ row' = [row EXCEPT ![w.task] = w.to]
  /\ revived' = IF row[w.task] = "ended" THEN revived \cup {w.task} ELSE revived
  /\ UNCHANGED <<call, quota, period, gateVars, granted, time, overlapped>>

(* grantFirstMonthBonus, applyAddonPack: on the row of the current period. *)
Grant(pool) ==
  /\ granted < MaxGrants /\ granted' = granted + 1
  /\ quota' = [quota EXCEPT ![period][pool].bonus = @ + 1]
  /\ UNCHANGED <<call, rowVars, period, gateVars, time, overlapped>>

(* A new period begins with a row of its own; calls under way keep theirs. *)
NewPeriod ==
  /\ period < MaxPeriods /\ period' = period + 1
  /\ UNCHANGED <<call, rowVars, quota, gateVars, granted, time, overlapped>>

ClockTicks ==
  /\ time < MaxTime /\ time' = time + 1
  /\ UNCHANGED <<call, rowVars, quota, period, gateVars, granted, overlapped>>

AdmissionNext ==
  \/ \E c \in Calls :
       \/ \E u \in Users, follow \in BOOLEAN, pool \in Pools :
            Begin(c, u, follow, pool)
       \/ DepthGate(c) \/ CapGate(c) \/ QuotaRow(c)
       \/ BurnBonus(c) \/ BurnRegular(c)
       \/ \E status \in {"queued", "executing"} : Insert(c, status)
       \/ RowEnds(c)
       \/ \E to \in {"paused", "executing", "awaiting_user"} : HandlerReads(c, to)
  \/ \E w \in writes : HandlerWrites(w)
  \/ \E pool \in Pools : Grant(pool)
  \/ NewPeriod \/ ClockTicks

AdmissionSpec == AdmissionInit /\ [][AdmissionNext]_admissionVars

-----------------------------------------------------------------------------
(* A user whose calls were never between the gate and their row at the     *)
(* same time stays within the cap, whatever its rows do meanwhile: only    *)
(* rows that had ended, and that a late pause, resume, reply, start or     *)
(* park wrote back, may stand on top of it.                                *)
CapHeldWithoutOverlap ==
  \A u \in Users \ overlapped : Cardinality(ActiveOf(u) \ revived) <= Cap[u]

(* The submissions of a user let through from one time to a window later.  *)
InWindow(u, start) == {c \in admitted[u] : stamp[c] \in start .. start + Window}

(* No window of the sliding limit, wherever it begins, has ever let more   *)
(* submissions of a user through than the rate allows.                     *)
RateHeld ==
  \A u \in Bypass, start \in 0 .. time : Cardinality(InWindow(u, start)) <= RateMax
=============================================================================
