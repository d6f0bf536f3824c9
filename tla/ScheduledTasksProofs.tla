------------------------- MODULE ScheduledTasksProofs -------------------------
(***************************************************************************)
(* Proofs about ScheduledTasks, for every set of rows and of overlapping   *)
(* ticks, every period and every number of restarts and failures.          *)
(***************************************************************************)
EXTENDS ScheduledTasks, FiniteSetTheorems, TLAPS

(* tick records, with the cardinality of SchedTypeOK spelt out.            *)
TicksHoldOneRow ==
  \A t \in Ticks :
    IF tick[t].at \in {"dispatch", "restore"}
    THEN \E r \in Rows : tick[t].row = {r}
    ELSE tick[t].row = {}

(* A toggle has read a status the router lets it flip.                     *)
TogglesReadSettled ==
  \A r \in Rows : toggle[r] \in {"none", "active", "paused", "failed"}

(* Ticks die with their process, and every sweep has its boot.             *)
DownMeansIdle == ~up => boots < MaxBoots /\ \A t \in Ticks : tick[t] = Idle
SweepsAreBoots == \A r \in Rows : swept[r] <= boots

(* A tick holds a row that was due at the tick's own `now`, and has not    *)
(* been fired since its last sweep until the tick dispatches it.           *)
ClaimsAreDue ==
  \A t \in Ticks, r \in Rows :
    r \in tick[t].row /\ rows[r].status = "running" =>
      /\ rows[r].due <= tick[t].now
      /\ tick[t].at = "dispatch" => fired[r] <= swept[r]

(* A row that waits again was not fired for its due time, or was swept.    *)
WaitingIsUnfired ==
  \A r \in Rows :
    /\ rows[r].status \in {"absent", "deleted"} => fired[r] = 0
    /\ rows[r].status = "paused" => fired[r] <= swept[r]

TickRecords ==
  [at: {"idle", "claim", "dispatch", "restore"}, now: 0 .. MaxTime,
   todo: SUBSET Rows, row: SUBSET Rows, ok: BOOLEAN]

SchedTypes ==
  /\ clock \in 0 .. MaxTime /\ up \in BOOLEAN /\ boots \in 0 .. MaxBoots
  /\ rows \in [Rows -> [status: Statuses, due: 0 .. MaxTime + Period]]
  /\ tick \in [Ticks -> TickRecords]
  /\ toggle \in [Rows -> Statuses \cup {"none"}]
  /\ fired \in [Rows -> Nat] /\ swept \in [Rows -> 0 .. MaxBoots]
  /\ wedged \subseteq Rows

SchedInv ==
  /\ SchedTypes
  /\ TicksHoldOneRow
  /\ TogglesReadSettled
  /\ DownMeansIdle
  /\ SweepsAreBoots
  /\ RunningHasOneOwner
  /\ ClaimsAreDue
  /\ WaitingIsUnfired
  /\ OneExtraFirePerRestart

(* A tick that is not under way is one of the records.                     *)
LEMMA IdleIsTick == Idle \in TickRecords
  BY ScheduleAssumption DEF Idle, TickRecords

(* The table is empty at first.                                            *)
LEMMA SchedInit == Init => SchedInv
<1> SUFFICES ASSUME Init PROVE SchedInv
  OBVIOUS
<1>1. SchedTypes
  <2>1. tick \in [Ticks -> TickRecords]
    BY IdleIsTick DEF Init
  <2>2. rows \in [Rows -> [status: Statuses, due: 0 .. MaxTime + Period]]
    BY ScheduleAssumption DEF Init, NoRow, Statuses
  <2> QED BY <2>1, <2>2, ScheduleAssumption DEF Init, SchedTypes
<1> USE ScheduleAssumption DEF Init, NoRow, Idle
<1>2. TicksHoldOneRow /\ RunningHasOneOwner /\ ClaimsAreDue
  BY DEF TicksHoldOneRow, RunningHasOneOwner, ClaimsAreDue
<1>3. TogglesReadSettled /\ DownMeansIdle /\ SweepsAreBoots
  BY DEF TogglesReadSettled, DownMeansIdle, SweepsAreBoots
<1>4. WaitingIsUnfired /\ OneExtraFirePerRestart
  BY DEF WaitingIsUnfired, OneExtraFirePerRestart
<1> QED BY <1>1, <1>2, <1>3, <1>4 DEF SchedInv

-----------------------------------------------------------------------------
(* The owner's requests.  None of them touches a row that is 'running',    *)
(* except a delete.                                                        *)
LEMMA CreateInv ==
  ASSUME SchedInv, NEW r \in Rows, NEW due \in 0 .. MaxTime, Create(r, due)
  PROVE  SchedInv'
<1> USE ScheduleAssumption DEF SchedInv
<1>1. /\ rows' = [rows EXCEPT ![r] = [status |-> "active", due |-> due]]
      /\ rows[r].status = "absent" /\ up
      /\ UNCHANGED <<procVars, tick, userVars, failures, histVars>>
  BY DEF Create
<1>2. UNCHANGED <<clock, up, boots, tick, toggle, fired, swept, wedged>>
  BY <1>1 DEF procVars, userVars, histVars
<1>3. SchedTypes'
  BY <1>1, <1>2 DEF SchedTypes, Statuses
<1>4. \A q \in Rows : rows'[q] = IF q = r THEN [status |-> "active", due |-> due]
                                 ELSE rows[q]
  BY <1>1 DEF SchedTypes
<1>5. \A t \in Ticks : r \notin tick[t].row
  BY <1>1 DEF RunningHasOneOwner
<1>6. RunningHasOneOwner' /\ ClaimsAreDue'
  BY <1>2, <1>4, <1>5 DEF RunningHasOneOwner, ClaimsAreDue
<1>7. WaitingIsUnfired' /\ OneExtraFirePerRestart'
  BY <1>1, <1>2, <1>4 DEF WaitingIsUnfired, OneExtraFirePerRestart, SchedTypes
<1>8. TicksHoldOneRow' /\ TogglesReadSettled' /\ DownMeansIdle' /\ SweepsAreBoots'
  BY <1>1, <1>2
     DEF TicksHoldOneRow, TogglesReadSettled, DownMeansIdle, SweepsAreBoots
<1> QED BY <1>3, <1>6, <1>7, <1>8

LEMMA DeleteInv ==
  ASSUME SchedInv, NEW r \in Rows, Delete(r)
  PROVE  SchedInv'
<1> USE ScheduleAssumption DEF SchedInv
<1>1. /\ rows' = [rows EXCEPT ![r] = [status |-> "deleted", due |-> 0]]
      /\ fired' = [fired EXCEPT ![r] = 0] /\ swept' = [swept EXCEPT ![r] = 0]
      /\ wedged' = wedged \ {r}
      /\ UNCHANGED <<clock, up, boots, tick, toggle>>
  BY DEF Delete, procVars, userVars
<1>2. SchedTypes'
  BY <1>1 DEF SchedTypes, Statuses
<1>3. \A q \in Rows :
        /\ rows'[q] = IF q = r THEN [status |-> "deleted", due |-> 0] ELSE rows[q]
        /\ fired'[q] = IF q = r THEN 0 ELSE fired[q]
        /\ swept'[q] = IF q = r THEN 0 ELSE swept[q]
  BY <1>1 DEF SchedTypes
<1>4. RunningHasOneOwner' /\ ClaimsAreDue'
  BY <1>1, <1>3 DEF RunningHasOneOwner, ClaimsAreDue
<1>5. WaitingIsUnfired' /\ OneExtraFirePerRestart' /\ SweepsAreBoots'
  BY <1>1, <1>3
     DEF WaitingIsUnfired, OneExtraFirePerRestart, SweepsAreBoots, SchedTypes
<1>6. TicksHoldOneRow' /\ TogglesReadSettled' /\ DownMeansIdle'
  BY <1>1 DEF TicksHoldOneRow, TogglesReadSettled, DownMeansIdle
<1> QED BY <1>2, <1>4, <1>5, <1>6

LEMMA ToggleReadInv ==
  ASSUME SchedInv, NEW r \in Rows, ToggleRead(r)
  PROVE  SchedInv'
<1> USE DEF SchedInv
<1>1. /\ toggle' = [toggle EXCEPT ![r] = rows[r].status]
      /\ rows[r].status \in {"active", "paused", "failed"}
      /\ UNCHANGED <<clock, up, boots, rows, tick, fired, swept, wedged>>
  BY DEF ToggleRead, procVars, histVars
<1>2. SchedTypes' /\ TogglesReadSettled'
  BY <1>1 DEF SchedTypes, Statuses, TogglesReadSettled
<1>3. RunningHasOneOwner' /\ ClaimsAreDue' /\ TicksHoldOneRow'
  BY <1>1 DEF RunningHasOneOwner, ClaimsAreDue, TicksHoldOneRow
<1>4. /\ WaitingIsUnfired' /\ OneExtraFirePerRestart'
      /\ SweepsAreBoots' /\ DownMeansIdle'
  BY <1>1 DEF WaitingIsUnfired, OneExtraFirePerRestart, SweepsAreBoots,
              DownMeansIdle
<1> QED BY <1>2, <1>3, <1>4

LEMMA ToggleWriteInv ==
  ASSUME SchedInv, NEW r \in Rows, ToggleWrite(r)
  PROVE  SchedInv'
<1> USE DEF SchedInv
<1>1. /\ toggle' = [toggle EXCEPT ![r] = "none"]
      /\ UNCHANGED <<clock, up, boots, tick, wedged>>
  BY DEF ToggleWrite, procVars
<1>2. TogglesReadSettled' /\ TicksHoldOneRow' /\ DownMeansIdle'
  BY <1>1 DEF TogglesReadSettled, TicksHoldOneRow, DownMeansIdle, SchedTypes
<1>3. CASE rows[r].status = toggle[r]
  <2>1. rows[r].status \in {"active", "paused", "failed"}
    BY <1>3 DEF ToggleWrite, TogglesReadSettled
  <2>2. rows' = [rows EXCEPT ![r].status = Flipped(@)]
    BY <1>3 DEF ToggleWrite
  <2>3. \A q \in Rows : q # r => rows'[q] = rows[q]
    BY <2>2 DEF SchedTypes
  <2>4. /\ rows'[r].status = IF rows[r].status = "active" THEN "paused" ELSE "active"
        /\ rows'[r].due = rows[r].due
    BY <2>2 DEF SchedTypes, Flipped
  <2>5. \A q \in Rows :
          /\ fired'[q] = IF q = r /\ rows[r].status = "failed" THEN 0 ELSE fired[q]
          /\ swept'[q] = IF q = r /\ rows[r].status = "failed" THEN 0 ELSE swept[q]
    BY <1>3 DEF ToggleWrite, SchedTypes
  <2>6. fired' \in [Rows -> Nat] /\ swept' \in [Rows -> 0 .. MaxBoots]
    BY <1>3, ScheduleAssumption DEF ToggleWrite, SchedTypes
  <2>7. rows' \in [Rows -> [status: Statuses, due: 0 .. MaxTime + Period]]
    BY <2>2 DEF SchedTypes, Flipped, Statuses
  <2>8. SchedTypes'
    BY <1>1, <2>6, <2>7 DEF SchedTypes
  <2>9. \A t \in Ticks : r \notin tick[t].row
    BY <2>1 DEF RunningHasOneOwner
  <2>10. RunningHasOneOwner' /\ ClaimsAreDue'
    BY <1>1, <2>3, <2>5, <2>9 DEF RunningHasOneOwner, ClaimsAreDue
  <2>11. WaitingIsUnfired' /\ OneExtraFirePerRestart'
    BY <2>1, <2>3, <2>4, <2>5
       DEF WaitingIsUnfired, OneExtraFirePerRestart, SchedTypes
  <2>12. SweepsAreBoots'
    BY <1>1, <2>5 DEF SweepsAreBoots, SchedTypes
  <2> QED BY <1>2, <2>8, <2>10, <2>11, <2>12
<1>4. CASE rows[r].status # toggle[r]
  <2>1. UNCHANGED <<rows, fired, swept>>
    BY <1>4 DEF ToggleWrite
  <2>2. SchedTypes'
    BY <1>1, <2>1 DEF SchedTypes
  <2>3. RunningHasOneOwner' /\ ClaimsAreDue'
    BY <1>1, <2>1 DEF RunningHasOneOwner, ClaimsAreDue
  <2>4. WaitingIsUnfired' /\ OneExtraFirePerRestart' /\ SweepsAreBoots'
    BY <1>1, <2>1 DEF WaitingIsUnfired, OneExtraFirePerRestart, SweepsAreBoots
  <2> QED BY <1>2, <2>2, <2>3, <2>4
<1> QED BY <1>3, <1>4

-----------------------------------------------------------------------------
(* A tick that takes or leaves no row.                                     *)
LEMMA TickScanInv ==
  ASSUME SchedInv, NEW t \in Ticks, TickScan(t)
  PROVE  SchedInv'
<1> USE DEF SchedInv
<1>1. PICK due \in SUBSET Rows :
        tick' = [tick EXCEPT ![t] = [at |-> "claim", now |-> clock, todo |-> due,
                                     row |-> {}, ok |-> FALSE]]
  BY DEF TickScan
<1>2. up /\ UNCHANGED <<clock, up, boots, rows, toggle, fired, swept, wedged>>
  BY DEF TickScan, procVars, userVars, histVars
<1>3. SchedTypes'
  BY <1>1, <1>2 DEF SchedTypes, TickRecords
<1>4. \A u \in Ticks :
        tick'[u] = IF u = t THEN [at |-> "claim", now |-> clock, todo |-> due,
                                  row |-> {}, ok |-> FALSE]
                   ELSE tick[u]
  BY <1>1 DEF SchedTypes
<1>5. TicksHoldOneRow' /\ RunningHasOneOwner' /\ ClaimsAreDue'
  BY <1>2, <1>4 DEF TicksHoldOneRow, RunningHasOneOwner, ClaimsAreDue
<1>6. /\ TogglesReadSettled' /\ DownMeansIdle' /\ SweepsAreBoots'
      /\ WaitingIsUnfired' /\ OneExtraFirePerRestart'
  BY <1>2 DEF TogglesReadSettled, DownMeansIdle, SweepsAreBoots,
              WaitingIsUnfired, OneExtraFirePerRestart
<1> QED BY <1>3, <1>5, <1>6

(* The atomic claim: a row it wins was 'active', so no other tick holds it *)
(* and it was not fired since its last sweep.                              *)
LEMMA ClaimInv ==
  ASSUME SchedInv, NEW t \in Ticks, NEW r \in Rows, Claim(t, r)
  PROVE  SchedInv'
<1> USE DEF SchedInv
<1>1. /\ tick[t].at = "claim"
      /\ UNCHANGED <<clock, up, boots, toggle, fired, swept, wedged>>
  BY DEF Claim, procVars, userVars, histVars
<1>2. up /\ tick[t].row = {}
  BY <1>1 DEF DownMeansIdle, Idle, TicksHoldOneRow, SchedTypes
<1>3. TogglesReadSettled' /\ DownMeansIdle' /\ SweepsAreBoots'
  BY <1>1, <1>2 DEF TogglesReadSettled, DownMeansIdle, SweepsAreBoots
<1>4. CASE Claimable(r, tick[t].now)
  <2>1. /\ rows' = [rows EXCEPT ![r].status = "running"]
        /\ tick' = [tick EXCEPT ![t].todo = @ \ {r}, ![t].row = {r},
                                ![t].at = "dispatch"]
    BY <1>4 DEF Claim
  <2>2. rows[r].status = "active" /\ rows[r].due <= tick[t].now
    BY <1>4 DEF Claimable, Due
  <2>3. \A u \in Ticks : u # t => tick'[u] = tick[u]
    BY <2>1 DEF SchedTypes
  <2>4. tick'[t] = [tick[t] EXCEPT !.todo = @ \ {r}, !.row = {r}, !.at = "dispatch"]
    BY <2>1 DEF SchedTypes
  <2>5. tick'[t].row = {r} /\ tick'[t].at = "dispatch" /\ tick'[t].now = tick[t].now
    BY <2>4 DEF SchedTypes
  <2>6. \A q \in Rows : q # r => rows'[q] = rows[q]
    BY <2>1 DEF SchedTypes
  <2>7. rows'[r].status = "running" /\ rows'[r].due = rows[r].due
    BY <2>1 DEF SchedTypes
  <2>8. SchedTypes'
    <3>1. tick' \in [Ticks -> TickRecords]
      <4>1. tick[t] \in TickRecords
        BY DEF SchedTypes
      <4>2. tick'[t] \in TickRecords
        <5>1. tick'[t] = [at |-> "dispatch", now |-> tick[t].now,
                          todo |-> tick[t].todo \ {r}, row |-> {r},
                          ok |-> tick[t].ok]
          BY <2>4, <4>1 DEF TickRecords
        <5> QED BY <5>1, <4>1 DEF TickRecords
      <4>3. DOMAIN tick' = Ticks /\ tick' = [u \in Ticks |-> tick'[u]]
        BY <2>1 DEF SchedTypes
      <4>4. \A u \in Ticks : tick'[u] \in TickRecords
        BY <2>3, <4>2 DEF SchedTypes
      <4> QED BY <4>3, <4>4
    <3>2. rows' \in [Rows -> [status: Statuses, due: 0 .. MaxTime + Period]]
      BY <2>1 DEF SchedTypes, Statuses
    <3> QED BY <1>1, <3>1, <3>2 DEF SchedTypes
  <2>9. \A u \in Ticks : r \notin tick[u].row
    BY <2>2 DEF RunningHasOneOwner
  <2>10. TicksHoldOneRow' /\ RunningHasOneOwner'
    BY <2>3, <2>5, <2>6, <2>7, <2>9 DEF TicksHoldOneRow, RunningHasOneOwner
  <2>11. fired[r] <= swept[r]
    BY <2>2 DEF OneExtraFirePerRestart, SchedTypes
  <2>12. ClaimsAreDue'
    BY <1>1, <2>2, <2>3, <2>5, <2>6, <2>7, <2>9, <2>11 DEF ClaimsAreDue
  <2>13. WaitingIsUnfired' /\ OneExtraFirePerRestart'
    <3>1. WaitingIsUnfired'
      BY <1>1, <2>6, <2>7 DEF WaitingIsUnfired
    <3>2. fired[r] <= swept[r] + 1
      BY <2>11, ScheduleAssumption DEF SchedTypes
    <3>3. OneExtraFirePerRestart'
      BY <1>1, <2>6, <2>7, <3>2 DEF OneExtraFirePerRestart
    <3> QED BY <3>1, <3>3
  <2> QED BY <1>3, <2>8, <2>10, <2>12, <2>13
<1>5. CASE ~Claimable(r, tick[t].now)
  <2>1. /\ UNCHANGED rows
        /\ tick' = [tick EXCEPT ![t] = IF tick[t].todo = {r} THEN Idle
                                       ELSE [tick[t] EXCEPT !.todo = @ \ {r}]]
    BY <1>5 DEF Claim
  <2>2. \A u \in Ticks : u # t => tick'[u] = tick[u]
    BY <2>1 DEF SchedTypes
  <2>3. /\ tick' \in [Ticks -> TickRecords]
        /\ tick'[t].row = {} /\ tick'[t].at \in {"idle", "claim"}
    <3>1. CASE tick[t].todo = {r}
      <4>1. tick' = [tick EXCEPT ![t] = Idle]
        BY <2>1, <3>1
      <4>2. tick' \in [Ticks -> TickRecords]
        BY <4>1, IdleIsTick DEF SchedTypes
      <4>3. Idle.row = {} /\ Idle.at = "idle"
        BY DEF Idle
      <4> QED BY <4>1, <4>2, <4>3 DEF SchedTypes
    <3>2. CASE tick[t].todo # {r}
      <4>1. tick' = [tick EXCEPT ![t] = [tick[t] EXCEPT !.todo = @ \ {r}]]
        BY <2>1, <3>2
      <4> QED BY <1>1, <1>2, <4>1 DEF SchedTypes, TickRecords
    <3> QED BY <3>1, <3>2
  <2>4. SchedTypes'
    BY <1>1, <2>1, <2>3 DEF SchedTypes
  <2>5. TicksHoldOneRow' /\ RunningHasOneOwner' /\ ClaimsAreDue'
    BY <1>1, <2>1, <2>2, <2>3
       DEF TicksHoldOneRow, RunningHasOneOwner, ClaimsAreDue
  <2>6. WaitingIsUnfired' /\ OneExtraFirePerRestart'
    BY <1>1, <2>1 DEF WaitingIsUnfired, OneExtraFirePerRestart
  <2> QED BY <1>3, <2>4, <2>5, <2>6
<1> QED BY <1>4, <1>5

(* A dispatch fires the row of its tick once, and goes on to the restore.  *)
LEMMA DispatchInv ==
  ASSUME SchedInv, NEW t \in Ticks, NEW created \in BOOLEAN, NEW ok \in BOOLEAN,
         Dispatch(t, created, ok)
  PROVE  SchedInv'
<1> USE DEF SchedInv
<1>1. /\ tick[t].at = "dispatch"
      /\ tick' = [tick EXCEPT ![t].at = "restore",
                              ![t].ok = ok /\ tick[t].row \subseteq Once]
      /\ UNCHANGED <<clock, up, boots, rows, toggle, swept, wedged>>
  BY DEF Dispatch, procVars, userVars
<1>2. /\ fired' \in [Rows -> Nat]
      /\ \A q \in Rows :
           fired'[q] = IF created /\ q \in tick[t].row /\ rows[q].status = "running"
                       THEN fired[q] + 1 ELSE fired[q]
  BY DEF Dispatch, SchedTypes
<1>3. up
  BY <1>1 DEF DownMeansIdle, Idle
<1>4. PICK b \in BOOLEAN :
        tick' = [tick EXCEPT ![t].at = "restore", ![t].ok = b]
  <2>1. (ok /\ tick[t].row \subseteq Once) \in BOOLEAN
    OBVIOUS
  <2> QED BY <1>1, <2>1
<1>5. \A u \in Ticks : u # t => tick'[u] = tick[u]
  BY <1>4 DEF SchedTypes
<1>6. /\ tick'[t].at = "restore" /\ tick'[t].row = tick[t].row
      /\ tick'[t].now = tick[t].now
      /\ tick' \in [Ticks -> TickRecords]
  <2>1. tick \in [Ticks -> TickRecords]
    BY DEF SchedTypes
  <2>2. tick[t] \in TickRecords
    BY <2>1
  <2>3. tick'[t] = [tick[t] EXCEPT !.at = "restore", !.ok = b]
    BY <1>4, <2>1
  <2>4. /\ tick'[t] \in TickRecords
        /\ tick'[t].at = "restore" /\ tick'[t].row = tick[t].row
        /\ tick'[t].now = tick[t].now
    BY <2>2, <2>3 DEF TickRecords
  <2>5. tick' \in [Ticks -> TickRecords]
    BY <1>4, <2>1, <2>4
  <2> QED BY <2>4, <2>5
<1>7. SchedTypes' /\ TicksHoldOneRow' /\ RunningHasOneOwner'
  <2>1. SchedTypes'
    BY <1>1, <1>2, <1>6 DEF SchedTypes
  <2>2. \A u \in Ticks : tick'[u].row = tick[u].row
    BY <1>5, <1>6
  <2>3. RunningHasOneOwner'
    BY <1>1, <2>2 DEF RunningHasOneOwner
  <2>4. TicksHoldOneRow'
    BY <1>1, <1>5, <1>6, <2>2 DEF TicksHoldOneRow
  <2> QED BY <2>1, <2>3, <2>4
<1>8. ClaimsAreDue'
  <2> SUFFICES ASSUME NEW u \in Ticks, NEW q \in Rows,
                      q \in tick'[u].row, rows'[q].status = "running"
               PROVE  /\ rows'[q].due <= tick'[u].now
                      /\ tick'[u].at = "dispatch" => fired'[q] <= swept'[q]
    BY DEF ClaimsAreDue
  <2>1. CASE u = t
    BY <1>1, <1>6, <2>1 DEF ClaimsAreDue
  <2>2. CASE u # t
    <3>1. q \notin tick[t].row
      BY <1>5, <2>2 DEF RunningHasOneOwner
    <3> QED BY <1>1, <1>2, <1>5, <2>2, <3>1 DEF ClaimsAreDue
  <2> QED BY <2>1, <2>2
<1>9. WaitingIsUnfired' /\ OneExtraFirePerRestart'
  <2>1. \A q \in Rows : q \in tick[t].row /\ rows[q].status = "running"
                          => fired[q] <= swept[q]
    BY <1>1 DEF ClaimsAreDue
  <2> QED BY <1>1, <1>2, <2>1 DEF WaitingIsUnfired, OneExtraFirePerRestart, SchedTypes
<1>10. TogglesReadSettled' /\ DownMeansIdle' /\ SweepsAreBoots'
  BY <1>1, <1>3 DEF TogglesReadSettled, DownMeansIdle, SweepsAreBoots
<1> QED BY <1>7, <1>8, <1>9, <1>10

(* The restore gives the row back: moved on, finished, gone, or left       *)
(* 'running' by a failed write.                                            *)
LEMMA RestoreInv ==
  ASSUME SchedInv, NEW t \in Ticks, NEW r \in Rows, NEW written \in BOOLEAN,
         Restore(t, r, written)
  PROVE  SchedInv'
<1> USE DEF SchedInv
<1>1. /\ tick[t].at = "restore" /\ tick[t].row = {r}
      /\ NextCandidate(t)
      /\ UNCHANGED <<clock, up, boots, toggle>>
  BY DEF Restore, procVars, userVars
<1>2. /\ tick' \in [Ticks -> TickRecords]
      /\ \A u \in Ticks : u # t => tick'[u] = tick[u]
      /\ tick'[t].row = {} /\ tick'[t].at \in {"idle", "claim"}
  <2>1. CASE tick[t].todo = {}
    <3>1. tick' = [tick EXCEPT ![t] = Idle]
      BY <1>1, <2>1 DEF NextCandidate
    <3>2. tick' \in [Ticks -> TickRecords]
      BY <3>1, IdleIsTick DEF SchedTypes
    <3>3. Idle.row = {} /\ Idle.at = "idle"
      BY DEF Idle
    <3> QED BY <3>1, <3>2, <3>3 DEF SchedTypes
  <2>2. CASE tick[t].todo # {}
    <3>1. tick' = [tick EXCEPT ![t] = [tick[t] EXCEPT !.at = "claim", !.row = {},
                                                      !.ok = FALSE]]
      BY <1>1, <2>2 DEF NextCandidate
    <3> QED BY <3>1 DEF SchedTypes, TickRecords
  <2> QED BY <2>1, <2>2
<1>3. up
  BY <1>1 DEF DownMeansIdle, Idle
<1>4. TicksHoldOneRow' /\ TogglesReadSettled' /\ DownMeansIdle'
  BY <1>1, <1>2, <1>3 DEF TicksHoldOneRow, TogglesReadSettled, DownMeansIdle
<1>5. \A u \in Ticks : r \in tick'[u].row => FALSE
  BY <1>1, <1>2 DEF RunningHasOneOwner
<1>6. rows[r].status \in {"running", "deleted"}
  BY <1>1 DEF RunningHasOneOwner
<1>7. CASE UNCHANGED <<rows, fired, swept>> /\ wedged' \subseteq wedged \cup {r}
  <2>1. SchedTypes'
    BY <1>1, <1>2, <1>7 DEF SchedTypes
  <2>2. RunningHasOneOwner' /\ ClaimsAreDue'
    BY <1>2, <1>7 DEF RunningHasOneOwner, ClaimsAreDue
  <2>3. WaitingIsUnfired' /\ OneExtraFirePerRestart' /\ SweepsAreBoots'
    BY <1>1, <1>7 DEF WaitingIsUnfired, OneExtraFirePerRestart, SweepsAreBoots
  <2> QED BY <1>4, <2>1, <2>2, <2>3
<1>8. CASE written /\ rows[r].status # "deleted"
  <2> DEFINE new == Restored(r, tick[t].now, tick[t].ok)
  <2>1. /\ rows' = [rows EXCEPT ![r] = new]
        /\ IF new.due # rows[r].due
           THEN /\ fired' = [fired EXCEPT ![r] = 0]
                /\ swept' = [swept EXCEPT ![r] = 0]
           ELSE UNCHANGED <<fired, swept>>
        /\ UNCHANGED wedged
    BY <1>8 DEF Restore
  <2>2. /\ new \in [status: Statuses, due: 0 .. MaxTime + Period]
        /\ new.status \in {"active", "completed", "failed"}
        /\ new.status = "active" => new.due # rows[r].due
    <3>1. CASE r \in Once
      BY <3>1 DEF Restored, SchedTypes, Statuses
    <3>2. CASE r \notin Once
      <4>1. /\ new.status = "active" /\ new.due = tick[t].now + Period
            /\ new \in [status: Statuses, due: 0 .. MaxTime + Period]
        <5>1. tick[t].now \in 0 .. MaxTime /\ rows[r] \in [status: Statuses, due: 0 .. MaxTime + Period]
          BY DEF SchedTypes, TickRecords
        <5>2. new = [rows[r] EXCEPT !.status = "active", !.due = tick[t].now + Period]
          BY <3>2 DEF Restored, ComputeNextRun
        <5>3. tick[t].now + Period \in 0 .. MaxTime + Period
          BY <5>1, ScheduleAssumption
        <5> HIDE DEF new
        <5> QED BY <5>1, <5>2, <5>3 DEF Statuses
      <4>2. rows[r].due <= tick[t].now
        BY <1>1, <1>6, <1>8 DEF ClaimsAreDue
      <4>3. tick[t].now \in Nat /\ rows[r].due \in Nat
        BY ScheduleAssumption DEF SchedTypes, TickRecords
      <4> QED BY <4>1, <4>2, <4>3, ScheduleAssumption
    <3> QED BY <3>1, <3>2
  <2> HIDE DEF new
  <2>3. \A q \in Rows :
          /\ rows'[q] = IF q = r THEN new ELSE rows[q]
          /\ fired'[q] = IF q = r /\ new.due # rows[r].due THEN 0 ELSE fired[q]
          /\ swept'[q] = IF q = r /\ new.due # rows[r].due THEN 0 ELSE swept[q]
    BY <2>1 DEF SchedTypes
  <2>4. fired' \in [Rows -> Nat] /\ swept' \in [Rows -> 0 .. MaxBoots]
    BY <2>1, ScheduleAssumption DEF SchedTypes
  <2>5. SchedTypes'
    BY <1>1, <1>2, <2>1, <2>2, <2>4 DEF SchedTypes
  <2>6. RunningHasOneOwner' /\ ClaimsAreDue'
    BY <1>2, <1>5, <2>3 DEF RunningHasOneOwner, ClaimsAreDue
  <2>7. WaitingIsUnfired' /\ OneExtraFirePerRestart'
    <3>1. fired[r] \in Nat /\ swept[r] \in Nat /\ fired[r] <= swept[r] + 1
      BY <1>6, <1>8, ScheduleAssumption DEF OneExtraFirePerRestart, SchedTypes
    <3>2. WaitingIsUnfired'
      BY <2>2, <2>3 DEF WaitingIsUnfired
    <3>3. OneExtraFirePerRestart'
      BY <2>2, <2>3, <3>1 DEF OneExtraFirePerRestart
    <3> QED BY <3>2, <3>3
  <2>8. SweepsAreBoots'
    BY <1>1, <2>3 DEF SweepsAreBoots, SchedTypes
  <2> QED BY <1>4, <2>5, <2>6, <2>7, <2>8
<1> QED BY <1>7, <1>8 DEF Restore

-----------------------------------------------------------------------------
(* A crash forgets the ticks and the toggles, the next boot sweeps.        *)
LEMMA CrashInv ==
  ASSUME SchedInv, Crash
  PROVE  SchedInv'
<1> USE DEF SchedInv
<1>1. /\ up' = FALSE /\ boots < MaxBoots
      /\ tick' = [t \in Ticks |-> Idle]
      /\ toggle' = [r \in Rows |-> "none"]
      /\ UNCHANGED <<clock, boots, rows, fired, swept, wedged>>
  BY DEF Crash, histVars
<1>2. SchedTypes'
  <2>1. tick' \in [Ticks -> TickRecords]
    BY <1>1, IdleIsTick
  <2> QED BY <1>1, <2>1 DEF SchedTypes
<1>3. \A t \in Ticks : tick'[t].row = {} /\ tick'[t].at = "idle"
  BY <1>1 DEF Idle
<1>4. TicksHoldOneRow' /\ RunningHasOneOwner' /\ ClaimsAreDue'
  BY <1>3 DEF TicksHoldOneRow, RunningHasOneOwner, ClaimsAreDue
<1>5. TogglesReadSettled' /\ DownMeansIdle' /\ SweepsAreBoots'
  BY <1>1 DEF TogglesReadSettled, DownMeansIdle, SweepsAreBoots
<1>6. WaitingIsUnfired' /\ OneExtraFirePerRestart'
  BY <1>1 DEF WaitingIsUnfired, OneExtraFirePerRestart
<1> QED BY <1>2, <1>4, <1>5, <1>6

LEMMA BootInv ==
  ASSUME SchedInv, NEW sweeps \in BOOLEAN, Boot(sweeps)
  PROVE  SchedInv'
<1> USE DEF SchedInv
<1>1. /\ ~up /\ up' = TRUE /\ boots' = boots + 1
      /\ UNCHANGED <<clock, tick, toggle, fired>>
  BY DEF Boot, userVars
<1>2. boots < MaxBoots /\ \A t \in Ticks : tick[t].row = {}
  BY <1>1 DEF DownMeansIdle, Idle
<1>3. boots' \in 0 .. MaxBoots
  BY <1>1, <1>2, ScheduleAssumption DEF SchedTypes
<1>4. TicksHoldOneRow' /\ TogglesReadSettled' /\ DownMeansIdle'
  BY <1>1 DEF TicksHoldOneRow, TogglesReadSettled, DownMeansIdle
<1>5. RunningHasOneOwner' /\ ClaimsAreDue'
  BY <1>1, <1>2 DEF RunningHasOneOwner, ClaimsAreDue
<1>6. CASE sweeps
  <2> DEFINE stuck == {r \in Rows : rows[r].status = "running"}
  <2>1. /\ rows' = Sweep(stuck)
        /\ swept' = [r \in Rows |-> swept[r] + IF r \in stuck THEN 1 ELSE 0]
        /\ wedged' = wedged \ stuck
    BY <1>6 DEF Boot
  <2>2. \A r \in Rows :
          /\ rows'[r] \in [status: Statuses, due: 0 .. MaxTime + Period]
          /\ rows'[r].status = IF rows[r].status = "running" THEN "active"
                               ELSE rows[r].status
    BY <2>1 DEF Sweep, SchedTypes, Statuses
  <2>3. \A r \in Rows :
          /\ swept'[r] = IF rows[r].status = "running" THEN swept[r] + 1 ELSE swept[r]
          /\ swept'[r] \in 0 .. MaxBoots /\ swept'[r] <= boots'
    BY <1>1, <1>2, <2>1, ScheduleAssumption DEF SweepsAreBoots, SchedTypes
  <2>4. SchedTypes'
    <3>1. rows' \in [Rows -> [status: Statuses, due: 0 .. MaxTime + Period]]
      BY <2>1, <2>2 DEF Sweep
    <3>2. swept' \in [Rows -> 0 .. MaxBoots]
      BY <2>1, <2>3
    <3> QED BY <1>1, <1>3, <2>1, <3>1, <3>2 DEF SchedTypes
  <2>5. WaitingIsUnfired' /\ OneExtraFirePerRestart' /\ SweepsAreBoots'
    BY <1>1, <2>2, <2>3
       DEF WaitingIsUnfired, OneExtraFirePerRestart, SweepsAreBoots, SchedTypes
  <2> QED BY <1>4, <1>5, <2>4, <2>5
<1>7. CASE ~sweeps
  <2>1. UNCHANGED <<rows, swept>> /\ wedged' \subseteq Rows
    BY <1>7 DEF Boot, SchedTypes
  <2>2. SchedTypes'
    BY <1>1, <1>3, <2>1 DEF SchedTypes
  <2>3. WaitingIsUnfired' /\ OneExtraFirePerRestart' /\ SweepsAreBoots'
    BY <1>1, <2>1
       DEF WaitingIsUnfired, OneExtraFirePerRestart, SweepsAreBoots, SchedTypes
  <2> QED BY <1>4, <1>5, <2>2, <2>3
<1> QED BY <1>6, <1>7

(* The clock, and stuttering.                                              *)
LEMMA ClockInv ==
  ASSUME SchedInv, Pass \/ UNCHANGED vars
  PROVE  SchedInv'
<1> USE DEF SchedInv
<1>1. UNCHANGED <<up, boots, rows, tick, toggle, fired, swept, wedged>>
  BY DEF Pass, vars, procVars, userVars, histVars
<1>2. clock' \in 0 .. MaxTime
  BY ScheduleAssumption DEF Pass, vars, procVars, SchedTypes
<1>3. SchedTypes'
  BY <1>1, <1>2 DEF SchedTypes
<1>4. TicksHoldOneRow' /\ TogglesReadSettled' /\ DownMeansIdle' /\ SweepsAreBoots'
  BY <1>1 DEF TicksHoldOneRow, TogglesReadSettled, DownMeansIdle, SweepsAreBoots
<1>5. RunningHasOneOwner' /\ ClaimsAreDue'
  BY <1>1 DEF RunningHasOneOwner, ClaimsAreDue
<1>6. WaitingIsUnfired' /\ OneExtraFirePerRestart'
  BY <1>1 DEF WaitingIsUnfired, OneExtraFirePerRestart
<1> QED BY <1>3, <1>4, <1>5, <1>6

(* SchedInv is inductive.                                                  *)
LEMMA SchedNext == SchedInv /\ [Next]_vars => SchedInv'
<1> SUFFICES ASSUME SchedInv, [Next]_vars PROVE SchedInv'
  OBVIOUS
<1>1. CASE UserStep
  BY <1>1, CreateInv, DeleteInv, ToggleReadInv, ToggleWriteInv DEF UserStep
<1>2. ASSUME NEW t \in Ticks, TickStep(t)
      PROVE  SchedInv'
  BY <1>2, TickScanInv, ClaimInv, DispatchInv, RestoreInv DEF TickStep
<1>3. CASE Crash
  BY <1>3, CrashInv
<1>4. ASSUME NEW sweeps \in BOOLEAN, Boot(sweeps)
      PROVE  SchedInv'
  BY <1>4, BootInv
<1>5. CASE Pass \/ UNCHANGED vars
  BY <1>5, ClockInv
<1> QED BY <1>1, <1>2, <1>3, <1>4, <1>5 DEF Next

(* The inductive invariant holds in every reachable state.                 *)
THEOREM SchedInvariant == Spec => []SchedInv
  BY SchedInit, SchedNext, PTL DEF Spec

(* Type correctness.                                                       *)
THEOREM SchedTypeCorrect == Spec => []SchedTypeOK
<1>1. SchedInv => SchedTypeOK
  <2> SUFFICES ASSUME SchedInv PROVE SchedTypeOK
    OBVIOUS
  <2>1. ASSUME NEW t \in Ticks
        PROVE  Cardinality(tick[t].row) =
                 IF tick[t].at \in {"dispatch", "restore"} THEN 1 ELSE 0
    BY FS_EmptySet, FS_Singleton DEF SchedInv, TicksHoldOneRow
  <2> QED BY <2>1 DEF SchedInv, SchedTypes, TickRecords, SchedTypeOK
<1> QED BY <1>1, SchedInvariant, PTL

(* However many ticks overlap, a row in flight has one owner, and the      *)
(* restore by id overwrites nobody's change.                               *)
THEOREM RunningIsOwned == Spec => []RunningHasOneOwner
  BY SchedInvariant, PTL DEF SchedInv

(* A row fires once for a due time, and at most once more for each boot    *)
(* that swept it.                                                          *)
THEOREM FiresOnceOrSwept == Spec => []OneExtraFirePerRestart
  BY SchedInvariant, PTL DEF SchedInv
=============================================================================
