----------------------------- MODULE SlotLease -----------------------------
(***************************************************************************)
(* What the browser pool promises its callers, without spawns, kills or    *)
(* timers: a table of leases, in which a task has at most one slot and a   *)
(* slot at most one task.  A slot changes hands only by coming back first, *)
(* and a slot that is nobody's can be had: none is lost.                   *)
(***************************************************************************)
EXTENDS Integers

CONSTANTS Tasks, MaxInstances

VARIABLES
  lease,   \* set of <<task, slot>>
  free     \* the slots that can be granted

All == 0 .. (MaxInstances - 1)

Init == lease = {} /\ free = All

Grant(t, s) ==
  /\ \A l \in lease : l[1] # t
  /\ s \in free
  /\ lease' = lease \cup {<<t, s>>}
  /\ free' = free \ {s}

Return(t, s) ==
  /\ <<t, s>> \in lease
  /\ lease' = lease \ {<<t, s>>}
  /\ free' = free \cup {s}

(* The process that keeps the table ends.                                  *)
Forget == lease' = {} /\ free' = All

Next ==
  \/ \E t \in Tasks, s \in All : Grant(t, s) \/ Return(t, s)
  \/ Forget

Spec == Init /\ [][Next]_<<lease, free>>
=============================================================================
