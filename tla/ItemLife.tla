------------------------------ MODULE ItemLife ------------------------------
(***************************************************************************)
(* What a batch promises of its items, without calls, map, loop, cancels   *)
(* under way or failing writes: an item is claimed once, a task is made    *)
(* for it at most once and only while it runs, and it ends once.  One that *)
(* was cancelled is never claimed.                                         *)
(***************************************************************************)
EXTENDS Integers

CONSTANT Items

VARIABLES
  status,   \* item -> its status
  made      \* item -> tasks made for it

Init ==
  /\ status = [i \in Items |-> "pending"]
  /\ made = [i \in Items |-> 0]

Claim(i) ==
  /\ status[i] = "pending"
  /\ status' = [status EXCEPT ![i] = "running"]
  /\ UNCHANGED made

Make(i) ==
  /\ status[i] = "running"
  /\ made[i] = 0
  /\ made' = [made EXCEPT ![i] = 1]
  /\ UNCHANGED status

End(i) ==
  /\ status[i] = "running"
  /\ \E how \in {"completed", "failed"} : status' = [status EXCEPT ![i] = how]
  /\ UNCHANGED made

CancelTheRest ==
  /\ status' = [i \in Items |->
                  IF status[i] = "pending" THEN "cancelled" ELSE status[i]]
  /\ UNCHANGED made

Next ==
  \/ \E i \in Items : Claim(i) \/ Make(i) \/ End(i)
  \/ CancelTheRest

Spec == Init /\ [][Next]_<<status, made>>
=============================================================================
