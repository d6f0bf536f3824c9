------------------------------ MODULE TaskLife ------------------------------
(***************************************************************************)
(* What tasks.create promises of a task's row, without queue, pool, runs   *)
(* or restarts: it waits, is begun once, and ends.  Nothing that has ended *)
(* is taken up again.  A failure may be corrected by a result that comes   *)
(* late, a result is never taken back, and a deleted row stays deleted.    *)
(***************************************************************************)
CONSTANT Tasks

VARIABLE life   \* task -> what its row says

Init == life = [t \in Tasks |-> "none"]

Moves(t, from, to) ==
  /\ life[t] \in from
  /\ life' = [life EXCEPT ![t] = to]

Submit(t)   == Moves(t, {"none"}, "queued")
Begin(t)    == Moves(t, {"queued"}, "executing")
Complete(t) == Moves(t, {"executing", "failed"}, "done")
Delete(t)   == Moves(t, {"queued", "executing", "done", "failed"}, "deleted")

(* Whatever was waiting or at work may be given up, several at a time.     *)
GiveUp ==
  \E lost \in SUBSET {t \in Tasks : life[t] \in {"queued", "executing"}} :
    life' = [t \in Tasks |-> IF t \in lost THEN "failed" ELSE life[t]]

Next ==
  \/ \E t \in Tasks : Submit(t) \/ Begin(t) \/ Complete(t) \/ Delete(t)
  \/ GiveUp

Spec == Init /\ [][Next]_life
=============================================================================
