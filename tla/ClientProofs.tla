---------------------------- MODULE ClientProofs ----------------------------
(***************************************************************************)
(* Proofs about what the orchestrator's clients are told: the callers of   *)
(* the webhook (WebhookTasks), for every set of callers and bodies, every  *)
(* number of tasks, expiries and failures, and dispatches of any length;   *)
(* and a tab of the workbench (TaskView), for any number of tasks,         *)
(* iterations, questions, queries, lost connections and reloads.           *)
(***************************************************************************)
EXTENDS WebhookTasks, TaskView, FiniteSetTheorems, TLAPS

-----------------------------------------------------------------------------
(* The webhook's callers.                                                  *)

Requests == [at: Points, body: Bodies, task: Nat, code: Codes, orphan: BOOLEAN]
TableRows == [hash: Bodies, task: Nat, stale: BOOLEAN, expired: BOOLEAN]

Types ==
  /\ row \subseteq TableRows
  /\ req \in [Callers -> Requests]
  /\ tasks \in Seq(Bodies)
  /\ stolen \in BOOLEAN

(* Task k was created for body b.                                          *)
CreatedFor(k, b) == k \in DOMAIN tasks /\ tasks[k] = b

(* The table holds the key at most once, and a final row shows a task of   *)
(* the body it stands for.                                                 *)
RowIsTrue ==
  /\ \A r, s \in row : r = s
  /\ \A r \in row : ~IsClaim(r) => CreatedFor(r.task, r.hash)

(* At most one request is past the INSERT, and the row is its claim.       *)
OneOwner ==
  /\ \A c, d \in Callers : Working(c) /\ Working(d) => c = d
  /\ \A c \in Callers : Working(c) =>
       /\ row # {}
       /\ \A r \in row : IsClaim(r) /\ ~r.expired /\ r.hash = req[c].body

(* A task of the key that can reach the table is there, in a row that has  *)
(* not expired, or its request is about to put it there.                   *)
Finalizing(c) == req[c].at = "finalize"
Recorded(k) == \E r \in row : ~IsClaim(r) /\ ~r.expired /\ r.task = k
Carried(k) == \E c \in Callers : Finalizing(c) /\ req[c].task = k

CurrentIsKept ==
  /\ \A k \in current \ lost : Recorded(k) \/ Carried(k)
  /\ \A c \in Callers : Finalizing(c) => CreatedFor(req[c].task, req[c].body)

AnswersAreTrue ==
  \A c \in Callers :
    req[c].code \in {"ok", "replay"} => CreatedFor(req[c].task, req[c].body)

KeyInv ==
  /\ RowIsTrue
  /\ OneOwner
  /\ CurrentIsKept
  /\ AnswersAreTrue

WebhookInv == Types /\ (~stolen => KeyInv)

(* Nobody has asked for anything at first.                                 *)
LEMMA WebhookInit == Init => WebhookInv
<1> SUFFICES ASSUME Init PROVE WebhookInv
  OBVIOUS
<1>1. PICK b \in Bodies :
        req = [c \in Callers |-> [at |-> "idle", body |-> b, task |-> 0,
                                  code |-> "none", orphan |-> FALSE]]
  BY DEF Init
<1>2. /\ row = {} /\ current = {} /\ stolen = FALSE /\ tasks \in Seq(Bodies)
  BY DEF Init
<1>3. Types
  BY <1>1, <1>2 DEF Types, Requests, Points, Codes
<1>4. KeyInv
  BY <1>1, <1>2 DEF KeyInv, RowIsTrue, OneOwner, Working, CurrentIsKept, Finalizing,
                    AnswersAreTrue
<1> QED BY <1>3, <1>4 DEF WebhookInv

-----------------------------------------------------------------------------
(* What the two ways of moving a request on do to it.                      *)
LEMMA GoToMoves ==
  ASSUME Types, NEW c \in Callers, NEW point \in Points, GoTo(c, point)
  PROVE  /\ req' \in [Callers -> Requests]
         /\ \A d \in Callers : d # c => req'[d] = req[d]
         /\ req'[c].at = point /\ req'[c].body = req[c].body
         /\ req'[c].task = req[c].task /\ req'[c].code = req[c].code
  BY DEF GoTo, Types, Requests

LEMMA AnswerEnds ==
  ASSUME Types, NEW c \in Callers, NEW code \in Codes, NEW task \in Nat,
         Answer(c, code, task)
  PROVE  /\ req' \in [Callers -> Requests]
         /\ \A d \in Callers : d # c => req'[d] = req[d]
         /\ req'[c].at = "idle" /\ req'[c].body = req[c].body
         /\ req'[c].task = task /\ req'[c].code = code
<1>1. req' = [req EXCEPT ![c] = [req[c] EXCEPT !.at = "idle", !.code = code,
                                               !.task = task, !.orphan = FALSE]]
  BY DEF Answer
<1>2. req[c] \in Requests
  BY DEF Types
<1>3. /\ \A d \in Callers : d # c => req'[d] = req[d]
      /\ req'[c] = [req[c] EXCEPT !.at = "idle", !.code = code,
                                  !.task = task, !.orphan = FALSE]
      /\ req' = [d \in Callers |-> req'[d]]
  BY <1>1 DEF Types
<1>4. req'[c] = [at |-> "idle", body |-> req[c].body, task |-> task,
                 code |-> code, orphan |-> FALSE]
  BY <1>2, <1>3 DEF Requests
<1>5. \A d \in Callers : req'[d] \in Requests
  <2>1. req'[c] \in Requests
    BY <1>2, <1>4 DEF Requests, Points
  <2>2. \A d \in Callers : req[d] \in Requests
    BY DEF Types
  <2> QED BY <1>3, <2>1, <2>2
<1> QED BY <1>3, <1>4, <1>5

(* The owner's claim is the whole table, so nothing of the key is recorded,*)
(* and what is carried is carried by the owner.                            *)
LEMMA OwnerAlone ==
  ASSUME KeyInv, NEW c \in Callers, Working(c)
  PROVE  /\ \A d \in Callers : Working(d) => d = c
         /\ \A k : ~Recorded(k)
         /\ \A k \in current \ lost : Finalizing(c) /\ req[c].task = k
<1>1. \A d \in Callers : Working(d) => d = c
  BY DEF KeyInv, OneOwner
<1>2. \A k : ~Recorded(k)
  BY DEF KeyInv, OneOwner, Recorded
<1>3. ASSUME NEW k \in current \ lost
      PROVE  Finalizing(c) /\ req[c].task = k
  <2>1. PICK d \in Callers : Finalizing(d) /\ req[d].task = k
    BY <1>2 DEF KeyInv, CurrentIsKept, Carried
  <2>2. d = c
    BY <1>1, <2>1 DEF Finalizing, Working
  <2> QED BY <2>1, <2>2
<1> QED BY <1>1, <1>2, <1>3

(* A request that leaves the table alone, owns nothing afterwards, takes   *)
(* its task to the table or loses it, and is answered truly, changes       *)
(* nothing for the others.                                                 *)
LEMMA Quiet ==
  ASSUME KeyInv, NEW c \in Callers, UNCHANGED <<row, tasks, current>>,
         \A d \in Callers : d # c => req'[d] = req[d],
         ~Working(c)',
         \A k \in lost : k \in lost',
         Finalizing(c) => req[c].task \in lost',
         req'[c].code \in {"ok", "replay"} => CreatedFor(req'[c].task, req'[c].body)
  PROVE  KeyInv'
<1>1. \A d \in Callers : Working(d)' => d # c /\ Working(d)
  BY DEF Working
<1>2. RowIsTrue'
  BY DEF KeyInv, RowIsTrue, CreatedFor
<1>3. OneOwner'
  BY <1>1 DEF KeyInv, OneOwner
<1>4. \A k \in current' \ lost' : Recorded(k)' \/ Carried(k)'
  <2> SUFFICES ASSUME NEW k \in current, k \notin lost' PROVE Recorded(k)' \/ Carried(k)'
    OBVIOUS
  <2>1. CASE Recorded(k)
    BY <2>1 DEF Recorded
  <2>2. CASE Carried(k)
    <3>1. PICK d \in Callers : Finalizing(d) /\ req[d].task = k
      BY <2>2 DEF Carried
    <3>2. d # c /\ req'[d] = req[d]
      BY <3>1
    <3> QED BY <3>1, <3>2 DEF Carried, Finalizing
  <2> QED BY <2>1, <2>2 DEF KeyInv, CurrentIsKept
<1>5. CurrentIsKept' /\ AnswersAreTrue'
  <2>1. \A d \in Callers : Finalizing(d)' => d # c
    BY DEF Finalizing, Working
  <2> QED BY <1>4, <2>1
      DEF KeyInv, CurrentIsKept, AnswersAreTrue, CreatedFor, Finalizing
<1> QED BY <1>2, <1>3, <1>5 DEF KeyInv

(* An answer is such a step.                                               *)
LEMMA EndsTruly ==
  ASSUME Types, KeyInv, NEW c \in Callers, NEW code \in Codes, NEW task \in Nat,
         Answer(c, code, task), UNCHANGED <<row, tasks, current>>,
         \A k \in lost : k \in lost',
         Finalizing(c) => req[c].task \in lost',
         code \in {"ok", "replay"} => CreatedFor(task, req[c].body)
  PROVE  KeyInv'
<1>1. /\ \A d \in Callers : d # c => req'[d] = req[d]
      /\ req'[c].at = "idle" /\ req'[c].body = req[c].body
      /\ req'[c].task = task /\ req'[c].code = code
  BY AnswerEnds
<1>2. ~Working(c)'
  BY <1>1 DEF Working
<1> QED BY <1>1, <1>2, Quiet

-----------------------------------------------------------------------------
(* A new request claims nothing yet.                                       *)
LEMMA ArriveInv ==
  ASSUME Types, NEW c \in Callers, NEW b \in Bodies, Arrive(c, b)
  PROVE  Types' /\ (KeyInv => KeyInv')
<1>1. /\ req' = [req EXCEPT ![c] = [at |-> "claim", body |-> b, task |-> 0,
                                    code |-> "none", orphan |-> FALSE]]
      /\ UNCHANGED <<row, tasks, current, lost, stolen>> /\ req[c].at = "idle"
  BY DEF Arrive
<1>2. Types'
  BY <1>1 DEF Types, Requests, Points, Codes
<1>3. /\ \A d \in Callers : d # c => req'[d] = req[d]
      /\ req'[c].at = "claim" /\ req'[c].code = "none"
  BY <1>1 DEF Types
<1>4. ~Working(c)' /\ ~Finalizing(c)
  BY <1>1, <1>3 DEF Working, Finalizing
<1>5. KeyInv => KeyInv'
  BY <1>1, <1>3, <1>4, Quiet
<1> QED BY <1>2, <1>5

(* The INSERT: it succeeds only when no row is there, and then no request  *)
(* owns the key.                                                           *)
LEMMA ClaimInv ==
  ASSUME Types, NEW c \in Callers, NEW ok \in BOOLEAN, Claim(c, ok)
  PROVE  Types' /\ (KeyInv => KeyInv')
<1>1. /\ req[c].at = "claim" /\ ~Finalizing(c)
      /\ UNCHANGED <<tasks, current, lost, stolen>>
  BY DEF Claim, Finalizing
<1>2. CASE ~ok
  <2>1. Answer(c, "unavailable", 0) /\ UNCHANGED row
    BY <1>2 DEF Claim
  <2>2. req' \in [Callers -> Requests]
    BY <2>1, AnswerEnds DEF Codes
  <2>3. KeyInv => KeyInv'
    BY <1>1, <2>1, EndsTruly DEF Codes
  <2> QED BY <1>1, <2>1, <2>2, <2>3 DEF Types
<1>3. CASE ok /\ row = {}
  <2>1. row' = {NewClaim(req[c].body)} /\ GoTo(c, "dispatch")
    BY <1>3 DEF Claim, Insertable
  <2>2. /\ req' \in [Callers -> Requests]
        /\ \A d \in Callers : d # c => req'[d] = req[d]
        /\ req'[c].at = "dispatch" /\ req'[c].body = req[c].body
        /\ req'[c].task = req[c].task /\ req'[c].code = req[c].code
    BY <2>1, GoToMoves DEF Points
  <2>3. Types'
    BY <1>1, <2>1, <2>2 DEF Types, NewClaim, TableRows, Requests, Placeholder
  <2>4. ASSUME KeyInv PROVE KeyInv'
    <3>1. \A d \in Callers : ~Working(d)
      BY <1>3, <2>4 DEF KeyInv, OneOwner
    <3>2. \A d \in Callers : Working(d)' => d = c
      BY <2>2, <3>1 DEF Working
    <3>3. \A k \in current : k \in lost
      BY <1>3, <2>4, <3>1
         DEF KeyInv, CurrentIsKept, Recorded, Carried, Finalizing, Working
    <3>4. \A r \in row' : IsClaim(r) /\ ~r.expired /\ r.hash = req[c].body
      BY <2>1 DEF NewClaim, IsClaim
    <3>5. RowIsTrue'
      BY <2>1, <3>4 DEF RowIsTrue
    <3>6. OneOwner'
      BY <2>1, <2>2, <3>2, <3>4 DEF OneOwner
    <3>7. CurrentIsKept' /\ AnswersAreTrue'
      <4>1. \A d \in Callers : ~Finalizing(d)'
        BY <2>2, <3>2 DEF Finalizing, Working
      <4> QED BY <1>1, <2>2, <2>4, <3>3, <4>1
          DEF KeyInv, CurrentIsKept, AnswersAreTrue, CreatedFor
    <3> QED BY <3>5, <3>6, <3>7 DEF KeyInv
  <2> QED BY <2>3, <2>4
<1>4. CASE ok /\ row # {}
  <2>1. UNCHANGED row /\ GoTo(c, "read")
    BY <1>4 DEF Claim, Insertable
  <2>2. /\ req' \in [Callers -> Requests]
        /\ \A d \in Callers : d # c => req'[d] = req[d]
        /\ req'[c].at = "read" /\ req'[c].body = req[c].body
        /\ req'[c].task = req[c].task /\ req'[c].code = req[c].code
    BY <2>1, GoToMoves DEF Points
  <2>3. Types'
    BY <1>1, <2>1, <2>2 DEF Types
  <2>4. KeyInv => KeyInv'
    <3>1. ~Working(c)'
      BY <2>2 DEF Working
    <3>2. KeyInv /\ req'[c].code \in {"ok", "replay"} =>
            CreatedFor(req'[c].task, req'[c].body)
      BY <2>2 DEF KeyInv, AnswersAreTrue
    <3> QED BY <1>1, <2>1, <2>2, <3>1, <3>2, Quiet
  <2> QED BY <2>3, <2>4
<1> QED BY <1>2, <1>3, <1>4

(* An answer out of a row that is final, or 'too early'.                   *)
LEMMA AnsweredFromRow ==
  ASSUME Types, NEW c \in Callers, ~Finalizing(c),
         UNCHANGED <<row, tasks, current, lost, stolen>>,
         \/ Answer(c, "too_early", 0)
         \/ \E r \in row : ~IsClaim(r) /\ Replayed(c, r)
  PROVE  Types' /\ (KeyInv => KeyInv')
<1>1. CASE Answer(c, "too_early", 0)
  BY <1>1, AnswerEnds, EndsTruly DEF Codes, Types
<1>2. ASSUME NEW r \in row, ~IsClaim(r), Conflicts(req[c].body, r),
             Answer(c, "conflict", r.task)
      PROVE  Types' /\ (KeyInv => KeyInv')
  <2>1. r.task \in Nat
    BY DEF Types, TableRows
  <2> QED BY <1>2, <2>1, AnswerEnds, EndsTruly DEF Codes, Types
<1>3. ASSUME NEW r \in row, ~IsClaim(r), ~Conflicts(req[c].body, r),
             Answer(c, "replay", r.task)
      PROVE  Types' /\ (KeyInv => KeyInv')
  <2>1. r.task \in Nat /\ r.hash = req[c].body
    BY <1>3 DEF Types, TableRows, Conflicts
  <2>2. KeyInv => CreatedFor(r.task, req[c].body)
    BY <1>3, <2>1 DEF KeyInv, RowIsTrue
  <2> QED BY <1>3, <2>1, <2>2, AnswerEnds, EndsTruly DEF Codes, Types
<1> QED BY <1>1, <1>2, <1>3 DEF Replayed

(* Reading the row back: a takeover, or an answer out of the row.          *)
LEMMA RereadInv ==
  ASSUME Types, NEW c \in Callers, Reread(c) \/ LookAgain(c)
  PROVE  Types' /\ (KeyInv => KeyInv')
<1>1. UNCHANGED <<row, tasks, current, lost, stolen>> /\ ~Finalizing(c)
  BY DEF Reread, LookAgain, Finalizing
<1>2. CASE Reread(c) /\ \E r \in row : r.expired \/ Orphan(r)
  <2>1. PICK r \in row :
          req' = [req EXCEPT ![c].at = "reclaim", ![c].orphan = ~r.expired]
    BY <1>2 DEF Reread
  <2>2. /\ req' \in [Callers -> Requests]
        /\ \A d \in Callers : d # c => req'[d] = req[d]
        /\ req'[c].at = "reclaim" /\ req'[c].body = req[c].body
        /\ req'[c].task = req[c].task /\ req'[c].code = req[c].code
    BY <2>1 DEF Types, Requests, Points, TableRows
  <2>3. ~Working(c)'
    BY <2>2 DEF Working
  <2>4. KeyInv /\ req'[c].code \in {"ok", "replay"} =>
          CreatedFor(req'[c].task, req'[c].body)
    BY <2>2 DEF KeyInv, AnswersAreTrue
  <2>5. KeyInv => KeyInv'
    BY <1>1, <2>2, <2>3, <2>4, Quiet
  <2> QED BY <1>1, <2>2, <2>5 DEF Types
<1>3. CASE ~(Reread(c) /\ \E r \in row : r.expired \/ Orphan(r))
  <2>1. \/ Answer(c, "too_early", 0)
        \/ \E r \in row : ~IsClaim(r) /\ Replayed(c, r)
    BY <1>3 DEF Reread, LookAgain
  <2> QED BY <1>1, <2>1, AnsweredFromRow
<1> QED BY <1>2, <1>3

(* A takeover deletes a claim.  When nobody was at work on it, no task of  *)
(* the key is on its way to the table.                                     *)
LEMMA ReclaimInv ==
  ASSUME Types, NEW c \in Callers, Reclaim(c)
  PROVE  Types' /\ (KeyInv /\ ~stolen' => KeyInv')
<1>1. /\ UNCHANGED <<tasks, current, lost>> /\ req[c].at = "reclaim" /\ ~Working(c)
      /\ row' = {r \in row : ~IsClaim(r)}
      /\ GoTo(c, "again") \/ Answer(c, "too_early", 0)
      /\ stolen' \in BOOLEAN
      /\ ~stolen' => row' = row \/ \A d \in Callers : ~Working(d)
  BY DEF Reclaim, AffectedRowsRead, Types, Working
<1>2. /\ req' \in [Callers -> Requests]
      /\ \A d \in Callers : d # c => req'[d] = req[d]
      /\ req'[c].at \in {"again", "idle"} /\ req'[c].body = req[c].body
      /\ req'[c].code \in {"ok", "replay"} =>
           req'[c].code = req[c].code /\ req'[c].task = req[c].task
  BY <1>1, GoToMoves, AnswerEnds DEF Points, Codes
<1>3. Types'
  BY <1>1, <1>2 DEF Types
<1>4. ~Working(c)' /\ ~Finalizing(c)
  BY <1>1, <1>2 DEF Working, Finalizing
<1>5. KeyInv /\ req'[c].code \in {"ok", "replay"} =>
        CreatedFor(req'[c].task, req'[c].body)
  BY <1>2 DEF KeyInv, AnswersAreTrue
<1>6. CASE row' = row
  <2>1. KeyInv => KeyInv'
    BY <1>1, <1>2, <1>4, <1>5, <1>6, Quiet
  <2> QED BY <1>3, <2>1
<1>7. ASSUME KeyInv, \A d \in Callers : ~Working(d) PROVE KeyInv'
  <2>1. \A d \in Callers : ~Working(d)'
    BY <1>2, <1>4, <1>7 DEF Working
  <2>2. RowIsTrue' /\ OneOwner'
    BY <1>1, <1>7, <2>1 DEF KeyInv, RowIsTrue, OneOwner, CreatedFor
  <2>3. CurrentIsKept'
    <3>1. \A k \in current \ lost : Recorded(k)
      BY <1>7 DEF KeyInv, CurrentIsKept, Carried, Finalizing, Working
    <3>2. \A k : Recorded(k) => Recorded(k)'
      BY <1>1 DEF Recorded
    <3> QED BY <1>1, <2>1, <3>1, <3>2 DEF CurrentIsKept, Finalizing, Working
  <2>4. AnswersAreTrue'
    BY <1>1, <1>2, <1>5, <1>7 DEF KeyInv, AnswersAreTrue, CreatedFor
  <2> QED BY <2>2, <2>3, <2>4 DEF KeyInv
<1> QED BY <1>1, <1>3, <1>6, <1>7

-----------------------------------------------------------------------------
(* What repo.insertTask adds.                                              *)
LEMMA InsertsOne ==
  ASSUME Types, NEW c \in Callers, Inserts(req[c].body)
  PROVE  /\ tasks' \in Seq(Bodies) /\ Len(tasks') \in Nat
         /\ \A k, b : CreatedFor(k, b) => CreatedFor(k, b)'
         /\ Len(tasks') \in DOMAIN tasks' /\ tasks'[Len(tasks')] = req[c].body
         /\ current' = current \cup {Len(tasks')}
<1>1. req[c].body \in Bodies /\ Len(tasks) \in Nat
  BY DEF Types, Requests
<1>2. /\ tasks' \in Seq(Bodies) /\ Len(tasks') = Len(tasks) + 1
      /\ tasks'[Len(tasks')] = req[c].body
      /\ \A k \in DOMAIN tasks : k \in DOMAIN tasks' /\ tasks'[k] = tasks[k]
      /\ Len(tasks') \in DOMAIN tasks'
  BY <1>1 DEF Types, Inserts
<1> QED BY <1>1, <1>2 DEF CreatedFor, Inserts

(* tasks.create answers: the one task of the key, for its owner's body.    *)
LEMMA DispatchInv ==
  ASSUME Types, NEW c \in Callers, Dispatch(c)
  PROVE  Types' /\ (KeyInv => KeyInv')
<1>1. /\ req[c].at = "dispatch" /\ UNCHANGED <<row, lost, stolen>> /\ Working(c)
      /\ Inserts(req[c].body)
      /\ req' = [req EXCEPT ![c].at = "finalize", ![c].task = Len(tasks')]
  BY DEF Dispatch, Working
<1>2. /\ tasks' \in Seq(Bodies) /\ Len(tasks') \in Nat
      /\ \A k, b : CreatedFor(k, b) => CreatedFor(k, b)'
      /\ Len(tasks') \in DOMAIN tasks' /\ tasks'[Len(tasks')] = req[c].body
      /\ current' = current \cup {Len(tasks')}
  BY <1>1, InsertsOne
<1>3. /\ \A d \in Callers : d # c => req'[d] = req[d]
      /\ req'[c].at = "finalize" /\ req'[c].body = req[c].body
      /\ req'[c].task = Len(tasks') /\ req'[c].code = req[c].code
      /\ req' \in [Callers -> Requests]
  <2>1. req[c] \in Requests /\ \A d \in Callers : req[d] \in Requests
    BY DEF Types
  <2>2. /\ \A d \in Callers : d # c => req'[d] = req[d]
        /\ req'[c] = [req[c] EXCEPT !.at = "finalize", !.task = Len(tasks')]
        /\ req' = [d \in Callers |-> req'[d]]
    BY <1>1 DEF Types
  <2>3. req'[c] = [at |-> "finalize", body |-> req[c].body, task |-> Len(tasks'),
                   code |-> req[c].code, orphan |-> req[c].orphan]
    BY <2>1, <2>2 DEF Requests
  <2>4. \A d \in Callers : req'[d] \in Requests
    <3>1. req'[c] \in Requests
      BY <1>2, <2>1, <2>3 DEF Requests, Points
    <3> QED BY <2>1, <2>2, <3>1
  <2> QED BY <2>2, <2>3, <2>4
<1>4. Types'
  BY <1>1, <1>2, <1>3 DEF Types
<1>5. ASSUME KeyInv PROVE KeyInv'
  <2>1. /\ \A d \in Callers : Working(d) => d = c
        /\ \A k \in current : k \in lost
    BY <1>1, <1>5, OwnerAlone DEF Finalizing
  <2>2. \A d \in Callers : Working(d)' => d = c
    BY <1>3, <2>1 DEF Working
  <2>3. CreatedFor(req[c].task, req[c].body)'
    BY <1>2, <1>3 DEF CreatedFor
  <2>4. RowIsTrue'
    BY <1>1, <1>2, <1>5 DEF KeyInv, RowIsTrue
  <2>5. OneOwner'
    BY <1>1, <1>3, <1>5, <2>2 DEF KeyInv, OneOwner
  <2>6. CurrentIsKept'
    <3> PICK n \in Nat : n = Len(tasks')
      BY <1>2
    <3>1. \A k \in current' \ lost' : k = n
      BY <1>1, <1>2, <2>1
    <3>2. Carried(n)'
      BY <1>3 DEF Carried, Finalizing
    <3>3. \A d \in Callers : Finalizing(d)' => d = c
      BY <2>2 DEF Finalizing, Working
    <3> QED BY <2>3, <3>1, <3>2, <3>3 DEF CurrentIsKept
  <2>7. AnswersAreTrue'
    <3> SUFFICES ASSUME NEW d \in Callers, req'[d].code \in {"ok", "replay"}
                 PROVE  CreatedFor(req[d].task, req[d].body)'
      BY DEF AnswersAreTrue
    <3>1. CASE d = c
      BY <2>3, <3>1
    <3>2. CASE d # c
      BY <1>2, <1>3, <1>5, <3>2 DEF KeyInv, AnswersAreTrue
    <3> QED BY <3>1, <3>2
  <2> QED BY <2>4, <2>5, <2>6, <2>7 DEF KeyInv
<1> QED BY <1>4, <1>5

(* tasks.create throws: before its INSERT, or with a task that is lost.    *)
LEMMA DispatchThrowsInv ==
  ASSUME Types, NEW c \in Callers, NEW inserted \in BOOLEAN,
         DispatchThrows(c, inserted)
  PROVE  Types' /\ (KeyInv => KeyInv')
<1>1. /\ req[c].at = "dispatch" /\ UNCHANGED <<row, stolen>> /\ Working(c)
      /\ GoTo(c, "release")
  BY DEF DispatchThrows, Working
<1>2. /\ tasks' \in Seq(Bodies)
      /\ \A k, b : CreatedFor(k, b) => CreatedFor(k, b)'
      /\ \A k \in current' \ lost' : k \in current \ lost
  <2>1. CASE inserted = TRUE
    <3>1. Inserts(req[c].body) /\ lost' = lost \cup {Len(tasks')}
      BY <2>1 DEF DispatchThrows
    <3> QED BY <3>1, InsertsOne
  <2>2. CASE inserted = FALSE
    BY <2>2 DEF DispatchThrows, Types, CreatedFor
  <2> QED BY <2>1, <2>2
<1>3. /\ req' \in [Callers -> Requests]
      /\ \A d \in Callers : d # c => req'[d] = req[d]
      /\ req'[c].at = "release" /\ req'[c].body = req[c].body
      /\ req'[c].task = req[c].task /\ req'[c].code = req[c].code
  BY <1>1, GoToMoves DEF Points
<1>4. Types'
  BY <1>1, <1>2, <1>3 DEF Types
<1>5. ASSUME KeyInv PROVE KeyInv'
  <2>1. /\ \A d \in Callers : Working(d) => d = c
        /\ \A k \in current : k \in lost
    BY <1>1, <1>5, OwnerAlone DEF Finalizing
  <2>2. \A d \in Callers : Working(d)' => d = c
    BY <1>3, <2>1 DEF Working
  <2>3. RowIsTrue'
    BY <1>1, <1>2, <1>5 DEF KeyInv, RowIsTrue
  <2>4. OneOwner'
    BY <1>1, <1>3, <1>5, <2>2 DEF KeyInv, OneOwner
  <2>5. CurrentIsKept'
    <3>1. \A d \in Callers : ~Finalizing(d)'
      BY <1>3, <2>2 DEF Finalizing, Working
    <3> QED BY <1>2, <2>1, <3>1 DEF CurrentIsKept
  <2>6. AnswersAreTrue'
    <3> SUFFICES ASSUME NEW d \in Callers, req'[d].code \in {"ok", "replay"}
                 PROVE  CreatedFor(req[d].task, req[d].body)'
      BY DEF AnswersAreTrue
    <3>1. /\ req'[d].code = req[d].code /\ req'[d].task = req[d].task
          /\ req'[d].body = req[d].body
      BY <1>3
    <3> QED BY <1>2, <1>5, <3>1 DEF KeyInv, AnswersAreTrue
  <2> QED BY <2>3, <2>4, <2>5, <2>6 DEF KeyInv
<1> QED BY <1>4, <1>5

(* The owner leaves and its statement fails: the claim stays, and the task *)
(* of a finalize is lost.                                                  *)
LEMMA LeaveFails ==
  ASSUME Types, NEW c \in Callers, Finalize(c, FALSE) \/ Release(c, FALSE)
  PROVE  Types' /\ (KeyInv => KeyInv')
<1>1. UNCHANGED <<row, tasks, current, stolen>> /\ req[c].task \in Nat
  BY DEF Finalize, Release, Types, Requests
<1>2. CASE Finalize(c, FALSE)
  <2>1. /\ Finalizing(c) /\ Answer(c, "ok", req[c].task)
        /\ lost' = lost \cup {req[c].task}
    BY <1>2 DEF Finalize, Finalizing
  <2>2. KeyInv => CreatedFor(req[c].task, req[c].body)
    BY <2>1 DEF KeyInv, CurrentIsKept
  <2> QED BY <1>1, <2>1, <2>2, AnswerEnds, EndsTruly DEF Codes, Types
<1>3. CASE Release(c, FALSE)
  <2>1. ~Finalizing(c) /\ Answer(c, "error", 0) /\ lost' = lost
    BY <1>3 DEF Release, Finalizing
  <2> QED BY <1>1, <2>1, AnswerEnds, EndsTruly DEF Codes, Types
<1> QED BY <1>2, <1>3

(* Its claim becomes final,                                                *)
LEMMA FinalizeInv ==
  ASSUME Types, NEW c \in Callers, Finalize(c, TRUE)
  PROVE  Types' /\ (KeyInv => KeyInv')
<1>1. /\ Finalizing(c) /\ Working(c) /\ Answer(c, "ok", req[c].task)
      /\ row' = {Finalized(r, c) : r \in row}
      /\ UNCHANGED <<tasks, current, lost, stolen>> /\ req[c].task \in Nat
  BY DEF Finalize, Finalizing, Working, Types, Requests
<1>2. /\ req' \in [Callers -> Requests]
      /\ \A d \in Callers : d # c => req'[d] = req[d]
      /\ req'[c].at = "idle" /\ req'[c].body = req[c].body
      /\ req'[c].task = req[c].task /\ req'[c].code = "ok"
  BY <1>1, AnswerEnds DEF Codes
<1>3. \A r \in row : /\ Finalized(r, c) \in TableRows
                     /\ Finalized(r, c).hash = r.hash
                     /\ Finalized(r, c).expired = r.expired
                     /\ Finalized(r, c).task = IF IsClaim(r) THEN req[c].task ELSE r.task
  BY <1>1 DEF Types, Finalized, Own, TableRows
<1>4. Types'
  BY <1>1, <1>2, <1>3 DEF Types
<1>5. ASSUME KeyInv PROVE KeyInv'
  <2>1. PICK r \in row : row = {r} /\ IsClaim(r) /\ ~r.expired /\ r.hash = req[c].body
    BY <1>1, <1>5 DEF KeyInv, OneOwner, RowIsTrue
  <2>2. CreatedFor(req[c].task, req[c].body)
    BY <1>1, <1>5 DEF KeyInv, CurrentIsKept
  <2>3. row' = {Finalized(r, c)}
    BY <1>1, <2>1
  <2>4. \A d \in Callers : ~Working(d)'
    BY <1>1, <1>2, <1>5, OwnerAlone DEF Working
  <2>5. RowIsTrue'
    BY <1>1, <1>3, <2>1, <2>2, <2>3 DEF RowIsTrue, CreatedFor
  <2>6. OneOwner'
    BY <2>4 DEF OneOwner
  <2>7. CurrentIsKept'
    <3> PICK n \in Nat : n = req[c].task
      BY <1>1
    <3>1. n # Placeholder
      BY <2>2 DEF CreatedFor, Placeholder, Types
    <3>2. Recorded(n)'
      BY <1>3, <2>1, <2>3, <3>1 DEF Recorded, IsClaim, Placeholder
    <3>3. \A k \in current \ lost : k = n
      BY <1>1, <1>5, OwnerAlone
    <3>4. \A d \in Callers : ~Finalizing(d)'
      BY <2>4 DEF Finalizing, Working
    <3> QED BY <1>1, <3>2, <3>3, <3>4 DEF CurrentIsKept
  <2>8. AnswersAreTrue'
    BY <1>1, <1>2, <1>5, <2>2 DEF KeyInv, AnswersAreTrue, CreatedFor
  <2> QED BY <2>5, <2>6, <2>7, <2>8 DEF KeyInv
<1> QED BY <1>4, <1>5

(* or is given back.                                                       *)
LEMMA ReleaseInv ==
  ASSUME Types, NEW c \in Callers, Release(c, TRUE)
  PROVE  Types' /\ (KeyInv => KeyInv')
<1>1. /\ req[c].at = "release" /\ Working(c) /\ Answer(c, "error", 0)
      /\ row' = {r \in row : ~IsClaim(r)}
      /\ UNCHANGED <<tasks, current, lost, stolen>>
  BY DEF Release, Working
<1>2. /\ req' \in [Callers -> Requests]
      /\ \A d \in Callers : d # c => req'[d] = req[d]
      /\ req'[c].at = "idle" /\ req'[c].body = req[c].body
      /\ req'[c].task = 0 /\ req'[c].code = "error"
  BY <1>1, AnswerEnds DEF Codes
<1>3. Types'
  BY <1>1, <1>2 DEF Types
<1>4. ASSUME KeyInv PROVE KeyInv'
  <2>1. row' = {} /\ \A k \in current : k \in lost
    BY <1>1, <1>4, OwnerAlone DEF KeyInv, OneOwner, Finalizing
  <2>2. \A d \in Callers : ~Working(d)'
    BY <1>1, <1>2, <1>4, OwnerAlone DEF Working
  <2>3. RowIsTrue' /\ OneOwner'
    BY <2>1, <2>2 DEF RowIsTrue, OneOwner
  <2>4. CurrentIsKept'
    BY <1>1, <2>1, <2>2 DEF CurrentIsKept, Finalizing, Working
  <2>5. AnswersAreTrue'
    BY <1>1, <1>2, <1>4 DEF KeyInv, AnswersAreTrue, CreatedFor
  <2> QED BY <2>3, <2>4, <2>5 DEF KeyInv
<1> QED BY <1>3, <1>4

-----------------------------------------------------------------------------
(* A minute, a day, and the cleanup: none of them removes a row in use.    *)
LEMMA TimeInv ==
  ASSUME Types, MinutePasses \/ DayPasses \/ Cleanup
  PROVE  Types' /\ (KeyInv => KeyInv')
<1>1. UNCHANGED <<req, tasks, lost, stolen>>
  BY DEF MinutePasses, DayPasses, Cleanup
<1>2. CASE MinutePasses
  <2>1. row' = {[r EXCEPT !.stale = TRUE] : r \in row} /\ UNCHANGED current
    BY <1>2 DEF MinutePasses
  <2>2. \A r \in row : LET s == [r EXCEPT !.stale = TRUE] IN
          s \in TableRows /\ s.hash = r.hash /\ s.task = r.task /\ s.expired = r.expired
    BY DEF Types, TableRows
  <2>3. \A s \in row' : s \in TableRows /\ \E r \in row :
          s = [r EXCEPT !.stale = TRUE]
          /\ s.hash = r.hash /\ s.task = r.task /\ s.expired = r.expired
    BY <2>1, <2>2
  <2>4. row' = {} <=> row = {}
    BY <2>1
  <2>5. Types'
    BY <1>1, <2>3 DEF Types
  <2>6. ASSUME KeyInv PROVE KeyInv'
    <3>1. RowIsTrue'
      <4>1. \A s, q \in row' : s = q
        BY <2>3, <2>6 DEF KeyInv, RowIsTrue
      <4>2. \A s \in row' : ~IsClaim(s) => CreatedFor(s.task, s.hash)
        BY <2>3, <2>6 DEF KeyInv, RowIsTrue, IsClaim
      <4> QED BY <1>1, <4>1, <4>2 DEF RowIsTrue, CreatedFor, IsClaim
    <3>2. AnswersAreTrue'
      BY <1>1, <2>6 DEF KeyInv, AnswersAreTrue, CreatedFor
    <3>3. OneOwner'
      BY <1>1, <2>3, <2>4, <2>6 DEF KeyInv, OneOwner, Working, IsClaim
    <3>4. CurrentIsKept'
      <4>1. ASSUME NEW k, Recorded(k) PROVE Recorded(k)'
        <5>1. PICK r \in row : ~IsClaim(r) /\ ~r.expired /\ r.task = k
          BY <4>1 DEF Recorded
        <5>2. [r EXCEPT !.stale = TRUE] \in row'
          BY <2>1
        <5> QED BY <2>2, <5>1, <5>2 DEF Recorded, IsClaim
      <4>2. \A k : Carried(k) => Carried(k)'
        BY <1>1 DEF Carried, Finalizing
      <4> QED BY <1>1, <2>1, <2>6, <4>1, <4>2
          DEF KeyInv, CurrentIsKept, CreatedFor, Finalizing
    <3> QED BY <3>1, <3>2, <3>3, <3>4 DEF KeyInv
  <2> QED BY <2>5, <2>6
<1>3. CASE DayPasses
  <2>1. /\ row' = {[r EXCEPT !.expired = TRUE, !.stale = TRUE] : r \in row}
        /\ current' = {} /\ \A c \in Callers : req[c].at = "idle"
    BY <1>3 DEF DayPasses, Busy
  <2>2. \A r \in row : LET s == [r EXCEPT !.expired = TRUE, !.stale = TRUE] IN
          s \in TableRows /\ s.hash = r.hash /\ s.task = r.task
    BY DEF Types, TableRows
  <2>3. \A s \in row' : s \in TableRows /\ \E r \in row :
          s = [r EXCEPT !.expired = TRUE, !.stale = TRUE]
          /\ s.hash = r.hash /\ s.task = r.task
    BY <2>1, <2>2
  <2>4. Types'
    BY <1>1, <2>3 DEF Types
  <2>5. ASSUME KeyInv PROVE KeyInv'
    <3>1. RowIsTrue'
      BY <1>1, <2>3, <2>5 DEF KeyInv, RowIsTrue, IsClaim, CreatedFor
    <3>2. AnswersAreTrue'
      BY <1>1, <2>5 DEF KeyInv, AnswersAreTrue, CreatedFor
    <3>3. OneOwner' /\ CurrentIsKept'
      BY <1>1, <2>1 DEF OneOwner, Working, CurrentIsKept, Finalizing
    <3> QED BY <3>1, <3>2, <3>3 DEF KeyInv
  <2> QED BY <2>4, <2>5
<1>4. CASE Cleanup
  <2>1. row' = {r \in row : ~r.expired} /\ UNCHANGED current
    BY <1>4 DEF Cleanup
  <2>2. Types'
    BY <1>1, <2>1 DEF Types
  <2>3. ASSUME KeyInv PROVE KeyInv'
    <3>1. RowIsTrue'
      BY <1>1, <2>1, <2>3 DEF KeyInv, RowIsTrue, CreatedFor
    <3>2. AnswersAreTrue'
      BY <1>1, <2>3 DEF KeyInv, AnswersAreTrue, CreatedFor
    <3>3. OneOwner'
      BY <1>1, <2>1, <2>3 DEF KeyInv, OneOwner, Working
    <3>4. CurrentIsKept'
      <4>1. \A k : (Recorded(k) => Recorded(k)') /\ (Carried(k) => Carried(k)')
        BY <1>1, <2>1 DEF Recorded, Carried, Finalizing
      <4> QED BY <1>1, <2>1, <2>3, <4>1
          DEF KeyInv, CurrentIsKept, CreatedFor, Finalizing
    <3> QED BY <3>1, <3>2, <3>3, <3>4 DEF KeyInv
  <2> QED BY <2>2, <2>3
<1> QED BY <1>2, <1>3, <1>4

(* A crash drops the requests; a claim it orphans keeps its key taken, and *)
(* a task that was on its way to the table is lost.                        *)
LEMMA CrashInv ==
  ASSUME Types, Crash
  PROVE  Types' /\ (KeyInv => KeyInv')
<1>1. /\ UNCHANGED <<row, tasks, current, stolen>>
      /\ \A k \in lost : k \in lost'
      /\ \A c \in Callers : Finalizing(c) => req[c].task \in lost'
  BY DEF Crash, Finalizing
<1>2. \A c \in Callers :
        req'[c] = IF c \notin Busy THEN req[c]
                  ELSE [req[c] EXCEPT !.at = "idle", !.code = "error", !.task = 0,
                                      !.orphan = FALSE]
  BY DEF Crash
<1>3. ASSUME NEW c \in Callers
      PROVE  /\ req'[c] \in Requests
             /\ req'[c].at = "idle"
             /\ req'[c].code \in {"ok", "replay"} =>
                  req'[c] = req[c]
  <2>1. req[c] \in Requests
    BY DEF Types
  <2>2. CASE c \notin Busy
    BY <1>2, <2>1, <2>2 DEF Busy
  <2>3. CASE c \in Busy
    <3>1. req'[c] = [at |-> "idle", body |-> req[c].body, task |-> 0,
                     code |-> "error", orphan |-> FALSE]
      BY <1>2, <2>1, <2>3 DEF Requests
    <3> QED BY <2>1, <3>1 DEF Requests, Points, Codes
  <2> QED BY <2>2, <2>3
<1>4. Types'
  <2>1. req' = [c \in Callers |-> req'[c]]
    BY DEF Crash
  <2>2. req' \in [Callers -> Requests]
    BY <1>3, <2>1
  <2> QED BY <1>1, <2>2 DEF Types
<1>5. ASSUME KeyInv PROVE KeyInv'
  <2>1. RowIsTrue' /\ OneOwner'
    BY <1>1, <1>3, <1>5 DEF KeyInv, RowIsTrue, OneOwner, Working, CreatedFor
  <2>2. CurrentIsKept'
    <3>1. \A k \in current' \ lost' : Recorded(k)'
      BY <1>1, <1>5 DEF KeyInv, CurrentIsKept, Carried, Recorded
    <3>2. \A c \in Callers : ~Finalizing(c)'
      BY <1>3 DEF Finalizing
    <3> QED BY <3>1, <3>2 DEF CurrentIsKept
  <2>3. AnswersAreTrue'
    BY <1>1, <1>3, <1>5 DEF KeyInv, AnswersAreTrue, CreatedFor
  <2> QED BY <2>1, <2>2, <2>3 DEF KeyInv
<1> QED BY <1>4, <1>5

-----------------------------------------------------------------------------
(* WebhookInv is inductive: stolen, once set, stays set.                   *)
LEMMA WebhookNext == WebhookInv /\ [Next]_vars => WebhookInv'
<1> SUFFICES ASSUME WebhookInv, [Next]_vars PROVE WebhookInv'
  OBVIOUS
<1>1. Types /\ (~stolen => KeyInv)
  BY DEF WebhookInv
<1>2. stolen => stolen'
  BY DEF Next, Step, vars, Claim, Dispatch, DispatchThrows, Finalize, Release, Reread,
         Reclaim, LookAgain, Arrive, MinutePasses, DayPasses, Cleanup, Crash
<1>3. Types' /\ (KeyInv /\ ~stolen' => KeyInv')
  <2>1. ASSUME NEW c \in Callers, Step(c)
        PROVE  Types' /\ (KeyInv /\ ~stolen' => KeyInv')
    <3>1. ASSUME NEW ok \in BOOLEAN, Finalize(c, ok) \/ Release(c, ok)
          PROVE  Types' /\ (KeyInv => KeyInv')
      BY <1>1, <3>1, LeaveFails, FinalizeInv, ReleaseInv
    <3> QED BY <1>1, <2>1, <3>1, ClaimInv, DispatchInv, DispatchThrowsInv, RereadInv,
               ReclaimInv DEF Step
  <2>2. ASSUME NEW c \in Callers, NEW b \in Bodies, Arrive(c, b)
        PROVE  Types' /\ (KeyInv => KeyInv')
    BY <1>1, <2>2, ArriveInv
  <2>3. CASE MinutePasses \/ DayPasses \/ Cleanup
    BY <1>1, <2>3, TimeInv
  <2>4. CASE Crash
    BY <1>1, <2>4, CrashInv
  <2>5. CASE UNCHANGED vars
    BY <1>1, <2>5
       DEF vars, Types, KeyInv, RowIsTrue, OneOwner, Working, CurrentIsKept, Recorded,
           Carried, Finalizing, AnswersAreTrue, CreatedFor
  <2> QED BY <2>1, <2>2, <2>3, <2>4, <2>5 DEF Next
<1> QED BY <1>1, <1>2, <1>3 DEF WebhookInv

(* The inductive invariant holds in every reachable state.                 *)
THEOREM WebhookInvariant == Spec => []WebhookInv
  BY WebhookInit, WebhookNext, PTL DEF Spec

(* Until a claim is taken from an owner at work, a key makes one task      *)
(* within its 24 hours that can reach the table, however many callers,     *)
(* failures, crashes and takeovers of orphans there are.                   *)
THEOREM KeyMakesOneTask == Spec => []OneTaskPerKey
<1>1. WebhookInv => OneTaskPerKey
  <2> DEFINE known == current \ lost
  <2> SUFFICES ASSUME WebhookInv, ~stolen PROVE Cardinality(known) <= 1
    BY DEF OneTaskPerKey
  <2>1. KeyInv
    BY DEF WebhookInv
  <2>2. ASSUME NEW j \in known, NEW k \in known PROVE j = k
    <3>1. CASE \E c \in Callers : Finalizing(c)
      <4>1. PICK c \in Callers : Finalizing(c)
        BY <3>1
      <4>2. Working(c)
        BY <4>1 DEF Finalizing, Working
      <4> QED BY <2>1, <4>2, OwnerAlone
    <3>2. CASE ~\E c \in Callers : Finalizing(c)
      BY <2>1, <3>2 DEF KeyInv, CurrentIsKept, Recorded, Carried, RowIsTrue
    <3> QED BY <3>1, <3>2
  <2> HIDE DEF known
  <2>3. known = {} \/ \E k : known = {k}
    BY <2>2
  <2>4. Cardinality(known) \in {0, 1}
    BY <2>3, FS_EmptySet, FS_Singleton
  <2> QED BY <2>4
<1> QED BY <1>1, WebhookInvariant, PTL

(* And until then whoever is answered with a task gets one of its own body.*)
THEOREM AnswersAreOwn == Spec => []OwnTaskUntilStolen
<1>1. WebhookInv => OwnTaskUntilStolen
  BY DEF WebhookInv, KeyInv, AnswersAreTrue, OwnTaskUntilStolen, CreatedFor
<1> QED BY <1>1, WebhookInvariant, PTL

-----------------------------------------------------------------------------
(* The tab.                                                                *)

(* A card sequence with one card per tick.                                 *)
OneCardPerTick(cards) ==
  \A i, j \in DOMAIN cards : cards[i].tick = cards[j].tick => i = j

(* The indexes and the ticks of cards are integers.                        *)
LEMMA CardsHaveTicks ==
  ASSUME NEW cards \in Seq(Card), NEW k \in DOMAIN cards
  PROVE  k \in Int /\ cards[k] \in Card /\ cards[k].tick \in Ticks /\ cards[k].tick \in Int
<1>1. cards \in [1 .. Len(cards) -> Card] /\ Len(cards) \in Nat
  OBVIOUS
<1>2. k \in Int /\ cards[k] \in Card
  BY <1>1
<1>3. cards[k].tick \in Ticks
  BY <1>2 DEF Card
<1> QED BY <1>2, <1>3, ViewAssumption DEF Ticks

(* A card's place in the sorted list is one behind the cards before it:    *)
(* these are finitely many, fewer than the cards.                          *)
LEMMA EarlierIsFinite ==
  ASSUME NEW cards \in Seq(Card), NEW i \in DOMAIN cards
  PROVE  /\ IsFiniteSet(Earlier(cards, i))
         /\ Cardinality(Earlier(cards, i)) \in 0 .. Len(cards) - 1
<1> DEFINE D == 1 .. Len(cards)
<1>1. D = DOMAIN cards /\ Len(cards) \in Nat
  OBVIOUS
<1>2. IsFiniteSet(D) /\ Cardinality(D) = Len(cards)
  BY <1>1, FS_Interval
<1>3. IsFiniteSet(D \ {i}) /\ Cardinality(D \ {i}) = Len(cards) - 1
  <2>1. i \in D
    BY <1>1
  <2> HIDE DEF D
  <2> QED BY <1>2, <2>1, FS_RemoveElement
<1>4. Earlier(cards, i) \subseteq D \ {i}
  <2>1. cards[i].tick \in Int
    BY CardsHaveTicks
  <2> QED BY <1>1, <2>1 DEF Earlier
<1> QED BY <1>3, <1>4, FS_Subset, FS_CardinalityType

(* Of two cards, the cards before the one are before the other, and the    *)
(* one is as well: its place is lower.                                     *)
LEMMA EarlierIsLower ==
  ASSUME NEW cards \in Seq(Card), NEW i \in DOMAIN cards, NEW j \in Earlier(cards, i)
  PROVE  Cardinality(Earlier(cards, j)) < Cardinality(Earlier(cards, i))
<1>1. j \in DOMAIN cards
  BY DEF Earlier
<1>2. /\ IsFiniteSet(Earlier(cards, i)) /\ Cardinality(Earlier(cards, i)) \in Nat
      /\ IsFiniteSet(Earlier(cards, j)) /\ Cardinality(Earlier(cards, j)) \in Nat
  <2>1. Len(cards) \in Nat
    OBVIOUS
  <2> QED BY <1>1, <2>1, EarlierIsFinite
<1>3. \A k \in DOMAIN cards : k \in Int /\ cards[k].tick \in Int
  BY CardsHaveTicks
<1>4. Earlier(cards, j) \subseteq Earlier(cards, i)
  BY <1>1, <1>3 DEF Earlier
<1>5. j \notin Earlier(cards, j)
  BY <1>1, <1>3 DEF Earlier
<1>6. Earlier(cards, i) # Earlier(cards, j)
  BY <1>5
<1>7. /\ Cardinality(Earlier(cards, j)) <= Cardinality(Earlier(cards, i))
      /\ Cardinality(Earlier(cards, j)) # Cardinality(Earlier(cards, i))
  BY <1>2, <1>4, <1>6, FS_Subset
<1> QED BY <1>2, <1>7

(* Two cards have two places.                                              *)
LEMMA PlacesDiffer ==
  ASSUME NEW cards \in Seq(Card),
         NEW i \in DOMAIN cards, NEW j \in DOMAIN cards, i # j
  PROVE  Cardinality(Earlier(cards, i)) # Cardinality(Earlier(cards, j))
<1>1. \A k \in DOMAIN cards : k \in Int /\ cards[k].tick \in Int
  BY CardsHaveTicks
<1>2. i \in Earlier(cards, j) \/ j \in Earlier(cards, i)
  BY <1>1 DEF Earlier
<1>3. Len(cards) \in Nat
  OBVIOUS
<1>4. /\ Cardinality(Earlier(cards, i)) \in Int
      /\ Cardinality(Earlier(cards, j)) \in Int
  BY <1>3, EarlierIsFinite
<1>5. \/ Cardinality(Earlier(cards, i)) < Cardinality(Earlier(cards, j))
      \/ Cardinality(Earlier(cards, j)) < Cardinality(Earlier(cards, i))
  BY <1>2, EarlierIsLower
<1> QED BY <1>4, <1>5

(* Every place is taken: as many cards as places, and no two share one.    *)
LEMMA PlacesAreTaken ==
  ASSUME NEW cards \in Seq(Card), NEW k \in DOMAIN cards
  PROVE  \E i \in DOMAIN cards : Cardinality(Earlier(cards, i)) = k - 1
<1> DEFINE D == 1 .. Len(cards)
           place == [i \in D |-> Cardinality(Earlier(cards, i)) + 1]
<1>1. D = DOMAIN cards /\ Len(cards) \in Nat
  OBVIOUS
<1>2. \A i \in D : Cardinality(Earlier(cards, i)) \in 0 .. Len(cards) - 1
  BY <1>1, EarlierIsFinite
<1>3. place \in [D -> D]
  BY <1>1, <1>2
<1>4. \A i, j \in D : place[i] = place[j] => i = j
  <2> SUFFICES ASSUME NEW i \in D, NEW j \in D, place[i] = place[j], i # j
               PROVE  FALSE
    OBVIOUS
  <2>1. Cardinality(Earlier(cards, i)) = Cardinality(Earlier(cards, j))
    BY <1>1, <1>2
  <2> QED BY <1>1, <2>1, PlacesDiffer
<1>5. place \in Injection(D, D)
  BY <1>3, <1>4 DEF Injection, IsInjective
<1>6. IsFiniteSet(D)
  BY <1>1, FS_Interval
<1>7. place \in Surjection(D, D)
  BY <1>5, <1>6, FS_Injection
<1>8. \E i \in D : place[i] = k
  BY <1>1, <1>7 DEF Surjection
<1> QED BY <1>1, <1>2, <1>8

(* Array.sort: the sorted list is in order of the ticks, and no two of its *)
(* places hold the same card.                                              *)
LEMMA SortedCards ==
  ASSUME NEW cards \in Seq(Card), OneCardPerTick(cards)
  PROVE  /\ InTickOrder(cards) \in Seq(Card)
         /\ OneCardPerTick(InTickOrder(cards))
         /\ \A k, l \in DOMAIN InTickOrder(cards) :
              k < l => InTickOrder(cards)[k].tick <= InTickOrder(cards)[l].tick
<1> DEFINE At(k) == CHOOSE i \in DOMAIN cards : Cardinality(Earlier(cards, i)) = k - 1
<1>1. DOMAIN cards = 1 .. Len(cards) /\ Len(cards) \in Nat
  OBVIOUS
<1>2. \A k \in DOMAIN cards :
        At(k) \in DOMAIN cards /\ Cardinality(Earlier(cards, At(k))) = k - 1
  BY PlacesAreTaken
<1>3. InTickOrder(cards) = [k \in DOMAIN cards |-> cards[At(k)]]
  BY DEF InTickOrder
<1> HIDE DEF At
<1>4. \A k \in DOMAIN cards : cards[At(k)] \in Card
  BY <1>2
<1>5. InTickOrder(cards) \in Seq(Card)
  BY <1>1, <1>3, <1>4
<1>6. OneCardPerTick(InTickOrder(cards))
  <2> SUFFICES ASSUME NEW k \in DOMAIN cards, NEW l \in DOMAIN cards,
                      cards[At(k)].tick = cards[At(l)].tick
               PROVE  k = l
    BY <1>3 DEF OneCardPerTick
  <2>1. At(k) = At(l)
    BY <1>2 DEF OneCardPerTick
  <2>2. k - 1 = l - 1
    BY <1>2, <2>1
  <2> QED BY <1>1, <2>2
<1>7. ASSUME NEW k \in DOMAIN cards, NEW l \in DOMAIN cards, k < l
      PROVE  cards[At(k)].tick <= cards[At(l)].tick
  <2>1. /\ At(k) \in DOMAIN cards /\ Cardinality(Earlier(cards, At(k))) = k - 1
        /\ At(l) \in DOMAIN cards /\ Cardinality(Earlier(cards, At(l))) = l - 1
    BY <1>2
  <2>2. cards[At(k)].tick \in Int /\ cards[At(l)].tick \in Int
    BY <2>1, CardsHaveTicks
  <2>3. ~(l - 1 < k - 1)
    BY <1>1, <1>7
  <2>4. At(l) \notin Earlier(cards, At(k))
    BY <2>1, <2>3, EarlierIsLower
  <2>5. ~(cards[At(l)].tick < cards[At(k)].tick)
    BY <2>1, <2>4 DEF Earlier
  <2> QED BY <2>2, <2>5
<1> QED BY <1>3, <1>5, <1>6, <1>7

(* The cards of an answer: one for each of its step rows.                  *)
LEMMA HydratedCards ==
  ASSUME NEW ticks \in SUBSET Ticks
  PROVE  Hydrated(ticks) \in Seq(Card) /\ OneCardPerTick(Hydrated(ticks))
<1> DEFINE S == {Done(n) : n \in ticks}
           f == [n \in ticks |-> Done(n)]
<1>1. IsFiniteSet(ticks)
  <2>1. IsFiniteSet(Ticks)
    BY ViewAssumption, FS_Interval DEF Ticks
  <2> QED BY <2>1, FS_Subset
<1>2. f \in Surjection(ticks, S)
  BY DEF Surjection
<1>3. IsFiniteSet(S)
  BY <1>1, <1>2, FS_Surjection
<1> DEFINE c == SetToSeq(S)
<1>4. Cardinality(S) \in Nat
  BY <1>3, FS_CardinalityType
<1>5. c \in [1 .. Cardinality(S) -> S] /\ \A i, j \in DOMAIN c : c[i] = c[j] => i = j
  <2>1. \E g \in [1 .. Cardinality(S) -> S] : \A i, j \in DOMAIN g : g[i] = g[j] => i = j
    <3>1. PICK g \in Bijection(1 .. Cardinality(S), S) : TRUE
      BY <1>3, FS_CardinalityType DEF ExistsBijection
    <3>2. g \in [1 .. Cardinality(S) -> S] /\ \A i, j \in DOMAIN g : g[i] = g[j] => i = j
      BY <3>1 DEF Bijection, Injection, IsInjective
    <3> QED BY <3>2
  <2> QED BY <2>1 DEF SetToSeq, IsInjective
<1>6. S \subseteq Card /\ \A x, y \in S : x.tick = y.tick => x = y
  BY DEF Done, Card
<1> HIDE DEF S, c
<1>7. c \in Seq(Card)
  BY <1>4, <1>5, <1>6
<1>8. OneCardPerTick(c)
  BY <1>5, <1>6 DEF OneCardPerTick
<1> QED BY <1>7, <1>8, SortedCards DEF Hydrated, S, c

-----------------------------------------------------------------------------
(* What is under way between the tab and the server.                       *)
ServerRows == [status: Statuses \cup {"absent", "asking", "deleted"},
               ticks: 0 .. MaxTicks, rows: SUBSET Ticks,
               asks: 0 .. MaxAsks, stop: BOOLEAN]

Frames == [kind: {"start", "end"}, task: Tasks, n: Ticks, handoff: {None}]
     \cup [kind: {"ask"}, task: Tasks, n: 0 .. MaxAsks, handoff: {None}]
     \cup [kind: {"terminal"}, task: Tasks, n: Ended, handoff: Tasks \cup {None}]

Answers(kind, about) ==
  [kind: {kind}, task: about, rows: [Tasks -> Statuses \cup {"absent"}],
   ticks: SUBSET Ticks, ask: 0 .. MaxAsks]

Reads == Answers("detail", Tasks) \cup Answers("list", {None})

Calls == [op: {"create", "delete", "reply", "reply kept", "abort"}, task: Tasks]

UnderWay ==
  /\ srv \in [Tasks -> ServerRows]
  /\ online \in BOOLEAN
  /\ wire \in Seq(Frames)
  /\ reads \subseteq Reads
  /\ calls \subseteq Calls
  /\ jumps \subseteq Tasks

(* What the tab shows.                                                     *)
OnScreen ==
  /\ shown \in [Tasks -> Statuses \cup {"absent"}]
  /\ steps \in [Tasks -> Seq(Card)]
  /\ prompt \in [Tasks -> 0 .. MaxAsks]
  /\ selected \in Tasks \cup {None} /\ url \in Tasks \cup {None}

(* hydrateToken: one detail answer at most will be applied.                *)
OneDetail ==
  \A r, s \in reads : r.kind = "detail" /\ s.kind = "detail" => r = s

ViewInv ==
  /\ UnderWay
  /\ OnScreen
  /\ OneDetail
  /\ EachTickOnce
  /\ DetailIsForSelection

LEMMA ViewStarts == ViewInit => ViewInv
<1> SUFFICES ASSUME ViewInit PROVE ViewInv
  OBVIOUS
<1> USE DEF ViewInit
<1>1. UnderWay
  <2>1. srv \in [Tasks -> ServerRows]
    BY ViewAssumption DEF ServerRows, Statuses
  <2> QED BY <2>1 DEF UnderWay
<1>2. OnScreen
  BY ViewAssumption DEF OnScreen
<1>3. OneDetail /\ EachTickOnce /\ DetailIsForSelection
  BY DEF OneDetail, EachTickOnce, DetailIsForSelection
<1> QED BY <1>1, <1>2, <1>3 DEF ViewInv

(* The answers to queries are well-formed: a row that is listed has one of *)
(* the four statuses.                                                      *)
LEMMA AnswersFit ==
  ASSUME UnderWay
  PROVE  /\ List \in Answers("list", {None})
         /\ \A t \in Tasks : Detail(t) \in Answers("detail", Tasks)
<1>1. \A t \in Tasks : srv[t] \in ServerRows
  BY DEF UnderWay
<1>2. \A t \in Tasks : Listed(t) => RowStatus(t) \in Statuses
  BY <1>1 DEF Listed, RowStatus, ServerRows, Statuses
<1>3. List \in Answers("list", {None})
  BY <1>2, ViewAssumption DEF List, Answers
<1>4. ASSUME NEW t \in Tasks PROVE Detail(t) \in Answers("detail", Tasks)
  <2>1. srv[t].rows \in SUBSET Ticks /\ srv[t].asks \in 0 .. MaxAsks
    BY <1>1 DEF ServerRows
  <2>2. [u \in Tasks |-> IF u = t /\ Listed(t) THEN RowStatus(t) ELSE "absent"]
          \in [Tasks -> Statuses \cup {"absent"}]
    BY <1>2
  <2>3. (IF srv[t].status = "awaiting" THEN srv[t].asks ELSE 0) \in 0 .. MaxAsks
    BY <2>1, ViewAssumption
  <2> QED BY <2>1, <2>2, <2>3 DEF Detail, Answers
<1> QED BY <1>3, <1>4

(* Queries under way after a detail query is sent for t.                   *)
LEMMA HydrateFits ==
  ASSUME ViewInv, NEW t \in Tasks, NEW pending \in SUBSET reads, Hydrate(t, pending)
  PROVE  /\ reads' \subseteq Reads
         /\ OneDetail'
         /\ \A r \in reads' : r.kind = "detail" => r.task = t
<1>1. UnderWay
  BY DEF ViewInv
<1>2. Detail(t) \in Answers("detail", Tasks) /\ Detail(t).task = t
  BY <1>1, AnswersFit DEF Detail
<1>3. reads' = {r \in pending : r.kind # "detail"} \cup {Detail(t)}
  BY DEF Hydrate, Aborted
<1>4. reads' \subseteq Reads
  BY <1>1, <1>2, <1>3 DEF UnderWay, Reads
<1>5. \A r \in reads' : r.kind = "detail" => r = Detail(t)
  BY <1>3
<1> QED BY <1>2, <1>4, <1>5 DEF OneDetail

-----------------------------------------------------------------------------
(* The server's steps move its rows and send frames; the tab is not touched.*)
LEMMA SentFramesFit ==
  ASSUME UnderWay, NEW frames \in Seq(Frames), Send(frames)
  PROVE  wire' \in Seq(Frames)
BY DEF UnderWay, Send

LEMMA ServerStepsKeep ==
  ASSUME ViewInv, NEW t \in Tasks, ServerStep(t)
  PROVE  ViewInv'
<1> USE DEF ServerOnly, viewVars
<1>1. UnderWay /\ srv[t] \in ServerRows
  BY DEF ViewInv, UnderWay
<1>2. ASSUME srv' \in [Tasks -> ServerRows], wire' \in Seq(Frames), ServerOnly
      PROVE  ViewInv'
  <2>1. UnderWay'
    BY <1>1, <1>2 DEF UnderWay
  <2>2. OnScreen' /\ OneDetail' /\ EachTickOnce' /\ DetailIsForSelection'
    BY <1>2 DEF ViewInv, OnScreen, OneDetail, EachTickOnce, DetailIsForSelection
  <2> QED BY <2>1, <2>2 DEF ViewInv
<1>3. CASE ServerTick(t)
  <2>1. srv[t].ticks + 1 \in Ticks /\ srv[t].ticks + 1 \in 0 .. MaxTicks
    BY <1>1, <1>3, ViewAssumption DEF ServerTick, ServerRows, Ticks
  <2>2. srv' \in [Tasks -> ServerRows]
    BY <1>1, <1>3, <2>1 DEF ServerTick, UnderWay, ServerRows
  <2>3. <<Frame("start", t, srv[t].ticks + 1), Frame("end", t, srv[t].ticks + 1)>>
          \in Seq(Frames)
    BY <2>1 DEF Frame, Frames
  <2>4. wire' \in Seq(Frames)
    BY <1>1, <1>3, <2>3, SentFramesFit DEF ServerTick
  <2> QED BY <1>2, <1>3, <2>2, <2>4 DEF ServerTick
<1>4. CASE ServerAsk(t)
  <2>1. srv[t].asks + 1 \in 1 .. MaxAsks /\ srv[t].asks + 1 \in 0 .. MaxAsks
    BY <1>1, <1>4, ViewAssumption DEF ServerAsk, ServerRows
  <2>2. srv' \in [Tasks -> ServerRows]
    BY <1>1, <1>4, <2>1 DEF ServerAsk, UnderWay, ServerRows
  <2>3. <<Frame("ask", t, srv[t].asks + 1)>> \in Seq(Frames)
    BY <2>1 DEF Frame, Frames
  <2>4. wire' \in Seq(Frames)
    BY <1>1, <1>4, <2>3, SentFramesFit DEF ServerAsk
  <2> QED BY <1>2, <1>4, <2>2, <2>4 DEF ServerAsk
<1>5. CASE ServerPark(t)
  <2>1. srv' \in [Tasks -> ServerRows]
    BY <1>1, <1>5 DEF ServerPark, UnderWay, ServerRows, Statuses
  <2> QED BY <1>1, <1>2, <1>5, <2>1 DEF ServerPark, UnderWay
<1>6. ASSUME NEW outcome \in Ended, ServerEnd(t, outcome) PROVE ViewInv'
  <2>1. srv' \in [Tasks -> ServerRows]
    BY <1>1, <1>6 DEF ServerEnd, UnderWay, ServerRows, Statuses
  <2>2. <<Frame("terminal", t, outcome)>> \in Seq(Frames)
    BY DEF Frame, Frames
  <2>3. wire' \in Seq(Frames)
    BY <1>1, <1>6, <2>2, SentFramesFit DEF ServerEnd
  <2> QED BY <1>2, <1>6, <2>1, <2>3 DEF ServerEnd
<1>7. ASSUME NEW n \in Ticks, ServerRow(t, n) PROVE ViewInv'
  <2>1. srv' \in [Tasks -> ServerRows]
    BY <1>1, <1>7 DEF ServerRow, UnderWay, ServerRows
  <2> QED BY <1>1, <1>2, <1>7, <2>1 DEF ServerRow, UnderWay
<1> QED BY <1>3, <1>4, <1>5, <1>6, <1>7 DEF ServerStep

-----------------------------------------------------------------------------
(* The tab's side.                                                         *)

(* Cards that are replaced by a list with one card per tick.               *)
LEMMA CardsReplaced ==
  ASSUME OnScreen, EachTickOnce, NEW t \in Tasks, NEW cards \in Seq(Card),
         OneCardPerTick(cards), steps' = [steps EXCEPT ![t] = cards]
  PROVE  steps' \in [Tasks -> Seq(Card)] /\ EachTickOnce'
<1>1. steps' \in [Tasks -> Seq(Card)]
  BY DEF OnScreen
<1>2. ASSUME NEW u \in Tasks PROVE OneCardPerTick(steps'[u])
  <2>1. CASE u = t
    BY <2>1 DEF OnScreen
  <2>2. CASE u # t
    BY <2>2 DEF OnScreen, EachTickOnce, OneCardPerTick
  <2> QED BY <2>1, <2>2
<1> QED BY <1>1, <1>2 DEF EachTickOnce, OneCardPerTick

(* The cards after an iteration's two frames.                              *)
LEMMA StartedCards ==
  ASSUME OnScreen, EachTickOnce, NEW t \in Tasks, NEW n \in Ticks
  PROVE  WithStart(t, n) \in Seq(Card) /\ OneCardPerTick(WithStart(t, n))
<1>1. steps[t] \in Seq(Card) /\ OneCardPerTick(steps[t])
  BY DEF OnScreen, EachTickOnce, OneCardPerTick
<1>2. CASE Has(t, n)
  BY <1>1, <1>2 DEF WithStart
<1>3. CASE ~Has(t, n)
  <2> DEFINE c == [tick |-> n, status |-> "running"]
  <2>1. c \in Card
    BY DEF Card
  <2>2. WithStart(t, n) = Append(steps[t], c)
    BY <1>3 DEF WithStart
  <2>3. \A i \in DOMAIN steps[t] : steps[t][i].tick # c.tick
    BY <1>3 DEF Has
  <2> HIDE DEF c
  <2>4. Append(steps[t], c) \in Seq(Card)
    BY <1>1, <2>1
  <2>5. OneCardPerTick(Append(steps[t], c))
    BY <1>1, <2>1, <2>3 DEF OneCardPerTick
  <2> QED BY <2>2, <2>4, <2>5
<1> QED BY <1>2, <1>3

LEMMA EndedCards ==
  ASSUME OnScreen, EachTickOnce, NEW t \in Tasks, NEW n \in Ticks
  PROVE  WithEnd(t, n) \in Seq(Card) /\ OneCardPerTick(WithEnd(t, n))
<1>1. steps[t] \in Seq(Card) /\ OneCardPerTick(steps[t])
  BY DEF OnScreen, EachTickOnce, OneCardPerTick
<1>2. Done(n) \in Card /\ Done(n).tick = n
  BY DEF Card, Done
<1>3. CASE Has(t, n)
  <2> DEFINE all == [i \in DOMAIN steps[t] |->
                      IF steps[t][i].tick = n THEN Done(n) ELSE steps[t][i]]
  <2>1. WithEnd(t, n) = InTickOrder(all)
    BY <1>3 DEF WithEnd
  <2>2. \A i \in DOMAIN steps[t] : steps[t][i] \in Card
    BY <1>1
  <2>3. all \in Seq(Card)
    <3>1. DOMAIN steps[t] = 1 .. Len(steps[t]) /\ Len(steps[t]) \in Nat
      BY <1>1
    <3> QED BY <1>2, <2>2, <3>1
  <2>4. \A i \in DOMAIN steps[t] : all[i].tick = steps[t][i].tick
    BY <1>2
  <2>5. OneCardPerTick(all)
    BY <1>1, <2>4 DEF OneCardPerTick
  <2> QED BY <2>1, <2>3, <2>5, SortedCards
<1>4. CASE ~Has(t, n)
  <2>1. WithEnd(t, n) = InTickOrder(Append(steps[t], Done(n)))
    BY <1>4 DEF WithEnd
  <2>2. \A i \in DOMAIN steps[t] : steps[t][i].tick # n
    BY <1>4 DEF Has
  <2>3. Append(steps[t], Done(n)) \in Seq(Card)
    BY <1>1, <1>2
  <2>4. OneCardPerTick(Append(steps[t], Done(n)))
    BY <1>1, <1>2, <2>2 DEF OneCardPerTick
  <2> QED BY <2>1, <2>3, <2>4, SortedCards
<1> QED BY <1>3, <1>4

LEMMA ReceiveKeeps == ASSUME ViewInv, Receive PROVE ViewInv'
<1> DEFINE f == Head(wire)
<1>1. UnderWay /\ OnScreen /\ EachTickOnce
  BY DEF ViewInv
<1>2. f \in Frames /\ Tail(wire) \in Seq(Frames)
  BY <1>1 DEF Receive, UnderWay
<1>4. f.task \in Tasks /\ f.handoff \in Tasks \cup {None}
  BY <1>2 DEF Frames
<1>3. UnderWay'
  <2>1. jumps' = jumps \cup ({f.handoff} \ {None})
    BY DEF Receive
  <2> HIDE DEF f
  <2>2. jumps' \subseteq Tasks
    BY <1>1, <1>4, <2>1 DEF UnderWay
  <2> QED BY <1>1, <1>2, <2>2 DEF Receive, UnderWay
<1>5. steps' \in [Tasks -> Seq(Card)] /\ EachTickOnce'
  <2>1. CASE f.kind = "start"
    <3>1. f.n \in Ticks
      BY <1>2, <2>1 DEF Frames
    <3>2. steps' = [steps EXCEPT ![f.task] = WithStart(f.task, f.n)]
      BY <2>1 DEF Receive
    <3> HIDE DEF f
    <3> QED BY <1>1, <1>4, <3>1, <3>2, StartedCards, CardsReplaced
  <2>2. CASE f.kind = "end"
    <3>1. f.n \in Ticks
      BY <1>2, <2>2 DEF Frames
    <3>2. steps' = [steps EXCEPT ![f.task] = WithEnd(f.task, f.n)]
      BY <2>2 DEF Receive
    <3> HIDE DEF f
    <3> QED BY <1>1, <1>4, <3>1, <3>2, EndedCards, CardsReplaced
  <2>3. CASE f.kind \notin {"start", "end"}
    <3>1. steps' = steps
      BY <2>3 DEF Receive
    <3> QED BY <1>1, <3>1 DEF OnScreen, EachTickOnce
  <2> QED BY <2>1, <2>2, <2>3
<1>6. prompt' \in [Tasks -> 0 .. MaxAsks]
  <2>1. f.kind = "ask" => f.n \in 0 .. MaxAsks
    BY <1>2, ViewAssumption DEF Frames
  <2>2. prompt' = IF f.kind = "ask" THEN [prompt EXCEPT ![f.task] = f.n] ELSE prompt
    BY DEF Receive
  <2> QED BY <1>1, <2>1, <2>2 DEF OnScreen
<1>7. shown' \in [Tasks -> Statuses \cup {"absent"}]
  <2>1. f.kind = "terminal" => f.n \in Statuses
    BY <1>2 DEF Frames, Statuses
  <2>2. \/ f.kind = "terminal" /\ shown' = [shown EXCEPT ![f.task] = f.n]
        \/ shown' = shown
    BY DEF Receive
  <2> QED BY <1>1, <2>1, <2>2 DEF OnScreen
<1>8. OnScreen'
  BY <1>1, <1>5, <1>6, <1>7 DEF Receive, OnScreen
<1>9. OneDetail' /\ DetailIsForSelection'
  BY DEF Receive, ViewInv, OneDetail, DetailIsForSelection
<1> QED BY <1>3, <1>5, <1>8, <1>9 DEF ViewInv

(* The answers to queries.                                                 *)
LEMMA AnswersKeep ==
  ASSUME ViewInv, NEW r \in reads, DetailAnswered(r) \/ ListAnswered(r) \/ ReadFails(r)
  PROVE  ViewInv'
<1>1. UnderWay /\ OnScreen /\ EachTickOnce
  BY DEF ViewInv
<1>2. r \in Reads
  BY <1>1 DEF UnderWay
<1>3. ASSUME reads' \subseteq reads, UNCHANGED <<selected, stray>>
      PROVE  OneDetail' /\ DetailIsForSelection'
  BY <1>3 DEF ViewInv, OneDetail, DetailIsForSelection
<1>4. CASE DetailAnswered(r)
  <2>1. r \in Answers("detail", Tasks)
    BY <1>2, <1>4 DEF DetailAnswered, Reads, Answers
  <2>2. /\ r.task \in Tasks /\ r.ticks \in SUBSET Ticks /\ r.ask \in 0 .. MaxAsks
        /\ r.rows[r.task] \in Statuses \cup {"absent"}
    BY <2>1 DEF Answers
  <2>3. steps' \in [Tasks -> Seq(Card)] /\ EachTickOnce'
    <3>1. CASE r.rows[r.task] # "absent"
      <4>1. steps' = [steps EXCEPT ![r.task] = Hydrated(r.ticks)]
        BY <1>4, <3>1 DEF DetailAnswered
      <4> QED BY <1>1, <2>2, <4>1, HydratedCards, CardsReplaced
    <3>2. CASE r.rows[r.task] = "absent"
      BY <1>1, <1>4, <3>2 DEF DetailAnswered, OnScreen, EachTickOnce
    <3> QED BY <3>1, <3>2
  <2>4. /\ shown' \in [Tasks -> Statuses \cup {"absent"}]
        /\ prompt' \in [Tasks -> 0 .. MaxAsks]
    BY <1>1, <1>4, <2>2 DEF DetailAnswered, HydratedPrompt, OnScreen
  <2>5. OnScreen'
    BY <1>1, <1>4, <2>3, <2>4 DEF DetailAnswered, OnScreen
  <2>6. UnderWay'
    BY <1>1, <1>4 DEF DetailAnswered, UnderWay
  <2>7. OneDetail' /\ DetailIsForSelection'
    BY <1>3, <1>4 DEF DetailAnswered
  <2> QED BY <2>3, <2>5, <2>6, <2>7 DEF ViewInv
<1>5. CASE ListAnswered(r)
  <2>1. r.rows \in [Tasks -> Statuses \cup {"absent"}]
    BY <1>2 DEF Reads, Answers
  <2>2. shown' \in [Tasks -> Statuses \cup {"absent"}]
    BY <1>1, <1>5, <2>1 DEF ListAnswered, OnScreen
  <2>3. OnScreen' /\ EachTickOnce'
    BY <1>1, <1>5, <2>2 DEF ListAnswered, OnScreen, EachTickOnce
  <2>4. reads' \subseteq Reads /\ OneDetail' /\ DetailIsForSelection'
    <3>1. CASE selected # None
      <4>1. selected \in Tasks /\ selected' = selected
        BY <1>1, <1>5, <3>1 DEF OnScreen, ListAnswered
      <4>2. Hydrate(selected, reads \ {r})
        BY <1>5, <3>1 DEF ListAnswered
      <4> QED BY <4>1, <4>2, HydrateFits DEF DetailIsForSelection
    <3>2. CASE selected = None
      BY <1>1, <1>3, <1>5, <3>2 DEF ListAnswered, UnderWay
    <3> QED BY <3>1, <3>2
  <2>5. UnderWay'
    BY <1>1, <1>5, <2>4 DEF ListAnswered, UnderWay
  <2> QED BY <2>3, <2>4, <2>5 DEF ViewInv
<1>6. CASE ReadFails(r)
  <2>1. UnderWay' /\ OnScreen' /\ EachTickOnce'
    BY <1>1, <1>6 DEF ReadFails, viewVars, UnderWay, OnScreen, EachTickOnce
  <2>2. OneDetail' /\ DetailIsForSelection'
    BY <1>3, <1>6 DEF ReadFails, viewVars
  <2> QED BY <2>1, <2>2 DEF ViewInv
<1> QED BY <1>4, <1>5, <1>6

(* A step that leaves the cards, the queries and the selection alone.      *)
LEMMA QuietSteps ==
  ASSUME ViewInv, UnderWay', OnScreen', UNCHANGED <<steps, selected, stray>>,
         reads' \subseteq reads
  PROVE  ViewInv'
BY DEF ViewInv, OneDetail, EachTickOnce, DetailIsForSelection

(* The user turns to another task, or to none.                             *)
LEMMA NavigationKeeps ==
  ASSUME ViewInv,
         \/ \E t \in Tasks : Select(t) \/ FollowHandoff(t)
         \/ EnterNewTaskMode \/ FollowUrl \/ Reload
  PROVE  ViewInv'
<1>1. UnderWay /\ OnScreen /\ EachTickOnce
  BY DEF ViewInv
<1>2. ASSUME NEW t \in Tasks, Select(t) \/ FollowHandoff(t) PROVE ViewInv'
  <2>1. reads' \subseteq Reads /\ OneDetail' /\ DetailIsForSelection'
    BY <1>2, HydrateFits DEF Select, FollowHandoff, DetailIsForSelection
  <2>2. UnderWay'
    BY <1>1, <1>2, <2>1 DEF Select, FollowHandoff, UnderWay
  <2>3. OnScreen' /\ EachTickOnce'
    BY <1>1, <1>2 DEF Select, FollowHandoff, OnScreen, EachTickOnce
  <2> QED BY <2>1, <2>2, <2>3 DEF ViewInv
<1>3. CASE FollowUrl
  <2>1. url \in Tasks
    BY <1>1, <1>3 DEF FollowUrl, OnScreen
  <2>2. reads' \subseteq Reads /\ OneDetail' /\ DetailIsForSelection'
    BY <1>3, <2>1, HydrateFits DEF FollowUrl, DetailIsForSelection
  <2>3. UnderWay'
    BY <1>1, <1>3, <2>2 DEF FollowUrl, UnderWay
  <2>4. OnScreen' /\ EachTickOnce'
    BY <1>1, <1>3, <2>1 DEF FollowUrl, OnScreen, EachTickOnce
  <2> QED BY <2>2, <2>3, <2>4 DEF ViewInv
<1>4. CASE EnterNewTaskMode
  <2>1. \A r \in reads' : r \in reads /\ r.kind # "detail"
    BY <1>4 DEF EnterNewTaskMode, Aborted
  <2>2. UnderWay' /\ OneDetail' /\ DetailIsForSelection'
    BY <1>1, <1>4, <2>1 DEF EnterNewTaskMode, UnderWay, OneDetail, DetailIsForSelection
  <2>3. OnScreen' /\ EachTickOnce'
    BY <1>1, <1>4 DEF EnterNewTaskMode, OnScreen, EachTickOnce
  <2> QED BY <2>2, <2>3 DEF ViewInv
<1>5. CASE Reload
  <2>1. List \in Reads /\ List.kind # "detail"
    BY <1>1, AnswersFit DEF Reads, List
  <2>2. \A t \in Tasks : Detail(t) \in Reads /\ Detail(t).task = t
    BY <1>1, AnswersFit DEF Reads, Detail
  <2>3. \A r \in reads' : r = List \/ (url \in Tasks /\ r = Detail(url))
    BY <1>1, <1>5 DEF Reload, OnScreen
  <2>4. reads' \subseteq Reads
    BY <2>1, <2>2, <2>3
  <2>5. UnderWay'
    BY <1>1, <1>5, <2>4 DEF Reload, UnderWay
  <2>6. OneDetail' /\ DetailIsForSelection'
    BY <1>5, <2>1, <2>2, <2>3 DEF Reload, OneDetail, DetailIsForSelection
  <2>7. OnScreen' /\ EachTickOnce'
    BY <1>1, <1>5, ViewAssumption DEF Reload, OnScreen, EachTickOnce
  <2> QED BY <2>5, <2>6, <2>7 DEF ViewInv
<1> QED BY <1>2, <1>3, <1>4, <1>5

(* The user's mutations, as the server takes them.                         *)
LEMMA CallsKeep ==
  ASSUME ViewInv, NEW t \in Tasks,
         \/ CallCreate(t) \/ CallDelete(t) \/ CallReply(t) \/ CallAbort(t)
         \/ CallReplyKeeps(t) \/ \E child \in Tasks : CallReplyHandsOff(t, child)
  PROVE  ViewInv'
<1>1. UnderWay /\ OnScreen /\ srv[t] \in ServerRows
  BY DEF ViewInv, UnderWay
(* It is enough that the rows and the frames under way are well-formed.    *)
<1>2. ASSUME srv' \in [Tasks -> ServerRows], wire' \in Seq(Frames),
             NEW op \in {"create", "delete", "reply", "reply kept", "abort"}, Call(op, t)
      PROVE  ViewInv'
  <2>3. [op |-> op, task |-> t] \in Calls
    BY DEF Calls
  <2>1. UnderWay'
    BY <1>1, <1>2, <2>3 DEF Call, UnderWay
  <2>2. OnScreen' /\ UNCHANGED <<steps, selected, stray, reads>>
    BY <1>1, <1>2 DEF Call, viewVars, OnScreen
  <2> QED BY <2>1, <2>2, QuietSteps
<1>3. CASE CallCreate(t)
  <2>1. [srv[t] EXCEPT !.status = "executing"] \in ServerRows
    BY <1>1 DEF ServerRows, Statuses
  <2> QED BY <1>1, <1>2, <1>3, <2>1 DEF CallCreate, UnderWay
<1>4. CASE CallDelete(t)
  <2>1. [srv[t] EXCEPT !.status = "deleted", !.rows = {}] \in ServerRows
    BY <1>1 DEF ServerRows
  <2> QED BY <1>1, <1>2, <1>4, <2>1 DEF CallDelete, UnderWay
<1>5. CASE CallReply(t)
  <2>1. [srv[t] EXCEPT !.status = "executing"] \in ServerRows
    BY <1>1 DEF ServerRows, Statuses
  <2> QED BY <1>1, <1>2, <1>5, <2>1 DEF CallReply, UnderWay
<1>6. CASE CallAbort(t)
  <2>1. [srv[t] EXCEPT !.stop = TRUE] \in ServerRows
    BY <1>1 DEF ServerRows
  <2> QED BY <1>1, <1>2, <1>6, <2>1 DEF CallAbort, UnderWay
<1>7. CASE CallReplyKeeps(t)
  <2>1. <<>> \in Seq(Frames) /\ <<Frame("ask", t, srv[t].asks)>> \in Seq(Frames)
    BY <1>1 DEF Frame, Frames, ServerRows
  <2>2. wire' \in Seq(Frames)
    BY <1>1, <1>7, <2>1, SentFramesFit DEF CallReplyKeeps
  <2> QED BY <1>1, <1>2, <1>7, <2>2 DEF CallReplyKeeps, UnderWay
<1>8. ASSUME NEW child \in Tasks, CallReplyHandsOff(t, child) PROVE ViewInv'
  <2> DEFINE mid == [srv EXCEPT ![t].status = "done"]
  <2>1. mid \in [Tasks -> ServerRows]
    BY <1>1 DEF UnderWay, ServerRows, Statuses, Ended
  <2>2. srv' = [mid EXCEPT ![child].status = "executing"]
    BY <1>8 DEF CallReplyHandsOff
  <2>3. srv' \in [Tasks -> ServerRows]
    <3> HIDE DEF mid
    <3>1. [mid[child] EXCEPT !.status = "executing"] \in ServerRows
      BY <2>1 DEF ServerRows, Statuses
    <3> QED BY <2>1, <2>2, <3>1
  <2>4. <<[Frame("terminal", t, "done") EXCEPT !.handoff = child]>> \in Seq(Frames)
    BY DEF Frame, Frames, Ended
  <2>5. wire' \in Seq(Frames)
    BY <1>1, <1>8, <2>4, SentFramesFit DEF CallReplyHandsOff
  <2> QED BY <1>2, <1>8, <2>3, <2>5 DEF CallReplyHandsOff
<1> QED BY <1>3, <1>4, <1>5, <1>6, <1>7, <1>8

(* The answers to them.                                                    *)
LEMMA CallAnswersKeep ==
  ASSUME ViewInv, NEW k \in calls, Answered(k)
  PROVE  ViewInv'
<1>1. UnderWay /\ OnScreen /\ EachTickOnce
  BY DEF ViewInv
<1>2. k \in Calls /\ k.task \in Tasks
  BY <1>1 DEF UnderWay, Calls
<1>3. CASE CreateAnswered(k)
  <2>1. List \in Reads /\ List.kind # "detail"
    BY <1>1, AnswersFit DEF Reads, List
  <2>2. UnderWay' /\ OneDetail' /\ DetailIsForSelection'
    BY <1>1, <1>3, <2>1
    DEF CreateAnswered, UnderWay, ViewInv, OneDetail, DetailIsForSelection
  <2>3. OnScreen' /\ EachTickOnce'
    BY <1>1, <1>2, <1>3 DEF CreateAnswered, OnScreen, EachTickOnce, Statuses
  <2> QED BY <2>2, <2>3 DEF ViewInv
<1>4. CASE DeleteAnswered(k)
  <2>1. UnderWay' /\ OneDetail' /\ DetailIsForSelection'
    BY <1>1, <1>4
    DEF DeleteAnswered, UnderWay, ViewInv, OneDetail, DetailIsForSelection
  <2>2. steps' \in [Tasks -> Seq(Card)] /\ EachTickOnce'
    <3>1. <<>> \in Seq(Card) /\ OneCardPerTick(<<>>)
      BY DEF OneCardPerTick
    <3>2. steps' = [steps EXCEPT ![k.task] = <<>>]
      BY <1>4 DEF DeleteAnswered
    <3> QED BY <1>1, <1>2, <3>1, <3>2, CardsReplaced
  <2>3. OnScreen'
    BY <1>1, <1>2, <1>4, <2>2 DEF DeleteAnswered, OnScreen
  <2> QED BY <2>1, <2>2, <2>3 DEF ViewInv
<1>5. CASE ReplyAnswered(k)
  <2>2. prompt' \in [Tasks -> 0 .. MaxAsks]
    <3>1. 0 \in 0 .. MaxAsks
      BY ViewAssumption
    <3>2. prompt' = prompt \/ prompt' = [prompt EXCEPT ![k.task] = 0]
      BY <1>5 DEF ReplyAnswered
    <3> QED BY <1>1, <3>1, <3>2 DEF OnScreen
  <2>1. UnderWay' /\ OnScreen'
    BY <1>1, <1>5, <2>2 DEF ReplyAnswered, UnderWay, OnScreen
  <2> QED BY <1>5, <2>1, QuietSteps DEF ReplyAnswered
<1>6. CASE AbortAnswered(k)
  <2>1. UnderWay' /\ OnScreen'
    BY <1>1, <1>2, <1>6 DEF AbortAnswered, UnderWay, OnScreen, Statuses, Ended
  <2> QED BY <1>6, <2>1, QuietSteps DEF AbortAnswered
<1> QED BY <1>3, <1>4, <1>5, <1>6 DEF Answered

LEMMA SocketKeeps ==
  ASSUME ViewInv, Drop \/ Reconnect
  PROVE  ViewInv'
<1> USE DEF ViewInv, viewVars, UnderWay, OnScreen
<1>1. UnderWay' /\ OnScreen'
  <2>1. CASE Drop
    <3>1. <<>> \in Seq(Frames)
      OBVIOUS
    <3> QED BY <2>1, <3>1 DEF Drop
  <2>2. CASE Reconnect
    BY <2>2 DEF Reconnect
  <2> QED BY <2>1, <2>2
<1>2. UNCHANGED <<steps, selected, stray, reads>>
  BY DEF Drop, Reconnect, viewVars
<1> QED BY <1>1, <1>2, QuietSteps

LEMMA ViewStepKeeps == ViewInv /\ [ViewNext]_allVars => ViewInv'
<1> SUFFICES ASSUME ViewInv, [ViewNext]_allVars PROVE ViewInv'
  OBVIOUS
<1>1. CASE UNCHANGED allVars
  <2>1. UnderWay' /\ OnScreen'
    BY <1>1 DEF ViewInv, allVars, viewVars, UnderWay, OnScreen
  <2> QED BY <1>1, <2>1, QuietSteps DEF allVars, viewVars
<1>2. CASE ViewNext
  BY <1>2, ServerStepsKeep, NavigationKeeps, CallsKeep, AnswersKeep,
     CallAnswersKeep, ReceiveKeeps, SocketKeeps DEF ViewNext
<1> QED BY <1>1, <1>2

(* The tab's inductive invariant, for any number of tasks, iterations,     *)
(* questions, lost connections and reloads: what is under way between the  *)
(* tab and the server is well-formed, at most one detail answer will be    *)
(* applied, and the two properties below hold.                             *)
THEOREM ViewInvariant == ViewSpec => []ViewInv
<1>1. ViewInit => ViewInv
  BY ViewStarts
<1>2. ViewInv /\ [ViewNext]_allVars => ViewInv'
  BY ViewStepKeeps
<1> QED BY <1>1, <1>2, PTL DEF ViewSpec

(* Type correctness of the tab and of what it can see of the server.       *)
THEOREM ViewTypeCorrect == ViewSpec => []ViewTypeOK
<1>1. ViewInv => ViewTypeOK
  <2> SUFFICES ASSUME ViewInv PROVE ViewTypeOK
    OBVIOUS
  <2> DEFINE D == {r \in reads : r.kind = "detail"}
  <2>1. Cardinality(D) <= 1
    <3>1. D = {} \/ \E r \in D : D = {r}
      BY DEF ViewInv, OneDetail
    <3> HIDE DEF D
    <3>2. Cardinality(D) = 0 \/ Cardinality(D) = 1
      BY <3>1, FS_EmptySet, FS_Singleton
    <3> QED BY <3>2
  <2>2. \A r \in reads : r.kind \in {"list", "detail"}
    BY DEF ViewInv, UnderWay, Reads, Answers
  <2> QED BY <2>1, <2>2 DEF ViewInv, UnderWay, OnScreen, ServerRows, ViewTypeOK
<1> QED BY <1>1, ViewInvariant, PTL

(* No iteration ever has two step cards: a start that is replayed, an end  *)
(* whose start was lost and a late answer of tasks.detail all leave one    *)
(* (EachTickOnce).                                                         *)
THEOREM TicksAreShownOnce == ViewSpec => []EachTickOnce
<1>1. ViewInv => EachTickOnce
  BY DEF ViewInv
<1> QED BY <1>1, ViewInvariant, PTL

(* A detail answer that will be applied is for the selected task, unless   *)
(* createTask or deleteTask moved the selection since it was asked for     *)
(* (DetailIsForSelection).                                                 *)
THEOREM AnswersAreForSelection == ViewSpec => []DetailIsForSelection
<1>1. ViewInv => DetailIsForSelection
  BY DEF ViewInv
<1> QED BY <1>1, ViewInvariant, PTL
=============================================================================
