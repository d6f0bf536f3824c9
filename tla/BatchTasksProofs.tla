-------------------------- MODULE BatchTasksProofs --------------------------
(* Theorems about BatchTasks, for any batch and any number of failures.    *)
EXTENDS BatchTasks, FiniteSetTheorems, WellFoundedInduction, TLAPS

Ats == {"claim", "announce", "dispatch", "fail", "poll"}

(* Calls of runItem are numbered within their item.                        *)
RunsOK ==
  /\ \A r \in runs : r.call \in 1 .. calls[r.item]
  /\ \A r, s \in runs : r.item = s.item /\ r.call = s.call => r = s

(* An item has one call past its claim, and no task before that call       *)
(* dispatched one.                                                         *)
OwnerOK ==
  /\ \A r, s \in runs :
       r.at # "claim" /\ s.at # "claim" /\ r.item = s.item => r = s
  /\ \A r \in runs : r.at # "claim" => itemRow[r.item] # "pending"
  /\ \A r \in runs : r.at \in {"announce", "dispatch"} => tasks[r.item] = 0
  /\ \A i \in Items : itemRow[i] = "pending" => tasks[i] = 0
  /\ ItemRunsOnce

MapOK == Cardinality(InMap) <= Concurrency

(* Without failures and repeated calls, the map knows every call and every *)
(* running item until a restart, and nothing runs after one.               *)
QuietOK ==
  /\ batch = "none" => exec = "off"
  /\ exec = "write" => tally.status # "none"
  /\ Undisturbed =>
       /\ exec = "crashed" => runs = {}
       /\ exec # "crashed" =>
            \A i \in Running : \E r \in runs : r.item = i /\ r.at # "claim"
       /\ \A r \in runs : r.item \in InMap
       /\ Cardinality(Running) <= Concurrency

BatchInv == BatchTypeOK /\ RunsOK /\ OwnerOK /\ MapOK /\ QuietOK

-----------------------------------------------------------------------------
(* Operators.                                                              *)

LEMMA MovedRun ==
  ASSUME BatchTypeOK, NEW r \in runs, NEW to \in Ats
  PROVE  /\ [r EXCEPT !.at = to].item = r.item
         /\ [r EXCEPT !.at = to].call = r.call
         /\ [r EXCEPT !.at = to].at = to
         /\ [r EXCEPT !.at = to] \in [item: Items, call: Nat, at: Ats]
         /\ r.item \in Items /\ r.call \in Nat /\ r.at \in Ats
         /\ r = [item |-> r.item, call |-> r.call, at |-> r.at]
<1>1. r \in [item: Items, call: Nat, at: Ats]
  BY DEF BatchTypeOK, Ats
<1> QED BY <1>1

(* A set of naturals cut after its k smallest members has at most k.       *)
LEMMA SmallestAreFew ==
  ASSUME NEW S \in SUBSET Nat, IsFiniteSet(S), NEW k \in Nat
  PROVE  LET T == {i \in S : Cardinality({j \in S : j < i}) < k}
         IN  IsFiniteSet(T) /\ Cardinality(T) <= k
<1> DEFINE T == {i \in S : Cardinality({j \in S : j < i}) < k}
           Rank == [i \in T |-> Cardinality({j \in S : j < i})]
<1>1. IsFiniteSet(T) BY FS_Subset
<1>2. ASSUME NEW i \in S
      PROVE  /\ IsFiniteSet({j \in S : j < i})
             /\ Cardinality({j \in S : j < i}) \in Nat
  <2>1. IsFiniteSet({j \in S : j < i}) BY FS_Subset
  <2> QED BY <2>1, FS_CardinalityType
<1>3. ASSUME NEW i \in S, NEW j \in S, i < j
      PROVE  Cardinality({h \in S : h < i}) # Cardinality({h \in S : h < j})
  <2> DEFINE A == {h \in S : h < i}
             B == {h \in S : h < j}
  <2>a. i \in Int /\ j \in Int /\ \A h \in S : h \in Int
     OBVIOUS
  <2>b. \A h \in S : h < i => h < j
    BY <2>a, <1>3
  <2>1. A \in SUBSET B BY <2>b
  <2>2. i \in B /\ i \notin A BY <1>3
  <2>3. IsFiniteSet(B) BY <1>2
  <2> HIDE DEF A, B
  <2>4. Cardinality(A) # Cardinality(B)
    BY <2>1, <2>2, <2>3, FS_Subset
  <2> QED BY <2>4 DEF A, B
<1>4. Rank \in [T -> 0 .. (k - 1)]
  <2>1. ASSUME NEW i \in T PROVE Cardinality({j \in S : j < i}) \in 0 .. (k - 1)
    BY <1>2
  <2> QED BY <2>1
<1>5. ASSUME NEW i \in T, NEW j \in T, Rank[i] = Rank[j] PROVE i = j
  BY <1>3, <1>5
<1>6. Rank \in Injection(T, 0 .. (k - 1))
  <2> HIDE DEF Rank, T
  <2> QED BY <1>4, <1>5 DEF Injection, IsInjective
<1>7. IsFiniteSet(0 .. (k - 1)) /\ Cardinality(0 .. (k - 1)) = k
  BY FS_Interval
<1>8. Cardinality(T) <= k
  <2> HIDE DEF Rank, T
  <2> QED BY <1>6, <1>7, FS_Injection
<1> QED BY <1>1, <1>8

-----------------------------------------------------------------------------
(* Types.                                                                  *)

LEMMA FailedAreItems ==
  ASSUME NEW P \in SUBSET Items
  PROVE  Cardinality(P) \in 0 .. Cardinality(Items)
<1>1. IsFiniteSet(P) /\ Cardinality(P) <= Cardinality(Items)
  BY FS_Subset, BatchAssumption
<1> QED BY <1>1, FS_CardinalityType, BatchAssumption

LEMMA ExecTypes ==
  ASSUME BatchInv,
         \/ Create \/ Cancel \/ Start \/ Check \/ Drained \/ Count \/ Look
         \/ Finalize \/ ExecFails \/ Crash
         \/ \E i \in Items, how \in {"completed", "failed"} : TaskEnds(i, how)
  PROVE  BatchTypeOK'
<1> USE DEF BatchInv, BatchTypeOK
<1>1. CASE Create \/ Cancel
  BY <1>1 DEF Create, Cancel, execVars, Statuses
<1>2. CASE Start \/ Drained \/ Look \/ ExecFails
  BY <1>2, BatchAssumption DEF Start, Drained, Look, ExecFails, Statuses
<1>3. CASE Check
  BY <1>3 DEF Check, AfterCancel
<1>4. CASE Count
  <2>1. Cardinality({i \in Items : itemRow[i] \in {"failed", "cancelled"}})
          \in 0 .. Cardinality(Items)
    BY FailedAreItems
  <2> QED BY <1>4, <2>1 DEF Count
<1>5. CASE Finalize
  <2>1. Cardinality({}) = 0 /\ 0 \in 0 .. Cardinality(Items)
    BY FailedAreItems, FS_EmptySet
  <2>2. FinalStatus(tally) \in Statuses
    BY DEF FinalStatus, Statuses
  <2> QED BY <1>5, <2>1, <2>2 DEF Finalize, NoTally, Statuses
<1>6. CASE Crash
  <2>1. Cardinality({}) = 0 /\ 0 \in 0 .. Cardinality(Items)
    BY FailedAreItems, FS_EmptySet
  <2> QED BY <1>6, <2>1 DEF Crash, NoTally, Statuses
<1>7. ASSUME NEW i \in Items, NEW how \in {"completed", "failed"}, TaskEnds(i, how)
      PROVE  BatchTypeOK'
  BY <1>7 DEF TaskEnds, execVars
<1> QED BY <1>1, <1>2, <1>3, <1>4, <1>5, <1>6, <1>7

LEMMA PullTypes ==
  ASSUME BatchInv, Pull
  PROVE  BatchTypeOK'
<1> DEFINE pulled == FirstPending(Concurrency - Cardinality(InMap))
           called == [i \in Items |-> calls[i] + IF i \in pulled THEN 1 ELSE 0]
           map    == [i \in Items |->
                       IF i \in pulled THEN called[i] ELSE inFlight[i]]
<1>1. pulled \in SUBSET Items
  BY DEF FirstPending
<1>2. calls' = called /\ inFlight' = map
  BY DEF Pull
<1>3. runs' = runs \cup {[item |-> i, call |-> called[i], at |-> "claim"] : i \in pulled}
  BY DEF Pull
<1> HIDE DEF pulled
<1>4. called \in [Items -> Nat] /\ \A i \in Items : calls[i] <= called[i]
  BY <1>1 DEF BatchInv, BatchTypeOK
<1> HIDE DEF called
<1>5. map \in [Items -> Nat] /\ \A i \in Items : map[i] <= called[i]
  BY <1>4 DEF BatchInv, BatchTypeOK
<1> HIDE DEF map
<1>6. exec' \in {"count", "race"}
  BY DEF Pull
<1>7. runs' \subseteq [item: Items, call: Nat, at: Ats]
  BY <1>1, <1>3, <1>4 DEF BatchInv, BatchTypeOK, Ats
<1>8. \A i \in Items : inFlight'[i] <= calls'[i] /\ tasks'[i] <= calls'[i]
  BY <1>2, <1>4, <1>5 DEF Pull, BatchInv, BatchTypeOK
<1> QED BY <1>2, <1>4, <1>5, <1>6, <1>7, <1>8 DEF Pull, BatchInv, BatchTypeOK, Ats

(* What a step of a call does to the types: either it goes on or it ends.  *)
LEMMA GoesTypes ==
  ASSUME BatchInv, NEW r \in runs, NEW to \in Ats, Goes(r, to)
  PROVE  /\ runs' \subseteq [item: Items, call: Nat, at: Ats]
         /\ UNCHANGED <<exec, inFlight, tally>>
<1>1. BatchTypeOK
  BY DEF BatchInv
<1>2. [r EXCEPT !.at = to] \in [item: Items, call: Nat, at: Ats]
  BY <1>1, MovedRun
<1>3. runs \subseteq [item: Items, call: Nat, at: Ats]
  BY <1>1 DEF BatchTypeOK, Ats
<1>4. runs' = (runs \ {r}) \cup {[r EXCEPT !.at = to]}
  BY DEF Goes
<1>5. runs' \subseteq [item: Items, call: Nat, at: Ats]
  BY <1>2, <1>3, <1>4
<1> QED BY <1>5 DEF Goes, execVars

LEMMA SettleTypes ==
  ASSUME BatchInv, NEW r \in runs, NEW rejected \in BOOLEAN, Settle(r, rejected)
  PROVE  /\ runs' \subseteq [item: Items, call: Nat, at: Ats]
         /\ UNCHANGED tally
         /\ exec' \in {exec, "crashed", "check"}
         /\ inFlight' \in [Items -> Nat]
         /\ \A i \in Items : inFlight'[i] <= calls[i]
<1>1. BatchTypeOK
  BY DEF BatchInv
<1>2. r.item \in Items
  BY <1>1, MovedRun DEF Ats
<1>3. runs' \subseteq [item: Items, call: Nat, at: Ats] /\ UNCHANGED tally
  BY <1>1 DEF Settle, BatchTypeOK, Ats
<1>4. exec' \in {exec, "crashed", "check"}
  BY DEF Settle
<1>5. /\ inFlight' \in [Items -> Nat]
      /\ \A i \in Items : inFlight'[i] <= calls[i]
  BY <1>1, <1>2 DEF Settle, BatchTypeOK
<1> QED BY <1>3, <1>4, <1>5

LEMMA RunTypes ==
  ASSUME BatchInv, NEW r \in runs, RunStep(r)
  PROVE  BatchTypeOK'
<1>1. r.item \in Items /\ r.call \in Nat /\ r.call \in 1 .. calls[r.item]
  BY MovedRun DEF BatchInv, RunsOK, Ats
<1>2. ASSUME NEW to \in Ats, Goes(r, to)
      PROVE  /\ runs' \subseteq [item: Items, call: Nat, at: Ats]
             /\ UNCHANGED <<exec, inFlight, tally>>
  BY <1>2, GoesTypes
<1>3. ASSUME NEW rejected \in BOOLEAN, Settle(r, rejected)
      PROVE  /\ runs' \subseteq [item: Items, call: Nat, at: Ats]
             /\ UNCHANGED tally
             /\ exec' \in {exec, "crashed", "check"}
             /\ inFlight' \in [Items -> Nat]
             /\ \A i \in Items : inFlight'[i] <= calls[i]
  BY <1>3, SettleTypes
<1>4. Fails => failures' \in 0 .. MaxFailures
  BY BatchAssumption DEF Fails, BatchInv, BatchTypeOK
<1>5. CASE Claim(r)
  BY <1>1, <1>2, <1>3, <1>4, <1>5 DEF Claim, BatchInv, BatchTypeOK, Ats
<1>6. CASE Announce(r)
  BY <1>1, <1>2, <1>3, <1>4, <1>6 DEF Announce, BatchInv, BatchTypeOK, Ats
<1>7. CASE Dispatch(r)
  <2>1. tasks' \in [Items -> Nat] /\ \A i \in Items : tasks'[i] <= calls[i]
    BY <1>1, <1>7 DEF Dispatch, BatchInv, BatchTypeOK, OwnerOK
  <2>2. task' \in [Items -> {"none", "running", "completed", "failed"}]
    BY <1>7 DEF Dispatch, BatchInv, BatchTypeOK
  <2> QED BY <1>2, <1>4, <1>7, <2>1, <2>2
        DEF Dispatch, BatchInv, BatchTypeOK, Ats
<1>8. ASSUME NEW status \in {"completed", "failed"}, EndItem(r, status),
             UNCHANGED <<batch, task, calls, tasks>>
      PROVE  BatchTypeOK'
  BY <1>1, <1>3, <1>4, <1>8 DEF EndItem, BatchInv, BatchTypeOK, Ats
<1>9. CASE FailItem(r)
  BY <1>8, <1>9 DEF FailItem
<1>10. CASE Poll(r)
  BY <1>8, <1>10 DEF Poll
<1> QED BY <1>5, <1>6, <1>7, <1>9, <1>10 DEF RunStep

LEMMA TypeStep ==
  ASSUME BatchInv, Next
  PROVE  BatchTypeOK'
BY ExecTypes, PullTypes, RunTypes DEF Next, ExecStep

-----------------------------------------------------------------------------
(* Numbered calls and their owners.                                        *)

(* A step that neither calls runItem nor moves a call.                     *)
LEMMA SameRuns ==
  ASSUME BatchInv, UNCHANGED <<runs, calls, tasks>>,
         \A i \in Items : itemRow'[i] = "pending" => itemRow[i] = "pending",
         \A i \in Items : itemRow[i] = "pending" \/ itemRow'[i] = itemRow[i]
  PROVE  RunsOK' /\ OwnerOK'
<1>1. RunsOK'
  BY DEF BatchInv, RunsOK
<1>2. \A r \in runs : r.item \in Items
  BY DEF BatchInv, BatchTypeOK
<1>3. OwnerOK'
  BY <1>2 DEF BatchInv, OwnerOK, ItemRunsOnce
<1> QED BY <1>1, <1>3

LEMMA PullRuns ==
  ASSUME BatchInv, Pull
  PROVE  RunsOK' /\ OwnerOK'
<1> DEFINE pulled == FirstPending(Concurrency - Cardinality(InMap))
           called == [i \in Items |-> calls[i] + IF i \in pulled THEN 1 ELSE 0]
           New(i) == [item |-> i, call |-> called[i], at |-> "claim"]
<1>1. pulled \in SUBSET Items
  BY DEF FirstPending
<1>2. calls' = called /\ runs' = runs \cup {New(i) : i \in pulled}
  BY DEF Pull
<1>3. UNCHANGED <<itemRow, tasks>>
  BY DEF Pull
<1> HIDE DEF pulled
<1>4. \A i \in pulled : called[i] = calls[i] + 1 /\ calls[i] \in Nat
  BY <1>1 DEF BatchInv, BatchTypeOK
<1>5. \A i \in Items : called[i] \in Nat /\ calls[i] \in Nat /\ called[i] >= calls[i]
  BY <1>1 DEF BatchInv, BatchTypeOK
<1> HIDE DEF called
<1>6. \A r \in runs : r.item \in Items /\ r.call \in Nat /\ r.call \in 1 .. calls[r.item]
  BY DEF BatchInv, BatchTypeOK, RunsOK
<1>7. RunsOK'
  <2>1. ASSUME NEW r \in runs' PROVE r.call \in 1 .. called[r.item]
    <3>1. CASE r \in runs BY <1>5, <1>6, <3>1
    <3>2. ASSUME NEW i \in pulled, r = New(i) PROVE r.call \in 1 .. called[r.item]
      BY <1>1, <1>4, <1>5, <3>2
    <3> QED BY <1>2, <3>1, <3>2
  <2>2. ASSUME NEW r \in runs', NEW s \in runs', r.item = s.item, r.call = s.call
        PROVE  r = s
    <3>1. CASE r \in runs /\ s \in runs
      BY <2>2, <3>1 DEF BatchInv, RunsOK
    <3>2. ASSUME NEW x \in runs, NEW i \in pulled
          PROVE  ~(x.item = New(i).item /\ x.call = New(i).call)
      BY <1>1, <1>4, <1>6
    <3>3. ASSUME NEW i \in pulled, NEW j \in pulled, New(i).item = New(j).item
          PROVE  New(i) = New(j)
      BY <3>3
    <3> QED BY <1>2, <2>2, <3>1, <3>2, <3>3
  <2> QED BY <1>2, <2>1, <2>2 DEF RunsOK
<1>8. \A i \in pulled : New(i).at = "claim"
  OBVIOUS
<1>9. \A r \in runs' : r.at # "claim" => r \in runs
  BY <1>2, <1>8
<1>10. OwnerOK'
  BY <1>3, <1>9 DEF BatchInv, OwnerOK, ItemRunsOnce
<1> QED BY <1>7, <1>10

LEMMA MovedRuns ==
  ASSUME BatchInv, NEW r \in runs, NEW to \in Ats, Goes(r, to), UNCHANGED calls
  PROVE  /\ RunsOK'
         /\ \A s \in runs' : (s \in runs /\ s # r) \/
              (s.item = r.item /\ s.call = r.call /\ s.at = to)
<1> DEFINE q == [r EXCEPT !.at = to]
<1>1. q.item = r.item /\ q.call = r.call /\ q.at = to
  BY MovedRun DEF BatchInv
<1>2. runs' = (runs \ {r}) \cup {q}
  BY DEF Goes
<1> HIDE DEF q
<1>3. RunsOK'
  BY <1>1, <1>2 DEF BatchInv, RunsOK
<1> QED BY <1>1, <1>2, <1>3

LEMMA EndedRuns ==
  ASSUME BatchInv, NEW r \in runs, NEW rejected \in BOOLEAN, Settle(r, rejected),
         UNCHANGED calls
  PROVE  RunsOK' /\ runs' = runs \ {r}
BY DEF Settle, BatchInv, RunsOK

LEMMA RunOwners ==
  ASSUME BatchInv, NEW r \in runs, RunStep(r)
  PROVE  RunsOK' /\ OwnerOK'
<1>1. r.item \in Items /\ \A s \in runs : s.item \in Items
  BY DEF BatchInv, BatchTypeOK
<1>2. ASSUME NEW rejected \in BOOLEAN, Settle(r, rejected), UNCHANGED <<calls, tasks>>,
             \/ UNCHANGED itemRow
             \/ \E st \in {"completed", "failed"} :
                  itemRow' = [itemRow EXCEPT ![r.item] = st]
      PROVE  RunsOK' /\ OwnerOK'
  <2>1. RunsOK' /\ runs' = runs \ {r}
    BY <1>2, EndedRuns
  <2>2. \A i \in Items : itemRow'[i] = "pending" => itemRow[i] = "pending"
    BY <1>2 DEF BatchInv, BatchTypeOK
  <2>3. \A i \in Items : itemRow'[i] = itemRow[i] \/ itemRow'[i] # "pending"
    BY <1>2 DEF BatchInv, BatchTypeOK
  <2>4. OwnerOK'
    BY <1>1, <1>2, <2>1, <2>2, <2>3 DEF BatchInv, OwnerOK, ItemRunsOnce
  <2> QED BY <2>1, <2>4
<1>3. CASE Claim(r)
  <2>1. CASE Wins(r.item) /\ itemRow' = [itemRow EXCEPT ![r.item] = "running"]
               /\ Goes(r, "announce")
    <3>1. /\ RunsOK'
          /\ \A s \in runs' : (s \in runs /\ s # r) \/
               (s.item = r.item /\ s.call = r.call /\ s.at = "announce")
      BY <1>3, <2>1, MovedRuns DEF Claim, Ats
    <3>2. /\ itemRow[r.item] = "pending" /\ itemRow'[r.item] = "running"
          /\ \A i \in Items : i # r.item => itemRow'[i] = itemRow[i]
      BY <1>1, <2>1 DEF Wins, BatchInv, BatchTypeOK
    <3>3. \A s \in runs : s.item = r.item => s.at = "claim"
      BY <3>2 DEF BatchInv, OwnerOK
    <3>4. tasks' = tasks /\ tasks[r.item] = 0
      BY <1>1, <1>3, <3>2 DEF Claim, BatchInv, OwnerOK
    <3>5. \A s, u \in runs' :
            s.at # "claim" /\ u.at # "claim" /\ s.item = u.item => s = u
      <4> TAKE s, u \in runs'
      <4> HAVE s.at # "claim" /\ u.at # "claim" /\ s.item = u.item
      <4>1. CASE s.item = r.item
        <5>1. s.call = r.call /\ u.call = r.call
          BY <3>1, <3>3, <4>1
        <5> QED BY <3>1, <4>1, <5>1 DEF RunsOK
      <4>2. CASE s.item # r.item
        BY <3>1, <4>2 DEF BatchInv, OwnerOK
      <4> QED BY <4>1, <4>2
    <3>6. \A s \in runs' : s.item \in Items
      BY <1>1, <3>1
    <3>7. OwnerOK'
      BY <1>1, <3>1, <3>2, <3>3, <3>4, <3>5, <3>6 DEF BatchInv, OwnerOK, ItemRunsOnce
    <3> QED BY <3>1, <3>7
  <2> QED BY <1>2, <1>3, <2>1 DEF Claim
<1>4. ASSUME NEW to \in {"dispatch", "fail", "poll"}, Goes(r, to), r.at # "claim",
             UNCHANGED <<itemRow, calls>>,
             to = "dispatch" => r.at = "announce",
             \/ UNCHANGED tasks
             \/ /\ r.at = "dispatch" /\ to # "dispatch"
                /\ tasks' = [tasks EXCEPT ![r.item] = @ + 1]
      PROVE  RunsOK' /\ OwnerOK'
  <2>1. /\ RunsOK'
        /\ \A s \in runs' : (s \in runs /\ s # r) \/
             (s.item = r.item /\ s.call = r.call /\ s.at = to)
    BY <1>4, MovedRuns DEF Ats
  <2>2. \A s \in runs : s # r /\ s.item = r.item => s.at = "claim"
    BY <1>4 DEF BatchInv, OwnerOK
  <2>3. itemRow[r.item] # "pending"
    BY <1>4 DEF BatchInv, OwnerOK
  <2>4. /\ \A i \in Items : i # r.item => tasks'[i] = tasks[i]
        /\ r.at \notin {"dispatch"} => UNCHANGED tasks
        /\ tasks'[r.item] <= 1
        /\ to = "dispatch" => tasks'[r.item] = 0
    BY <1>1, <1>4 DEF BatchInv, OwnerOK, ItemRunsOnce, BatchTypeOK
  <2>5. \A s, u \in runs' :
          s.at # "claim" /\ u.at # "claim" /\ s.item = u.item => s = u
    <3> TAKE s, u \in runs'
    <3> HAVE s.at # "claim" /\ u.at # "claim" /\ s.item = u.item
    <3>1. CASE s.item = r.item
      <4>1. s.call = r.call /\ u.call = r.call
        BY <2>1, <2>2, <3>1
      <4> QED BY <2>1, <3>1, <4>1 DEF RunsOK
    <3>2. CASE s.item # r.item
      BY <2>1, <3>2 DEF BatchInv, OwnerOK
    <3> QED BY <3>1, <3>2
  <2>6. \A s \in runs' : s.item \in Items
    BY <1>1, <2>1
  <2>7. OwnerOK'
    BY <1>1, <1>4, <2>1, <2>2, <2>3, <2>4, <2>5, <2>6
       DEF BatchInv, OwnerOK, ItemRunsOnce
  <2> QED BY <2>1, <2>7
<1>5. CASE Announce(r)
  BY <1>2, <1>4, <1>5 DEF Announce
<1>6. CASE Dispatch(r)
  BY <1>4, <1>6 DEF Dispatch
<1>7. ASSUME NEW st \in {"completed", "failed"}, EndItem(r, st),
             UNCHANGED <<calls, tasks>>
      PROVE  RunsOK' /\ OwnerOK'
  BY <1>2, <1>7 DEF EndItem
<1>8. CASE FailItem(r)
  BY <1>7, <1>8 DEF FailItem
<1>9. CASE Poll(r)
  BY <1>7, <1>9 DEF Poll
<1> QED BY <1>3, <1>5, <1>6, <1>8, <1>9 DEF RunStep

LEMMA OwnerStep ==
  ASSUME BatchInv, Next
  PROVE  RunsOK' /\ OwnerOK'
<1>1. CASE Create \/ Cancel \/ Start \/ Drained \/ Count \/ Look \/ Finalize \/ ExecFails
  BY <1>1, SameRuns
     DEF Create, Cancel, Start, Drained, Count, Look, Finalize, ExecFails
<1>2. CASE Check
  <2>1. /\ \A i \in Items : itemRow'[i] = "pending" => itemRow[i] = "pending"
        /\ \A i \in Items : itemRow[i] = "pending" \/ itemRow'[i] = itemRow[i]
    BY <1>2 DEF Check, AfterCancel
  <2> QED BY <1>2, <2>1, SameRuns DEF Check
<1>3. CASE Crash
  BY <1>3 DEF Crash, BatchInv, RunsOK, OwnerOK, ItemRunsOnce
<1>4. ASSUME NEW i \in Items, NEW how \in {"completed", "failed"}, TaskEnds(i, how)
      PROVE  RunsOK' /\ OwnerOK'
  BY <1>4, SameRuns DEF TaskEnds
<1> QED BY <1>1, <1>2, <1>3, <1>4, PullRuns, RunOwners DEF Next, ExecStep

-----------------------------------------------------------------------------
(* The map and the concurrency limit.                                      *)

LEMMA InMapFinite ==
  ASSUME BatchTypeOK
  PROVE  /\ IsFiniteSet(InMap) /\ Cardinality(InMap) \in Nat
         /\ IsFiniteSet(Running) /\ Cardinality(Running) \in Nat
         /\ IsFiniteSet(InMap') /\ Cardinality(InMap') \in Nat
         /\ IsFiniteSet(Running') /\ Cardinality(Running') \in Nat
BY FS_Subset, FS_CardinalityType, BatchAssumption DEF InMap, Running

LEMMA MapShrinks ==
  ASSUME BatchInv, InMap' \subseteq InMap
  PROVE  MapOK'
<1>1. Cardinality(InMap') <= Cardinality(InMap)
  BY InMapFinite, FS_Subset DEF BatchInv
<1> QED BY <1>1, InMapFinite, BatchAssumption DEF BatchInv, MapOK

LEMMA PullMap ==
  ASSUME BatchInv, Pull
  PROVE  MapOK'
<1> DEFINE slots == Concurrency - Cardinality(InMap)
           pulled == FirstPending(slots)
           pending == {i \in Items : itemRow[i] = "pending"}
<1>1. slots \in Nat /\ Cardinality(InMap) \in Nat /\ IsFiniteSet(InMap)
  BY InMapFinite, BatchAssumption DEF BatchInv, MapOK
<1>2. pending \in SUBSET Nat /\ IsFiniteSet(pending)
  BY BatchAssumption, FS_Subset
<1>3. pulled = {i \in pending : Cardinality({j \in pending : j < i}) < slots}
  BY DEF FirstPending
<1> HIDE DEF pending, slots
<1>4. IsFiniteSet(pulled) /\ Cardinality(pulled) <= slots
  BY <1>1, <1>2, <1>3, SmallestAreFew
<1>5. pulled \in SUBSET Items
  BY <1>3 DEF pending
<1>6. InMap' \subseteq InMap \cup pulled
  BY <1>5 DEF Pull, InMap, slots
<1> HIDE DEF pulled
<1>7. /\ IsFiniteSet(InMap \cup pulled)
      /\ Cardinality(InMap \cup pulled)
           = Cardinality(InMap) + Cardinality(pulled) - Cardinality(InMap \cap pulled)
  BY <1>1, <1>4, FS_Union
<1>8. Cardinality(InMap \cap pulled) \in Nat /\ Cardinality(pulled) \in Nat
  BY <1>1, <1>4, FS_Subset, FS_CardinalityType
<1>9. Cardinality(InMap \cup pulled) <= Concurrency
  BY <1>1, <1>4, <1>7, <1>8, BatchAssumption DEF slots
<1>10. Cardinality(InMap') <= Cardinality(InMap \cup pulled)
  BY <1>6, <1>7, FS_Subset
<1>11. Cardinality(InMap \cup pulled) \in Nat /\ Cardinality(InMap') \in Nat
  BY <1>7, FS_CardinalityType, InMapFinite DEF BatchInv
<1> QED BY <1>9, <1>10, <1>11, BatchAssumption DEF MapOK

(* A step of a call: it goes on, or it ends and may reject if it failed.   *)
Advances(r) ==
  /\ \E to \in Ats \ {"claim"} : Goes(r, to)
  /\ \/ itemRow' = [itemRow EXCEPT ![r.item] = "running"]
     \/ r.at # "claim" /\ UNCHANGED itemRow

Ends(r) ==
  /\ \/ Settle(r, FALSE)
     \/ Settle(r, TRUE) /\ failures' # 0
  /\ \/ UNCHANGED itemRow /\ (failures' # 0 \/ r.at = "claim")
     \/ itemRow' = [itemRow EXCEPT ![r.item] = "completed"]
     \/ itemRow' = [itemRow EXCEPT ![r.item] = "failed"]

LEMMA RunStepEffect ==
  ASSUME BatchInv, NEW r \in runs, RunStep(r)
  PROVE  /\ UNCHANGED <<batch, calls>>
         /\ failures' \in Nat /\ failures <= failures'
         /\ Advances(r) \/ Ends(r)
<1>0. failures \in Nat
  BY BatchAssumption DEF BatchInv, BatchTypeOK
<1>1. Fails => failures' \in Nat /\ failures <= failures' /\ failures' # 0
  BY <1>0 DEF Fails
<1>2. UNCHANGED failures => failures' \in Nat /\ failures <= failures'
  BY <1>0
<1>3. UNCHANGED <<batch, calls>> /\ (Fails \/ UNCHANGED failures)
  BY DEF RunStep, Claim, Announce, Dispatch, FailItem, Poll, EndItem
<1>4. ASSUME Claim(r) PROVE Advances(r) \/ Ends(r)
  BY <1>1, <1>4 DEF Claim, Advances, Ends, Ats
<1>5. ASSUME Announce(r) PROVE Advances(r) \/ Ends(r)
  BY <1>1, <1>5 DEF Announce, Advances, Ends, Ats
<1>6. ASSUME Dispatch(r) PROVE Advances(r) \/ Ends(r)
  <2>1. \E to \in {"fail", "poll"} : Goes(r, to)
    BY <1>6 DEF Dispatch
  <2>2. r.at # "claim" /\ UNCHANGED itemRow
    BY <1>6 DEF Dispatch
  <2> QED BY <2>1, <2>2 DEF Advances, Ats
<1>7. ASSUME FailItem(r) \/ Poll(r) PROVE Advances(r) \/ Ends(r)
  <2>1. EndItem(r, "failed") \/ EndItem(r, "completed")
    BY <1>7 DEF FailItem, Poll
  <2> QED BY <1>1, <2>1 DEF EndItem, Ends
<1> QED BY <1>1, <1>2, <1>3, <1>4, <1>5, <1>6, <1>7 DEF RunStep

LEMMA MapStep ==
  ASSUME BatchInv, Next
  PROVE  MapOK'
<1>1. ASSUME UNCHANGED inFlight PROVE MapOK'
  BY <1>1, MapShrinks DEF InMap
<1>2. CASE Create \/ Cancel \/ Start \/ Check \/ Drained \/ Count \/ Look
           \/ Finalize \/ ExecFails
  BY <1>1, <1>2 DEF Create, Cancel, Start, Check, Drained, Count, Look,
     Finalize, ExecFails, execVars
<1>3. CASE Crash
  BY <1>3, MapShrinks DEF Crash, InMap
<1>4. ASSUME NEW i \in Items, NEW how \in {"completed", "failed"}, TaskEnds(i, how)
      PROVE  MapOK'
  BY <1>1, <1>4 DEF TaskEnds, execVars
<1>5. ASSUME NEW r \in runs, RunStep(r) PROVE MapOK'
  <2>1. ASSUME NEW to \in Ats, Goes(r, to) PROVE MapOK'
    BY <1>1, <2>1 DEF Goes, execVars
  <2>2. ASSUME NEW rejected \in BOOLEAN, Settle(r, rejected) PROVE MapOK'
    <3>1. InMap' \subseteq InMap
      BY <2>2 DEF Settle, InMap, BatchInv, BatchTypeOK
    <3> QED BY <3>1, MapShrinks
  <2> QED BY <1>5, <2>1, <2>2, RunStepEffect DEF Advances, Ends
<1> QED BY <1>2, <1>3, <1>4, <1>5, PullMap DEF Next, ExecStep

-----------------------------------------------------------------------------
(* The rows, while nothing disturbs.                                       *)

(* Quiet: what holds of an undisturbed batch.                              *)
Quiet ==
  /\ exec = "crashed" => runs = {}
  /\ exec # "crashed" =>
       \A i \in Running : \E r \in runs : r.item = i /\ r.at # "claim"
  /\ \A r \in runs : r.item \in InMap
  /\ Cardinality(Running) <= Concurrency

LEMMA QuietIsQuietOK ==
  QuietOK <=> /\ batch = "none" => exec = "off"
              /\ exec = "write" => tally.status # "none"
              /\ Undisturbed => Quiet
BY DEF QuietOK, Quiet

LEMMA DisturbedForEver ==
  ASSUME BatchInv, Next, Undisturbed'
  PROVE  Undisturbed /\ UNCHANGED failures
<1>1. failures \in Nat /\ calls \in [Items -> Nat]
  BY BatchAssumption DEF BatchInv, BatchTypeOK
<1>2. failures' = 0 /\ \A i \in Items : calls'[i] <= 1
  BY DEF Undisturbed
<1>3. CASE Create \/ Cancel \/ Start \/ Check \/ Drained \/ Count \/ Look
           \/ Finalize \/ Crash
           \/ \E i \in Items, how \in {"completed", "failed"} : TaskEnds(i, how)
  BY <1>2, <1>3 DEF Create, Cancel, Start, Check, Drained, Count, Look,
     Finalize, Crash, TaskEnds, Undisturbed
<1>4. CASE ExecFails
  BY <1>1, <1>2, <1>4 DEF ExecFails
<1>5. CASE Pull
  <2> DEFINE pulled == FirstPending(Concurrency - Cardinality(InMap))
  <2>1. UNCHANGED failures
           /\ calls' = [i \in Items |-> calls[i] + IF i \in pulled THEN 1 ELSE 0]
    BY <1>5 DEF Pull
  <2> HIDE DEF pulled
  <2>2. \A i \in Items : calls[i] <= calls'[i]
    BY <1>1, <2>1
  <2>3. calls' \in [Items -> Nat]
    BY <1>1, <2>1
  <2> QED BY <1>1, <1>2, <2>1, <2>2, <2>3 DEF Undisturbed
<1>6. ASSUME NEW r \in runs, RunStep(r) PROVE Undisturbed /\ UNCHANGED failures
  <2>1. failures <= failures' /\ UNCHANGED calls
    BY <1>6, RunStepEffect
  <2> QED BY <1>1, <1>2, <2>1 DEF Undisturbed
<1> QED BY <1>3, <1>4, <1>5, <1>6 DEF Next, ExecStep

LEMMA QuietRest ==
  ASSUME BatchInv, Quiet, UNCHANGED <<runs, inFlight>>, Running' = Running,
         exec' = "crashed" => exec = "crashed",
         exec = "crashed" => exec' = "crashed"
  PROVE  Quiet'
BY DEF Quiet, InMap

(* Nobody else is in a call for the item of an undisturbed call.           *)
LEMMA AloneInItem ==
  ASSUME BatchInv, Undisturbed, NEW r \in runs, NEW s \in runs, s.item = r.item
  PROVE  s = r
<1>1. r.item \in Items /\ s.item \in Items
  BY DEF BatchInv, BatchTypeOK
<1>2. r.call \in 1 .. calls[r.item] /\ s.call \in 1 .. calls[r.item]
  BY DEF BatchInv, RunsOK
<1>3. calls[r.item] \in Nat /\ calls[r.item] <= 1
  BY <1>1 DEF Undisturbed, BatchInv, BatchTypeOK
<1>4. r.call = 1 /\ s.call = 1
  BY <1>2, <1>3
<1> QED BY <1>4 DEF BatchInv, RunsOK

LEMMA QuietAdvance ==
  ASSUME BatchInv, MapOK', BatchTypeOK', Undisturbed, Quiet, NEW r \in runs, Advances(r)
  PROVE  Quiet'
<1>1. PICK to \in Ats \ {"claim"} : Goes(r, to)
  BY DEF Advances
<1>2. UNCHANGED <<exec, inFlight>> /\ r.item \in Items
  BY <1>1 DEF Goes, execVars, BatchInv, BatchTypeOK
<1> DEFINE q == [r EXCEPT !.at = to]
<1>3. q.item = r.item /\ q.at = to
  BY MovedRun DEF BatchInv
<1>4. runs' = (runs \ {r}) \cup {q}
  BY <1>1 DEF Goes
<1> HIDE DEF q
<1>5. exec # "crashed" /\ exec' # "crashed"
  BY <1>2 DEF Quiet
<1>6. \A s \in runs' : s.item \in InMap'
  BY <1>2, <1>3, <1>4 DEF Quiet, InMap
<1>7. \A i \in Running' : i = r.item \/ i \in Running
  BY <1>2 DEF Advances, Running, BatchInv, BatchTypeOK
<1>8. \A i \in Running' : \E s \in runs' : s.item = i /\ s.at # "claim"
  <2> TAKE i \in Running'
  <2>1. CASE i = r.item
    BY <1>3, <1>4, <2>1
  <2>2. CASE i # r.item
    BY <1>4, <1>5, <1>7, <2>2 DEF Quiet
  <2> QED BY <2>1, <2>2
<1>9. Running' \subseteq InMap'
  BY <1>6, <1>8
<1>10. Cardinality(Running') <= Concurrency
  <2>1. Cardinality(Running') <= Cardinality(InMap')
    BY <1>9, InMapFinite, FS_Subset DEF BatchInv
  <2> QED BY <2>1, InMapFinite, BatchAssumption DEF BatchInv, MapOK
<1> QED BY <1>5, <1>6, <1>8, <1>10 DEF Quiet

LEMMA QuietEnd ==
  ASSUME BatchInv, Undisturbed, Quiet, NEW r \in runs, Ends(r), failures' = 0
  PROVE  Quiet'
<1>1. Settle(r, FALSE)
  BY DEF Ends
<1>2. /\ runs' = runs \ {r}
      /\ \A i \in Items : i # r.item => inFlight'[i] = inFlight[i]
      /\ exec' = "crashed" => exec = "crashed"
  BY <1>1 DEF Settle, BatchInv, BatchTypeOK
<1>3. exec # "crashed" /\ r.item \in Items
  BY DEF Quiet, BatchInv, BatchTypeOK
<1>4. \A s \in runs' : s.item # r.item
  BY <1>2, AloneInItem
<1>5. \A s \in runs' : s.item \in InMap'
  BY <1>2, <1>4 DEF Quiet, InMap
<1>6. Running' \subseteq Running
  BY <1>3 DEF Ends, Running, BatchInv, BatchTypeOK
<1>7. r.item \notin Running'
  <2>1. CASE UNCHANGED itemRow /\ r.at = "claim"
    <3>2. ASSUME r.item \in Running PROVE FALSE
      <4>1. PICK s \in runs : s.item = r.item /\ s.at # "claim"
        BY <1>3, <3>2 DEF Quiet
      <4> QED BY <2>1, <4>1, AloneInItem
    <3> QED BY <2>1, <3>2 DEF Running
  <2>2. CASE \/ itemRow' = [itemRow EXCEPT ![r.item] = "completed"]
             \/ itemRow' = [itemRow EXCEPT ![r.item] = "failed"]
    BY <1>3, <2>2 DEF Running, BatchInv, BatchTypeOK
  <2> QED BY <2>1, <2>2 DEF Ends
<1>8. \A i \in Running' : \E s \in runs' : s.item = i /\ s.at # "claim"
  BY <1>2, <1>3, <1>6, <1>7 DEF Quiet
<1>9. Cardinality(Running') <= Concurrency
  <2>1. Cardinality(Running') <= Cardinality(Running)
    BY <1>6, InMapFinite, FS_Subset DEF BatchInv
  <2>2. Cardinality(Running') \in Nat
    BY <1>6, InMapFinite, FS_Subset, FS_CardinalityType DEF BatchInv
  <2> QED BY <2>1, <2>2, InMapFinite, BatchAssumption DEF BatchInv, Quiet
<1> QED BY <1>2, <1>3, <1>5, <1>8, <1>9 DEF Quiet

LEMMA QuietPull ==
  ASSUME BatchInv, Quiet, Pull
  PROVE  Quiet'
<1> DEFINE pulled == FirstPending(Concurrency - Cardinality(InMap))
           called == [i \in Items |-> calls[i] + IF i \in pulled THEN 1 ELSE 0]
           New(i) == [item |-> i, call |-> called[i], at |-> "claim"]
<1>1. pulled \in SUBSET Items
  BY DEF FirstPending
<1>2. /\ runs' = runs \cup {New(i) : i \in pulled}
      /\ inFlight' = [i \in Items |-> IF i \in pulled THEN called[i] ELSE inFlight[i]]
      /\ exec = "pull" /\ exec' # "crashed" /\ UNCHANGED itemRow
  BY DEF Pull
<1> HIDE DEF pulled
<1>3. \A i \in pulled : called[i] # 0
  BY <1>1 DEF BatchInv, BatchTypeOK
<1> HIDE DEF called
<1>4. \A i \in pulled : New(i).item = i
  OBVIOUS
<1>5. \A r \in runs' : r.item \in InMap'
  BY <1>1, <1>2, <1>3, <1>4 DEF Quiet, InMap
<1>6. Running' = Running
  BY <1>2 DEF Running
<1> QED BY <1>2, <1>5, <1>6 DEF Quiet

LEMMA QuietStep ==
  ASSUME BatchInv, Next, MapOK', BatchTypeOK'
  PROVE  QuietOK'
<1>1. (batch' = "none" => exec' = "off") /\ (exec' = "write" => tally'.status # "none")
  <2>1. ASSUME NEW r \in runs, RunStep(r)
        PROVE  /\ UNCHANGED <<batch, tally>>
               /\ exec' = exec \/ (exec = "race" /\ exec' \in {"crashed", "check"})
    <3>1. UNCHANGED batch /\ (Advances(r) \/ Ends(r))
      BY <2>1, RunStepEffect
    <3>2. ASSUME Advances(r) PROVE UNCHANGED <<exec, tally>>
      BY <3>2 DEF Advances, Goes, execVars
    <3>3. ASSUME NEW rejected \in BOOLEAN, Settle(r, rejected)
          PROVE  /\ UNCHANGED tally
                 /\ exec' = exec \/ (exec = "race" /\ exec' \in {"crashed", "check"})
      BY <3>3 DEF Settle
    <3>4. CASE Ends(r)
      BY <3>1, <3>3, <3>4 DEF Ends
    <3> QED BY <3>1, <3>2, <3>4
  <2>2. CASE \E r \in runs : RunStep(r)
    BY <2>1, <2>2 DEF BatchInv, QuietOK
  <2>3. CASE Create \/ Cancel \/ Crash
             \/ \E i \in Items, how \in {"completed", "failed"} : TaskEnds(i, how)
    BY <2>3 DEF Create, Cancel, Crash, TaskEnds, execVars, BatchInv, QuietOK
  <2>4. CASE Finalize
    BY <2>4 DEF Finalize, FinalStatus, BatchInv, QuietOK
  <2>5. CASE Look
    BY <2>5 DEF Look, BatchInv, BatchTypeOK, QuietOK
  <2>6. CASE Start \/ Check \/ Pull \/ Drained \/ Count \/ ExecFails
    BY <2>6 DEF Start, Check, Pull, Drained, Count, ExecFails, BatchInv, QuietOK
  <2> QED BY <2>2, <2>3, <2>4, <2>5, <2>6 DEF Next, ExecStep
<1>2. ASSUME Undisturbed' PROVE Quiet'
  <2>1. Undisturbed /\ UNCHANGED failures /\ failures' = 0
    BY <1>2, DisturbedForEver DEF Undisturbed
  <2>2. Quiet
    BY <2>1, QuietIsQuietOK DEF BatchInv
  <2>3. CASE Create
    <3>1. exec = "off" /\ exec' = "start" /\ UNCHANGED <<runs, inFlight, itemRow>>
      BY <2>3 DEF Create, BatchInv, QuietOK
    <3> QED BY <2>2, <3>1, QuietRest DEF Running
  <2>4. CASE Cancel \/ Start \/ Drained \/ Count \/ Look \/ Finalize
             \/ \E i \in Items, how \in {"completed", "failed"} : TaskEnds(i, how)
    BY <2>2, <2>4, QuietRest DEF Cancel, Start, Drained, Count, Look, Finalize,
       TaskEnds, execVars, Running
  <2>5. CASE Check
    <3>1. Running' = Running
      BY <2>5 DEF Check, AfterCancel, Running, BatchInv, BatchTypeOK
    <3> QED BY <2>2, <2>5, <3>1, QuietRest DEF Check
  <2>6. CASE Crash
    BY <2>2, <2>6 DEF Crash, Quiet, Running
  <2>7. CASE ExecFails
    BY <2>1, <2>7, BatchAssumption DEF ExecFails, BatchInv, BatchTypeOK
  <2>8. ASSUME NEW r \in runs, RunStep(r) PROVE Quiet'
    <3>1. Advances(r) \/ Ends(r)
      BY <2>8, RunStepEffect
    <3> QED BY <2>1, <2>2, <3>1, QuietAdvance, QuietEnd
  <2> QED BY <2>2, <2>3, <2>4, <2>5, <2>6, <2>7, <2>8, QuietPull DEF Next, ExecStep
<1>3. QuietOK' <=> /\ batch' = "none" => exec' = "off"
                   /\ exec' = "write" => tally'.status # "none"
                   /\ Undisturbed' => Quiet'
  BY DEF QuietOK, Quiet
<1> QED BY <1>1, <1>2, <1>3

-----------------------------------------------------------------------------
(* What the final status says.                                             *)

Looping == {"check", "pull", "race", "drain", "count", "look", "write"}
Final   == {"count", "look", "write", "done"}
Missed  == {i \in Items : itemRow[i] \in {"failed", "cancelled"}}

(* An executor that has left its loop has left no item pending.  Unless    *)
(* disturbed it has waited for every call, so that no row changes between  *)
(* the count of finalizeBatch and its write, and the status it writes is   *)
(* the one of the rows.                                                    *)
StatusOK ==
  /\ exec = "start" => batch \in {"pending", "cancelled"}
  /\ exec \in Looping => batch \in {"running", "cancelled"}
  /\ exec = "write" => tally.status \in {"running", "cancelled"}
  /\ exec = "done" => batch \in {"completed", "partial", "cancelled"}

LeftOK ==
  /\ exec \in Final \cup {"drain"} => \A i \in Items : itemRow[i] # "pending"
  /\ Undisturbed /\ exec = "drain" =>
       \A r \in runs : <<r.item, r.call>> \in awaited
  /\ Undisturbed /\ exec \in Final => runs = {}

CountOK ==
  Undisturbed =>
    /\ exec \in {"look", "write"} => tally.failed = Cardinality(Missed)
    /\ exec = "done" /\ batch # "cancelled" =>
         (batch = "completed" <=> Missed = {})

FinalInv == StatusOK /\ LeftOK /\ CountOK

LEMMA NatsHaveAMinimum ==
  ASSUME NEW S \in SUBSET Nat, S # {}
  PROVE  \E m \in S : \A j \in S : m <= j
<1> DEFINE R == OpToRel(<, Nat)
<1>1. R = {ss \in Nat \X Nat : ss[1] < ss[2]}
  BY DEF OpToRel
<1>2. IsWellFoundedOn(R, Nat)
  BY NatLessThanWellFounded
<1> HIDE DEF R
<1>3. PICK m \in S : \A j \in S : ~(<<j, m>> \in R)
  BY <1>2, WFMin
<1>4. \A j \in S : ~(j < m)
  BY <1>1, <1>3
<1> QED BY <1>4

(* With a free slot, the query returns nothing only if nothing is pending. *)
LEMMA NothingPending ==
  ASSUME NEW k \in Nat \ {0}, FirstPending(k) = {}
  PROVE  \A i \in Items : itemRow[i] # "pending"
<1> DEFINE pending == {i \in Items : itemRow[i] = "pending"}
<1>1. SUFFICES ASSUME pending # {} PROVE FALSE
  OBVIOUS
<1>2. pending \in SUBSET Nat
  BY BatchAssumption
<1>3. PICK m \in pending : \A j \in pending : m <= j
  BY <1>1, <1>2, NatsHaveAMinimum
<1>4. {j \in pending : j < m} = {}
  BY <1>2, <1>3
<1>5. Cardinality({j \in pending : j < m}) < k
  BY <1>4, FS_EmptySet
<1> QED BY <1>3, <1>5 DEF FirstPending

(* What leaving the loop by an empty map means.                            *)
LEMMA PullToCount ==
  ASSUME BatchInv, Pull, exec' = "count"
  PROVE  InMap = {} /\ runs' = runs /\ \A i \in Items : itemRow[i] # "pending"
<1> DEFINE slots  == Concurrency - Cardinality(InMap)
           pulled == FirstPending(slots)
           called == [i \in Items |-> calls[i] + IF i \in pulled THEN 1 ELSE 0]
<1>1. /\ \A i \in Items : (IF i \in pulled THEN called[i] ELSE inFlight[i]) = 0
      /\ runs' = runs \cup
           {[item |-> i, call |-> called[i], at |-> "claim"] : i \in pulled}
  BY DEF Pull
<1>2. pulled \in SUBSET Items
  BY DEF FirstPending
<1> HIDE DEF pulled
<1>3. pulled = {}
  <2>1. \A i \in pulled : called[i] # 0
    BY <1>2 DEF BatchInv, BatchTypeOK
  <2>2. \A i \in pulled : called[i] = 0
    <3> HIDE DEF called
    <3> QED BY <1>1, <1>2
  <2> QED BY <2>1, <2>2
<1>4. InMap = {}
  BY <1>1, <1>3 DEF InMap
<1>5. slots \in Nat \ {0}
  BY <1>4, FS_EmptySet, BatchAssumption
<1>6. \A i \in Items : itemRow[i] # "pending"
  BY <1>3, <1>5, NothingPending DEF pulled
<1> QED BY <1>1, <1>3, <1>4, <1>6

LEMMA StatusStep ==
  ASSUME BatchInv, FinalInv, Next
  PROVE  StatusOK'
<1>1. batch \in Statuses
  BY DEF BatchInv, BatchTypeOK
<1>2. CASE Create \/ Cancel \/ Start \/ Check \/ Pull \/ Drained \/ Count \/ Look
           \/ Crash \/ ExecFails
           \/ \E i \in Items, how \in {"completed", "failed"} : TaskEnds(i, how)
  BY <1>1, <1>2 DEF Create, Cancel, Cancellable, Start, Check, Pull, Drained, Count,
     Look, Crash, ExecFails, TaskEnds, execVars, FinalInv, StatusOK, Looping,
     BatchInv, BatchTypeOK, QuietOK
<1>3. CASE Finalize
  BY <1>3 DEF Finalize, FinalStatus, FinalInv, StatusOK, Looping
<1>4. ASSUME NEW r \in runs, RunStep(r) PROVE StatusOK'
  <2>1. UNCHANGED batch /\ (Advances(r) \/ Ends(r))
    BY <1>4, RunStepEffect
  <2>2. CASE Advances(r)
    BY <2>1, <2>2 DEF Advances, Goes, execVars, FinalInv, StatusOK
  <2>3. CASE Ends(r)
    BY <2>1, <2>3 DEF Ends, Settle, FinalInv, StatusOK, Looping
  <2> QED BY <2>1, <2>2, <2>3
<1> QED BY <1>2, <1>3, <1>4 DEF Next, ExecStep

(* A call changes no row back to pending and stays the same call.          *)
LEMMA CallsKeepTheirNames ==
  ASSUME BatchInv, NEW r \in runs, RunStep(r)
  PROVE  /\ \A i \in Items : itemRow'[i] = "pending" => itemRow[i] = "pending"
         /\ \A s \in runs' :
              \E q \in runs : <<q.item, q.call>> = <<s.item, s.call>>
         /\ exec' = exec
              \/ (exec = "race" /\ exec' \in {"check", "crashed"})
         /\ exec # "race" => UNCHANGED awaited
<1>1. Advances(r) \/ Ends(r)
  BY RunStepEffect
<1>2. r.item \in Items
  BY DEF BatchInv, BatchTypeOK
<1>3. \A i \in Items : itemRow'[i] = "pending" => itemRow[i] = "pending"
  BY <1>1, <1>2 DEF Advances, Ends, BatchInv, BatchTypeOK
<1>4. CASE Advances(r)
  <2>1. PICK to \in Ats : Goes(r, to)
    BY <1>4 DEF Advances
  <2>2. /\ [r EXCEPT !.at = to].item = r.item
        /\ [r EXCEPT !.at = to].call = r.call
    BY MovedRun DEF BatchInv
  <2>3. runs' = (runs \ {r}) \cup {[r EXCEPT !.at = to]}
    BY <2>1 DEF Goes
  <2>4. UNCHANGED <<exec, awaited>>
    BY <2>1 DEF Goes, execVars
  <2> QED BY <1>3, <2>2, <2>3, <2>4
<1>5. CASE Ends(r)
  BY <1>3, <1>5 DEF Ends, Settle
<1> QED BY <1>1, <1>4, <1>5

LEMMA LeftStep ==
  ASSUME BatchInv, FinalInv, Next
  PROVE  LeftOK'
<1>1. Undisturbed' => Undisturbed
  BY DisturbedForEver
<1>2. CASE Create \/ Cancel \/ Start \/ Count \/ Look \/ Finalize \/ Crash
           \/ ExecFails
           \/ \E i \in Items, how \in {"completed", "failed"} : TaskEnds(i, how)
  BY <1>1, <1>2 DEF Create, Cancel, Start, Count, Look, Finalize, Crash, ExecFails,
     TaskEnds, execVars, FinalInv, LeftOK, Final
<1>3. CASE Check
  <2>1. exec = "check" /\ UNCHANGED <<runs, inFlight>>
    BY <1>3 DEF Check
  <2>2. CASE exec' = "pull"
    BY <2>2 DEF LeftOK, Final
  <2>3. CASE exec' = "drain"
    <3>1. \A i \in Items : itemRow'[i] # "pending"
      BY <1>3, <2>3 DEF Check, AfterCancel, BatchInv, BatchTypeOK
    <3>2. awaited' = {<<i, inFlight[i]>> : i \in InMap}
      BY <1>3, <2>3 DEF Check
    <3>3. ASSUME Undisturbed, NEW r \in runs
          PROVE  <<r.item, r.call>> \in awaited'
      <4>1. r.item \in InMap
        BY <3>3 DEF BatchInv, QuietOK
      <4>2. /\ inFlight[r.item] \in Nat /\ inFlight[r.item] # 0
            /\ inFlight[r.item] <= calls[r.item] /\ calls[r.item] <= 1
            /\ calls[r.item] \in Nat /\ r.call \in 1 .. calls[r.item]
        BY <3>3, <4>1 DEF InMap, Undisturbed, BatchInv, BatchTypeOK, RunsOK
      <4>3. r.call = inFlight[r.item]
        BY <4>2
      <4> QED BY <3>2, <4>1, <4>3
    <3> QED BY <1>1, <2>1, <2>3, <3>1, <3>3 DEF LeftOK, Final
  <2> QED BY <1>3, <2>2, <2>3 DEF Check
<1>4. CASE Pull
  <2>1. exec = "pull" /\ exec' \in {"count", "race"} /\ UNCHANGED itemRow
    BY <1>4 DEF Pull
  <2>2. CASE exec' = "race"
    BY <2>2 DEF LeftOK, Final
  <2>3. CASE exec' = "count"
    <3>1. InMap = {} /\ runs' = runs /\ \A i \in Items : itemRow[i] # "pending"
      BY <1>4, <2>3, PullToCount
    <3>2. Undisturbed => runs = {}
      BY <3>1 DEF BatchInv, QuietOK
    <3> QED BY <1>1, <2>1, <2>3, <3>1, <3>2 DEF LeftOK
  <2> QED BY <2>1, <2>2, <2>3
<1>5. CASE Drained
  BY <1>1, <1>5 DEF Drained, FinalInv, LeftOK, Final
<1>6. ASSUME NEW r \in runs, RunStep(r) PROVE LeftOK'
  <2>1. /\ \A i \in Items : itemRow'[i] = "pending" => itemRow[i] = "pending"
        /\ \A s \in runs' :
             \E q \in runs : <<q.item, q.call>> = <<s.item, s.call>>
        /\ exec' = exec
             \/ (exec = "race" /\ exec' \in {"check", "crashed"})
        /\ exec # "race" => UNCHANGED awaited
    BY <1>6, CallsKeepTheirNames
  <2> QED BY <1>1, <2>1 DEF FinalInv, LeftOK, Final
<1> QED BY <1>2, <1>3, <1>4, <1>5, <1>6 DEF Next, ExecStep

LEMMA NoneMissed ==
  ASSUME TRUE
  PROVE  Cardinality(Missed) \in Nat /\ (Cardinality(Missed) = 0 <=> Missed = {})
<1>1. IsFiniteSet(Missed)
  BY BatchAssumption, FS_Subset DEF Missed
<1> QED BY <1>1, FS_EmptySet, FS_CardinalityType

LEMMA CountStep ==
  ASSUME BatchInv, FinalInv, Next
  PROVE  CountOK'
<1>1. Undisturbed' => Undisturbed
  BY DisturbedForEver
<1>2. CASE Create \/ Start \/ Check \/ Pull \/ Drained \/ Crash \/ ExecFails
  BY <1>2 DEF Create, Start, Check, Pull, Drained, Crash, ExecFails, CountOK
<1>3. CASE Count
  BY <1>3 DEF Count, CountOK, Missed, BatchInv, BatchTypeOK
<1>4. CASE Look
  BY <1>1, <1>4 DEF Look, CountOK, Missed, FinalInv, BatchInv, BatchTypeOK
<1>4a. CASE Cancel \/ \E i \in Items, how \in {"completed", "failed"} : TaskEnds(i, how)
  BY <1>1, <1>4a DEF Cancel, TaskEnds, execVars, CountOK, Missed, FinalInv
<1>5. CASE Finalize
  <2>1. exec = "write" /\ UNCHANGED itemRow /\ batch' = FinalStatus(tally)
        /\ exec' = "done"
    BY <1>5 DEF Finalize
  <2>2. tally.status \in {"running", "cancelled"}
    BY <2>1 DEF FinalInv, StatusOK
  <2>3. Undisturbed => tally.failed = Cardinality(Missed)
    BY <2>1 DEF FinalInv, CountOK
  <2>4. Missed' = Missed
    BY <2>1 DEF Missed
  <2> QED BY <1>1, <2>1, <2>2, <2>3, <2>4, NoneMissed DEF CountOK, FinalStatus
<1>6. ASSUME NEW r \in runs, RunStep(r) PROVE CountOK'
  <2>1. exec' = exec \/ (exec = "race" /\ exec' \in {"check", "crashed"})
    BY <1>6, CallsKeepTheirNames
  <2>2. Undisturbed => exec \notin Final
    BY <1>6 DEF FinalInv, LeftOK
  <2> QED BY <1>1, <2>1, <2>2 DEF CountOK, Final
<1> QED BY <1>2, <1>3, <1>4, <1>4a, <1>5, <1>6 DEF Next, ExecStep

-----------------------------------------------------------------------------
(* Theorems.                                                               *)

LEMMA BatchInvInit == Init => BatchInv
<1> SUFFICES ASSUME Init PROVE BatchInv
  OBVIOUS
<1>1. InMap = {} /\ Running = {} /\ Cardinality({}) = 0
  BY FS_EmptySet DEF Init, InMap, Running
<1>2. 0 \in 0 .. Cardinality(Items)
  BY FS_CardinalityType, BatchAssumption
<1>3. BatchTypeOK
  BY <1>2, BatchAssumption DEF Init, BatchTypeOK, NoTally, Statuses
<1>4. RunsOK /\ OwnerOK
  BY DEF Init, RunsOK, OwnerOK, ItemRunsOnce
<1>5. MapOK /\ QuietOK
  BY <1>1, BatchAssumption DEF Init, MapOK, QuietOK
<1> QED BY <1>3, <1>4, <1>5 DEF BatchInv

LEMMA BatchInvNext == BatchInv /\ [Next]_vars => BatchInv'
<1>1. ASSUME BatchInv, Next PROVE BatchInv'
  <2>1. BatchTypeOK' /\ RunsOK' /\ OwnerOK' /\ MapOK'
    BY <1>1, TypeStep, OwnerStep, MapStep
  <2> QED BY <1>1, <2>1, QuietStep DEF BatchInv
<1>2. ASSUME BatchInv, UNCHANGED vars PROVE BatchInv'
  <2>1. InMap' = InMap /\ Running' = Running
    BY <1>2 DEF vars, execVars, InMap, Running
  <2>2. BatchTypeOK' /\ RunsOK' /\ OwnerOK'
    BY <1>2 DEF vars, execVars, BatchInv, BatchTypeOK, RunsOK, OwnerOK, ItemRunsOnce
  <2>3. MapOK' /\ QuietOK'
    BY <1>2, <2>1 DEF vars, execVars, BatchInv, MapOK, QuietOK, Undisturbed
  <2> QED BY <2>2, <2>3 DEF BatchInv
<1> QED BY <1>1, <1>2

(* The inductive invariant of the executor.                                *)
THEOREM BatchInvariant == Spec => []BatchInv
BY BatchInvInit, BatchInvNext, PTL DEF Spec

(* Type correctness of a batch, its items, its calls and its executor.     *)
THEOREM BatchTypeCorrect == Spec => []BatchTypeOK
<1>1. BatchInv => BatchTypeOK BY DEF BatchInv
<1> QED BY <1>1, BatchInvariant, PTL

(* The atomic claim of runItem: an item gets one task, however many calls  *)
(* the loop makes for it and whatever fails.                               *)
THEOREM ItemsRunOnce == Spec => []ItemRunsOnce
<1>1. BatchInv => ItemRunsOnce BY DEF BatchInv, OwnerOK
<1> QED BY <1>1, BatchInvariant, PTL

(* The plan's limit bounds the map always, and the running items as long   *)
(* as no call overlaps another for its item and nothing fails.             *)
THEOREM LimitIsKept == Spec => []ConcurrencyHeld
<1>1. BatchInv => ConcurrencyHeld
  BY DEF BatchInv, MapOK, QuietOK, ConcurrencyHeld
<1> QED BY <1>1, BatchInvariant, PTL

LEMMA FinalInvInit == Init => FinalInv
BY DEF Init, FinalInv, StatusOK, LeftOK, CountOK, Looping, Final

LEMMA FinalInvNext == BatchInv /\ FinalInv /\ [Next]_vars => FinalInv'
<1>1. ASSUME BatchInv, FinalInv, Next PROVE FinalInv'
  BY <1>1, StatusStep, LeftStep, CountStep DEF FinalInv
<1>2. ASSUME FinalInv, UNCHANGED vars PROVE FinalInv'
  BY <1>2 DEF vars, execVars, FinalInv, StatusOK, LeftOK, CountOK, Missed, Undisturbed
<1> QED BY <1>1, <1>2

(* A finished batch has left no item behind, and undisturbed its status is *)
(* the one its rows add up to: the executor leaves its loop only with no   *)
(* item pending and no call under way, so nothing moves between the count  *)
(* of finalizeBatch, its look at the batch and its write.                  *)
THEOREM FinalStatusIsKept == Spec => []FinalStatusIsTrue
<1>1. BatchInv /\ FinalInv => FinalStatusIsTrue
  <2> SUFFICES ASSUME BatchInv, FinalInv, exec = "done"
               PROVE  FinalStatusIsTrue
    BY DEF FinalStatusIsTrue
  <2>1. \A i \in Items : itemRow[i] # "pending"
    BY DEF FinalInv, LeftOK, Final
  <2>2. ASSUME Undisturbed PROVE \A i \in Items : itemRow[i] # "running"
    <3>1. runs = {}
      BY <2>2 DEF FinalInv, LeftOK, Final
    <3> QED BY <2>2, <3>1 DEF BatchInv, QuietOK, Running
  <2>3. ASSUME Undisturbed, batch # "cancelled"
        PROVE  batch = "completed" <=> \A i \in Items : itemRow[i] = "completed"
    <3>1. \A i \in Items : itemRow[i] \in {"completed", "failed", "cancelled"}
      BY <2>1, <2>2, <2>3 DEF BatchInv, BatchTypeOK
    <3>2. Missed = {} <=> \A i \in Items : itemRow[i] = "completed"
      BY <3>1 DEF Missed
    <3> QED BY <2>3, <3>2 DEF FinalInv, CountOK
  <2> QED BY <2>1, <2>2, <2>3 DEF FinalStatusIsTrue
<1> QED BY <1>1, BatchInvInit, BatchInvNext, FinalInvInit, FinalInvNext, PTL DEF Spec
-----------------------------------------------------------------------------
(* A call past its claim works on a running item: it alone will end it.    *)
OwnersRun == \A r \in runs : r.at # "claim" => itemRow[r.item] = "running"

LEMMA SameOwners ==
  ASSUME BatchInv, OwnersRun,
         \A r \in runs' \ runs : r.at = "claim",
         \A i \in Items : itemRow'[i] = itemRow[i] \/ itemRow[i] = "pending"
  PROVE  OwnersRun'
<1> SUFFICES ASSUME NEW r \in runs', r.at # "claim"
             PROVE  itemRow'[r.item] = "running"
  BY DEF OwnersRun
<1>1. r \in runs
  OBVIOUS
<1>2. r.item \in Items
  BY <1>1 DEF BatchInv, BatchTypeOK
<1>3. itemRow[r.item] = "running"
  BY <1>1 DEF OwnersRun
<1> QED BY <1>2, <1>3

(* What a call does to the row of its item and to the tasks: it claims a   *)
(* pending item, makes one task, and ends its own item past the claim.     *)
LEMMA RunStepRows ==
  ASSUME BatchInv, NEW r \in runs, RunStep(r)
  PROVE  /\ r.item \in Items
         /\ \/ /\ UNCHANGED itemRow
               /\ \A s \in runs' : s.at # "claim" =>
                    s \in runs \/ (r.at # "claim" /\ s.item = r.item)
               /\ \/ UNCHANGED tasks
                  \/ /\ r.at = "dispatch"
                     /\ tasks' = [tasks EXCEPT ![r.item] = 1] /\ tasks[r.item] = 0
            \/ /\ r.at = "claim" /\ itemRow[r.item] = "pending"
               /\ itemRow' = [itemRow EXCEPT ![r.item] = "running"]
               /\ \A s \in runs' : s \in runs \/ s.item = r.item
               /\ UNCHANGED tasks
            \/ /\ r.at # "claim" /\ runs' = runs \ {r}
               /\ \E st \in {"completed", "failed"} :
                    itemRow' = [itemRow EXCEPT ![r.item] = st]
               /\ UNCHANGED tasks
<1> USE DEF BatchInv
<1>1. r.item \in Items
  BY DEF BatchTypeOK
<1>2. ASSUME NEW to \in Ats, Goes(r, to)
      PROVE  \A s \in runs' : s \in runs \/ s.item = r.item
  <2>1. runs' = (runs \ {r}) \cup {[r EXCEPT !.at = to]}
    BY <1>2 DEF Goes
  <2>2. [r EXCEPT !.at = to].item = r.item
    BY MovedRun
  <2> QED BY <2>1, <2>2
<1>3. ASSUME NEW rejected \in BOOLEAN, Settle(r, rejected)
      PROVE  runs' = runs \ {r}
  BY <1>3 DEF Settle
<1>4. CASE Claim(r)
  BY <1>1, <1>2, <1>3, <1>4 DEF Claim, Wins, Ats
<1>5. CASE Announce(r)
  BY <1>1, <1>2, <1>3, <1>5 DEF Announce, Ats
<1>6. CASE Dispatch(r)
  <2>1. r.at = "dispatch" /\ UNCHANGED itemRow
    BY <1>6 DEF Dispatch
  <2>2. \A s \in runs' : s \in runs \/ s.item = r.item
    BY <1>2, <1>6 DEF Dispatch, Ats
  <2>3. tasks[r.item] = 0
    BY <2>1 DEF OwnerOK
  <2>4. UNCHANGED tasks \/ tasks' = [tasks EXCEPT ![r.item] = 1]
    <3>1. UNCHANGED tasks \/ tasks' = [tasks EXCEPT ![r.item] = @ + 1]
      BY <1>6 DEF Dispatch
    <3> QED BY <2>3, <3>1
  <2> QED BY <1>1, <2>1, <2>2, <2>3, <2>4
<1>7. CASE FailItem(r)
  BY <1>1, <1>3, <1>7 DEF FailItem, EndItem
<1>8. CASE Poll(r)
  BY <1>1, <1>3, <1>8 DEF Poll, EndItem
<1> QED BY <1>4, <1>5, <1>6, <1>7, <1>8 DEF RunStep

LEMMA OwnersGoOn ==
  ASSUME BatchInv, OwnersRun, NEW r \in runs, RunStep(r)
  PROVE  OwnersRun'
<1> USE DEF OwnersRun
<1>1. r.item \in Items /\ \A s \in runs : s.item \in Items
  BY DEF BatchInv, BatchTypeOK
<1>2. \A s, u \in runs :
        s.at # "claim" /\ u.at # "claim" /\ s.item = u.item => s = u
  BY DEF BatchInv, OwnerOK
<1>3. CASE /\ UNCHANGED itemRow
           /\ \A s \in runs' : s.at # "claim" =>
                s \in runs \/ (r.at # "claim" /\ s.item = r.item)
  BY <1>3
<1>4. CASE /\ itemRow' = [itemRow EXCEPT ![r.item] = "running"]
           /\ \A s \in runs' : s \in runs \/ s.item = r.item
  BY <1>1, <1>4 DEF BatchInv, BatchTypeOK
<1>5. CASE /\ r.at # "claim" /\ runs' = runs \ {r}
           /\ \E st \in {"completed", "failed"} :
                itemRow' = [itemRow EXCEPT ![r.item] = st]
  BY <1>1, <1>2, <1>5 DEF BatchInv, BatchTypeOK
<1> QED BY <1>3, <1>4, <1>5, RunStepRows

LEMMA OwnersStep ==
  ASSUME BatchInv, OwnersRun, [Next]_vars
  PROVE  OwnersRun'
<1>1. CASE Create \/ Cancel \/ Start \/ Drained \/ Count \/ Look \/ Finalize \/ ExecFails
           \/ UNCHANGED vars
  BY <1>1, SameOwners
     DEF Create, Cancel, Start, Drained, Count, Look, Finalize, ExecFails, vars
<1>2. CASE Check
  <2>1. \A i \in Items : itemRow[i] = "pending" \/ itemRow'[i] = itemRow[i]
    BY <1>2 DEF Check, AfterCancel
  <2> QED BY <1>2, <2>1, SameOwners DEF Check
<1>3. CASE Pull
  BY <1>3, SameOwners DEF Pull
<1>4. CASE Crash
  BY <1>4 DEF Crash, OwnersRun
<1>5. ASSUME NEW i \in Items, NEW how \in {"completed", "failed"}, TaskEnds(i, how)
      PROVE  OwnersRun'
  BY <1>5, SameOwners DEF TaskEnds
<1> QED BY <1>1, <1>2, <1>3, <1>4, <1>5, OwnersGoOn DEF Next, ExecStep

(* Every step of the batch is one of ItemLife on its items, or none.       *)
LEMMA StepsOfTheItems ==
  ASSUME BatchInv, OwnersRun, [Next]_vars
  PROVE  [Life!Next]_<<itemRow, tasks>>
<1>1. ASSUME NEW r \in runs, RunStep(r)
      PROVE  [Life!Next]_<<itemRow, tasks>>
  <2>1. r.item \in Items /\ (r.at # "claim" => itemRow[r.item] = "running")
    BY <1>1, RunStepRows DEF OwnersRun
  <2>2. CASE UNCHANGED itemRow
    BY <1>1, <2>1, <2>2, RunStepRows DEF Life!Next, Life!Make
  <2>3. CASE /\ itemRow[r.item] = "pending"
             /\ itemRow' = [itemRow EXCEPT ![r.item] = "running"]
             /\ UNCHANGED tasks
    BY <2>1, <2>3 DEF Life!Next, Life!Claim
  <2>4. CASE /\ r.at # "claim"
             /\ \E st \in {"completed", "failed"} :
                  itemRow' = [itemRow EXCEPT ![r.item] = st]
             /\ UNCHANGED tasks
    BY <2>1, <2>4 DEF Life!Next, Life!End
  <2> QED BY <1>1, <2>2, <2>3, <2>4, RunStepRows
<1>2. CASE Check
  BY <1>2 DEF Check, AfterCancel, Life!Next, Life!CancelTheRest
<1>3. CASE \/ Create \/ Cancel \/ Start \/ Pull \/ Drained \/ Count \/ Look
           \/ Finalize \/ ExecFails \/ Crash \/ UNCHANGED vars
           \/ \E i \in Items, how \in {"completed", "failed"} : TaskEnds(i, how)
  BY <1>3 DEF Create, Cancel, Start, Pull, Drained, Count, Look, Finalize,
              ExecFails, Crash, TaskEnds, vars
<1> QED BY <1>1, <1>2, <1>3 DEF Next, ExecStep

(* An item has one owner past its claim, and while it has one it runs: no  *)
(* second task, no late call and no cancel breaks the life that ItemLife   *)
(* gives it (ImplementsItemLife).                                          *)
THEOREM BatchImplementsItemLife == Spec => ImplementsItemLife
<1>1. Init => OwnersRun
  BY DEF Init, OwnersRun
<1>2. Init => Life!Init
  BY DEF Init, Life!Init
<1>3. BatchInv /\ OwnersRun /\ [Next]_vars => OwnersRun'
  BY OwnersStep
<1>4. BatchInv /\ OwnersRun /\ [Next]_vars => [Life!Next]_<<itemRow, tasks>>
  BY StepsOfTheItems
<1> QED
  BY <1>1, <1>2, <1>3, <1>4, BatchInvariant, PTL
     DEF Spec, ImplementsItemLife, Life!Spec
=============================================================================
