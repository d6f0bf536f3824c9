-------------------------- MODULE GenerateTaskProofs --------------------------
(* Proofs about GenerateTask, for any clients and any bounds.              *)
EXTENDS GenerateTask, TLAPS

RunType == [id: 1 .. started, at: {"scrape", "call", "persist", "announce"},
            attempt: 1 .. MAX_ATTEMPTS, parts: 0 .. MAX_CONTINUATIONS,
            outcome: {"none", "completed", "failed", "awaiting_user"}]
ReplyType == [at: {"idle", "flip", "spawn", "patch"}, browser: BOOLEAN,
              known: BOOLEAN]
RowType == [status: Statuses, lane: Lanes, intake: BOOLEAN, handoff: BOOLEAN]

CountersOK ==
  /\ started \in Nat /\ parks \in Nat /\ answers \in Nat
  /\ failures \in Nat /\ overlapped \in BOOLEAN
  /\ ~up => boots < MaxBoots

(* A run has an outcome before it is written down.                         *)
OutcomesOK ==
  \A r \in runs : r.at \in {"persist", "announce"} => r.outcome # "none"

(* Before its row, a task has nothing.                                     *)
FreshOK ==
  row.status = "none" =>
    /\ runs = {} /\ started = 0 /\ told = "none" /\ Calling = {}
    /\ control = NoCall

Ops == {"pause", "resume", "confirm", "delete"}

ControlOK == control = NoCall \/ (control.op \in Ops /\ control.seen \in ReadBy(control.op))

Working(r) == r.at \in {"scrape", "call", "persist"}
Ending(r)  == r.at = "announce" /\ r.outcome \in Ended
NoneWorks  == \A r \in runs : ~Working(r)

(* A park waits for its reply, or a reply has yet to start what it asks.   *)
Owed ==
  row.status = "awaiting_user"
    \/ \E c \in Clients : reply[c].at \in {"flip", "spawn"}

(* Unless a call overtakes another: one run works at a time and none while *)
(* the row is parked or a reply is under way, and a park whose answer is   *)
(* still to come has not been counted as answered.                         *)
CalmOK ==
  ~overlapped =>
    /\ \A r, s \in runs : Working(r) /\ Working(s) => r = s
    /\ row.status = "awaiting_user" \/ Calling # {} => NoneWorks
    /\ \A c, d \in Calling : c = d
    /\ row.status = "awaiting_user" => row.intake
    /\ answers <= parks
    /\ Owed => answers < parks

(* If no write fails either, an end that is about to be announced, or was, *)
(* is in the row, and nothing is left that could change it but a delete.   *)
Rests(status) == row.status \in {status, "deleted"} /\ Calling = {} /\ NoneWorks

EndsOK ==
  ~overlapped /\ failures = 0 =>
    /\ \A r \in runs : Ending(r) => Rests(r.outcome)
    /\ \A c \in Clients :
         reply[c].at \in {"spawn", "patch"} => row.status \in {"completed", "deleted"}
    /\ told \in Ended => Rests(told)

GenInv ==
  /\ GenTypeOK /\ CountersOK /\ OutcomesOK
  /\ FreshOK /\ ControlOK
  /\ CalmOK /\ EndsOK

-----------------------------------------------------------------------------
(* Types, and what each kind of step does.                                 *)

LEMMA GenTypes ==
  GenTypeOK <=> /\ up \in BOOLEAN /\ boots \in 0 .. MaxBoots
                /\ row \in RowType /\ stale \in BOOLEAN
                /\ runs \subseteq RunType
                /\ reply \in [Clients -> ReplyType]
                /\ control.op \in {"none", "pause", "resume", "confirm", "delete"}
                /\ told \in {"none", "ask", "completed", "failed"}
BY DEF GenTypeOK, RowType, RunType, ReplyType

LEMMA GenInitInv == Init => GenInv
<1> SUFFICES ASSUME Init PROVE GenInv
  OBVIOUS
<1>1. GenTypeOK /\ CountersOK
  <2>1. row \in RowType
    BY DEF Init, RowType, Statuses, Lanes
  <2>2. Quiet \in ReplyType
    BY DEF Quiet, ReplyType
  <2>3. reply \in [Clients -> ReplyType] /\ runs \subseteq RunType
    BY <2>2 DEF Init
  <2>4. control.op \in {"none", "pause", "resume", "confirm", "delete"}
    BY DEF Init, NoCall
  <2>5. /\ up \in BOOLEAN /\ boots \in 0 .. MaxBoots /\ stale \in BOOLEAN
        /\ told \in {"none", "ask", "completed", "failed"}
    <3>1. MaxBoots \in Nat
      BY GenerateAssumption
    <3>2. boots \in 0 .. MaxBoots
      BY <3>1 DEF Init
    <3> QED BY <3>2 DEF Init
  <2> QED BY <2>1, <2>3, <2>4, <2>5, GenTypes DEF Init, CountersOK
<1>2. OutcomesOK /\ FreshOK /\ ControlOK
  BY DEF Init, OutcomesOK, FreshOK, ControlOK, Calling, Quiet
<1>3. CalmOK /\ EndsOK
  BY DEF Init, CalmOK, EndsOK, Owed, Calling, Quiet, Ended
<1> QED BY <1>1, <1>2, <1>3 DEF GenInv

LEMMA WriteEffect ==
  ASSUME row \in RowType, NEW new \in RowType, Write(new)
  PROVE  /\ row' \in RowType /\ stale' \in BOOLEAN
         /\ row.status = "deleted" => row' = row
         /\ row.status # "deleted" => row' = new
BY DEF Write

LEMMA RowWith ==
  ASSUME row \in RowType, NEW status \in Statuses
  PROVE  /\ [row EXCEPT !.status = status] \in RowType
         /\ [row EXCEPT !.status = status].status = status
         /\ [row EXCEPT !.status = status].intake = row.intake
BY DEF RowType

(* A runner goes on working with a run that is the same or has an outcome. *)
LEMMA RunnerEffect ==
  ASSUME GenTypeOK, NEW r \in runs, Runner(r)
  PROVE  /\ Working(r)
         /\ \E new \in RunType : /\ runs' = (runs \ {r}) \cup {new}
                                 /\ Working(new)
                                 /\ new.at = "persist" => new.outcome # "none"
         /\ UNCHANGED <<procVars, row, stale, started, reply, control, told, boundVars,
                        histVars>>
<1>1. r \in RunType
  BY GenTypes
<1>2. ASSUME NEW new \in RunType, Working(new), new.at = "persist" => new.outcome # "none",
             Working(r), Steps(r, new)
      PROVE  /\ Working(r)
             /\ \E n \in RunType : /\ runs' = (runs \ {r}) \cup {n}
                                   /\ Working(n)
                                   /\ n.at = "persist" => n.outcome # "none"
             /\ UNCHANGED <<procVars, row, stale, started, reply, control, told, boundVars,
                            histVars>>
  BY <1>2 DEF Steps
<1>3. ASSUME NEW outcome \in {"completed", "failed", "awaiting_user"}, Working(r),
             Finishes(r, outcome)
      PROVE  /\ Working(r)
             /\ \E n \in RunType : /\ runs' = (runs \ {r}) \cup {n}
                                   /\ Working(n)
                                   /\ n.at = "persist" => n.outcome # "none"
             /\ UNCHANGED <<procVars, row, stale, started, reply, control, told, boundVars,
                            histVars>>
  <2> DEFINE new == [r EXCEPT !.at = "persist", !.outcome = Recorded(r, outcome)]
  <2>1. Recorded(r, outcome) \in {"completed", "failed", "awaiting_user"}
    BY DEF Recorded
  <2>2. new \in RunType /\ new.at = "persist" /\ new.outcome # "none"
    BY <1>1, <2>1 DEF RunType
  <2>3. Steps(r, new)
    BY <1>3 DEF Finishes
  <2> HIDE DEF new
  <2> QED BY <1>2, <1>3, <2>2, <2>3 DEF Working
<1>4. ASSUME NEW ok \in BOOLEAN, Scraped(r, ok) PROVE Working(r)
  BY <1>4 DEF Scraped, Working
<1>5. ASSUME NEW ok \in BOOLEAN, Scraped(r, ok)
      PROVE  \/ Finishes(r, "completed")
             \/ Steps(r, [r EXCEPT !.at = "call"])
  BY <1>5 DEF Scraped
<1>6. /\ [r EXCEPT !.at = "call"] \in RunType /\ [r EXCEPT !.at = "call"].at = "call"
      /\ r.at = "call" => /\ [r EXCEPT !.attempt = @ + 1].at = "call"
                          /\ [r EXCEPT !.parts = @ + 1, !.attempt = 1].at = "call"
      /\ r.attempt < MAX_ATTEMPTS => [r EXCEPT !.attempt = @ + 1] \in RunType
      /\ r.parts < MAX_CONTINUATIONS =>
           [r EXCEPT !.parts = @ + 1, !.attempt = 1] \in RunType
  <2>1. /\ r.attempt \in 1 .. 2 /\ r.parts \in 0 .. 2
    BY <1>1 DEF RunType, MAX_ATTEMPTS, MAX_CONTINUATIONS
  <2>2. /\ r.attempt < 2 => r.attempt + 1 \in 1 .. 2
        /\ r.parts < 2 => r.parts + 1 \in 0 .. 2
        /\ 1 \in 1 .. 2
    BY <2>1
  <2>3. ASSUME NEW n \in 1 .. 2
        PROVE  /\ [r EXCEPT !.attempt = n] \in RunType
               /\ r.at = "call" => [r EXCEPT !.attempt = n].at = "call"
    BY <1>1 DEF RunType, MAX_ATTEMPTS
  <2>4. ASSUME NEW n \in 0 .. 2, NEW k \in 1 .. 2
        PROVE  /\ [r EXCEPT !.parts = n, !.attempt = k] \in RunType
               /\ r.at = "call" => [r EXCEPT !.parts = n, !.attempt = k].at = "call"
    BY <1>1 DEF RunType, MAX_ATTEMPTS, MAX_CONTINUATIONS
  <2>5. [r EXCEPT !.at = "call"] \in RunType /\ [r EXCEPT !.at = "call"].at = "call"
    BY <1>1 DEF RunType
  <2>6. r.at = "call" => /\ [r EXCEPT !.attempt = r.attempt + 1].at = "call"
                         /\ [r EXCEPT !.parts = r.parts + 1, !.attempt = 1].at = "call"
    BY <1>1 DEF RunType
  <2>7. r.attempt < MAX_ATTEMPTS => [r EXCEPT !.attempt = r.attempt + 1] \in RunType
    BY <2>2, <2>3 DEF MAX_ATTEMPTS
  <2>8. r.parts < MAX_CONTINUATIONS =>
          [r EXCEPT !.parts = r.parts + 1, !.attempt = 1] \in RunType
    BY <2>2, <2>4 DEF MAX_CONTINUATIONS
  <2> QED BY <2>5, <2>6, <2>7, <2>8
<1>7. ASSUME NEW asks \in BOOLEAN, NEW truncated \in BOOLEAN, CallText(r, asks, truncated)
      PROVE  /\ r.at = "call"
             /\ \/ \E o \in {"completed", "failed", "awaiting_user"} : Finishes(r, o)
                \/ /\ r.parts < MAX_CONTINUATIONS
                   /\ Steps(r, [r EXCEPT !.parts = @ + 1, !.attempt = 1])
  BY <1>7 DEF CallText
<1>8. ASSUME CallEmpty(r)
      PROVE  /\ r.at = "call"
             /\ \/ \E o \in {"completed", "failed", "awaiting_user"} : Finishes(r, o)
                \/ /\ r.attempt < MAX_ATTEMPTS
                   /\ Steps(r, [r EXCEPT !.attempt = @ + 1])
  BY <1>8 DEF CallEmpty
<1>9. ASSUME CallThrows(r)
      PROVE  /\ r.at = "call"
             /\ \E o \in {"completed", "failed", "awaiting_user"} : Finishes(r, o)
  BY <1>9 DEF CallThrows
<1>10. CASE \E ok \in BOOLEAN : Scraped(r, ok)
  BY <1>2, <1>3, <1>4, <1>5, <1>6, <1>10 DEF Working
<1>11. CASE \E asks, truncated \in BOOLEAN : CallText(r, asks, truncated)
  BY <1>2, <1>3, <1>6, <1>7, <1>11 DEF Working
<1>12. CASE CallEmpty(r)
  BY <1>2, <1>3, <1>6, <1>8, <1>12 DEF Working
<1>13. CASE CallThrows(r)
  BY <1>3, <1>9, <1>13 DEF Working
<1> QED BY <1>10, <1>11, <1>12, <1>13 DEF Runner

(* Writing an outcome down, as what it leaves.                             *)
LEMMA PersistEffect ==
  ASSUME GenTypeOK, CountersOK, OutcomesOK, NEW r \in runs, NEW ok \in BOOLEAN,
         Persist(r, ok)
  PROVE  /\ r.at = "persist" /\ r.outcome \in {"completed", "failed", "awaiting_user"}
         /\ \/ runs' = runs \ {r}
            \/ \E new \in RunType : /\ runs' = (runs \ {r}) \cup {new}
                                    /\ new.at = "announce" /\ new.outcome = r.outcome
         /\ row' \in RowType /\ stale' \in BOOLEAN
         /\ row.status = "deleted" => row' = row
         /\ \/ row' = row /\ parks' = parks
            \/ /\ row'.status = r.outcome
               /\ row'.intake = (r.outcome = "awaiting_user")
               /\ parks' = parks + (IF r.outcome = "awaiting_user" THEN 1 ELSE 0)
         /\ failures' \in Nat /\ failures <= failures'
         /\ \/ failures' # 0 \/ row.status \in {"deleted", "awaiting_user"}
            \/ row'.status = r.outcome
         /\ UNCHANGED <<procVars, started, reply, control, told, replies, controls,
                        answers, overlapped>>
<1> DEFINE park == r.outcome = "awaiting_user"
           new  == [r EXCEPT !.at = "announce"]
           written == ok /\ row.status # "deleted"
           text == [row EXCEPT !.status = r.outcome, !.intake = park, !.handoff = FALSE]
<1>1. /\ r \in RunType /\ r.at = "persist" /\ row \in RowType
      /\ r.outcome \in {"completed", "failed", "awaiting_user"}
  BY GenTypes DEF Persist, OutcomesOK, RunType
<1>2. new \in RunType /\ new.at = "announce" /\ new.outcome = r.outcome
  BY <1>1 DEF RunType
<1>3. /\ IF written /\ (park \/ row.status # "awaiting_user")
         THEN Write(text) ELSE UNCHANGED <<row, stale>>
      /\ parks' = parks + (IF written /\ park THEN 1 ELSE 0)
      /\ IF ok THEN UNCHANGED failures ELSE Fails
      /\ runs' = runs \ {r} \/ runs' = (runs \ {r}) \cup {new}
      /\ UNCHANGED <<procVars, started, reply, control, told, replies, controls,
                     answers, overlapped>>
  BY DEF Persist
<1>4. /\ text \in RowType /\ text.status = r.outcome /\ text.intake = park
  BY <1>1 DEF RowType, Statuses, Ended
<1>5. /\ failures' \in Nat /\ failures <= failures' /\ (~ok => failures' # 0)
  BY <1>3 DEF Fails, CountersOK
<1>6. parks' = parks \/ (written /\ park /\ parks' = parks + 1)
  BY <1>3 DEF CountersOK
<1>7. CASE written /\ (park \/ row.status # "awaiting_user")
  <2>1. row' = text /\ stale' \in BOOLEAN
    BY <1>1, <1>3, <1>4, <1>7, WriteEffect
  <2>2. parks' = parks + (IF park THEN 1 ELSE 0)
    BY <1>3, <1>7
  <2> HIDE DEF text, new
  <2> QED BY <1>1, <1>2, <1>3, <1>4, <1>5, <1>7, <2>1, <2>2
<1>8. CASE ~(written /\ (park \/ row.status # "awaiting_user"))
  <2>1. row' = row /\ stale' = stale /\ parks' = parks
    BY <1>3, <1>6, <1>8
  <2>2. stale' \in BOOLEAN
    BY <2>1, GenTypes
  <2>3. ~ok \/ row.status \in {"deleted", "awaiting_user"}
    BY <1>8
  <2> HIDE DEF text, new, written
  <2> QED BY <1>1, <1>2, <1>3, <1>5, <2>1, <2>2, <2>3
<1> QED BY <1>7, <1>8

LEMMA MovedReply ==
  ASSUME GenTypeOK, NEW c \in Clients, NEW to \in ReplyType, Goes(c, to)
  PROVE  /\ reply' \in [Clients -> ReplyType] /\ reply'[c] = to
         /\ \A d \in Clients \ {c} : reply'[d] = reply[d]
<1>1. reply \in [Clients -> ReplyType]
  BY GenTypes
<1> QED BY <1>1 DEF Goes

Stays(c) == \A d \in Clients \ {c} : reply'[d] = reply[d]

LEMMA QuietIsReply == Quiet \in ReplyType /\ Quiet.at = "idle"
BY DEF Quiet, ReplyType

(* The four steps of a reply after its read.                               *)
LEMMA ResumeEffect ==
  ASSUME GenTypeOK, CountersOK, NEW c \in Clients, NEW ok \in BOOLEAN, ReplyResume(c, ok)
  PROVE  /\ reply[c].at = "flip" /\ reply'[c].at = "idle" /\ Stays(c)
         /\ reply' \in [Clients -> ReplyType]
         /\ \/ /\ UNCHANGED <<row, stale, runs, started, answers>> /\ failures' # 0
            \/ /\ row' \in RowType /\ stale' \in BOOLEAN /\ UNCHANGED failures
               /\ row.status = "deleted" => row' = row
               /\ row.status # "deleted" => row'.status = "executing"
               /\ runs' = runs \cup {Run("call", "none")}
               /\ started' = started + 1 /\ answers' = answers + 1
         /\ failures' \in Nat /\ failures <= failures'
         /\ UNCHANGED <<procVars, control, told, replies, controls, parks, overlapped>>
<1>1. /\ reply'[c].at = "idle" /\ Stays(c) /\ reply' \in [Clients -> ReplyType]
  BY QuietIsReply, MovedReply DEF ReplyResume, Stays
<1>2. CASE ok
  <2> DEFINE text == [row EXCEPT !.status = "executing"]
  <2>1. row \in RowType /\ text \in RowType /\ text.status = "executing"
    BY GenTypes, RowWith DEF Statuses
  <2>2. Write(text)
    BY <1>2 DEF ReplyResume
  <2> HIDE DEF text
  <2>3. /\ row' \in RowType /\ stale' \in BOOLEAN
        /\ row.status = "deleted" => row' = row
        /\ row.status # "deleted" => row'.status = "executing"
    BY <2>1, <2>2, WriteEffect
  <2> QED BY <1>1, <1>2, <2>3 DEF ReplyResume, CountersOK
<1>3. CASE ~ok
  BY <1>1, <1>3 DEF ReplyResume, CountersOK, Fails
<1> QED BY <1>2, <1>3

LEMMA FlipEffect ==
  ASSUME GenTypeOK, CountersOK, NEW c \in Clients, NEW ok \in BOOLEAN, HandoffFlip(c, ok)
  PROVE  /\ reply[c].at = "flip" /\ reply'[c].at \in {"spawn", "patch"} /\ Stays(c)
         /\ reply' \in [Clients -> ReplyType]
         /\ row' \in RowType /\ stale' \in BOOLEAN
         /\ \/ /\ UNCHANGED row /\ failures' # 0
            \/ /\ row.status = "deleted" => row' = row
               /\ row.status # "deleted" => row'.status = "completed"
         /\ failures' \in Nat /\ failures <= failures'
         /\ UNCHANGED <<procVars, runs, started, control, told, replies, controls, histVars>>
<1> DEFINE to == [reply[c] EXCEPT !.at = IF reply[c].known THEN "patch" ELSE "spawn"]
<1>1. reply[c] \in ReplyType /\ row \in RowType
  BY GenTypes
<1>2. to \in ReplyType /\ to.at \in {"spawn", "patch"}
  BY <1>1 DEF ReplyType
<1>3. Goes(c, to) /\ reply[c].at = "flip"
      /\ UNCHANGED <<procVars, runs, started, control, told, replies, controls, histVars>>
  BY DEF HandoffFlip
<1> HIDE DEF to
<1>4. /\ reply'[c].at \in {"spawn", "patch"} /\ Stays(c)
      /\ reply' \in [Clients -> ReplyType]
  BY <1>2, <1>3, MovedReply DEF Stays
<1>5. CASE ok
  <2> DEFINE text == HandedOff(c)
  <2>1. text \in RowType /\ text.status = "completed"
    <3>1. reply[c].known \in BOOLEAN
      BY <1>1 DEF ReplyType
    <3> QED BY <1>1, <3>1 DEF HandedOff, RowType, Statuses, Ended
  <2>2. Write(text) /\ UNCHANGED failures
    BY <1>5 DEF HandoffFlip
  <2> HIDE DEF text
  <2>3. /\ row' \in RowType /\ stale' \in BOOLEAN
        /\ row.status = "deleted" => row' = row
        /\ row.status # "deleted" => row'.status = "completed"
    BY <1>1, <2>1, <2>2, WriteEffect
  <2> QED BY <1>3, <1>4, <2>2, <2>3 DEF CountersOK
<1>6. CASE ~ok
  <2>1. UNCHANGED <<row, stale>> /\ Fails
    BY <1>6 DEF HandoffFlip
  <2>2. stale \in BOOLEAN
    BY GenTypes
  <2> QED BY <1>1, <1>3, <1>4, <2>1, <2>2 DEF CountersOK, Fails
<1> QED BY <1>5, <1>6

LEMMA SpawnEffect ==
  ASSUME GenTypeOK, CountersOK, NEW c \in Clients, NEW admitted \in BOOLEAN,
         HandoffSpawn(c, admitted)
  PROVE  /\ reply[c].at = "spawn" /\ reply'[c].at = "patch" /\ Stays(c)
         /\ reply' \in [Clients -> ReplyType]
         /\ \/ answers' = answers
            \/ answers' = answers + 1 /\ row.status \in Ended
         /\ UNCHANGED <<procVars, row, stale, runs, started, control, told, boundVars,
                        parks, overlapped>>
<1> DEFINE created == admitted /\ row.status \in Ended
           to == [reply[c] EXCEPT !.at = "patch", !.known = created]
<1>1. reply[c] \in ReplyType /\ created \in BOOLEAN
  BY GenTypes
<1>2. to \in ReplyType /\ to.at = "patch"
  <2> HIDE DEF created
  <2> QED BY <1>1 DEF ReplyType
<1>3. /\ Goes(c, to) /\ reply[c].at = "spawn"
      /\ answers' = answers + IF created THEN 1 ELSE 0
      /\ UNCHANGED <<procVars, row, stale, runs, started, control, told, boundVars,
                     parks, overlapped>>
  BY DEF HandoffSpawn
<1> HIDE DEF to
<1>4. /\ reply'[c].at = "patch" /\ Stays(c) /\ reply' \in [Clients -> ReplyType]
  BY <1>2, <1>3, MovedReply DEF Stays
<1> QED BY <1>3, <1>4 DEF CountersOK

LEMMA PatchEffect ==
  ASSUME GenTypeOK, CountersOK, NEW c \in Clients, NEW ok \in BOOLEAN, HandoffPatch(c, ok)
  PROVE  /\ reply[c].at = "patch" /\ reply'[c].at = "idle" /\ Stays(c)
         /\ reply' \in [Clients -> ReplyType]
         /\ row' \in RowType /\ stale' \in BOOLEAN /\ row'.status = row.status
         /\ row.intake => row'.intake
         /\ \/ told' = told /\ failures' # 0
            \/ told' = "completed"
         /\ failures' \in Nat /\ failures <= failures'
         /\ UNCHANGED <<procVars, runs, started, control, replies, controls, histVars>>
<1> DEFINE text == [row EXCEPT !.intake = TRUE, !.handoff = TRUE]
<1>1. row \in RowType /\ stale \in BOOLEAN
  BY GenTypes
<1>2. /\ reply[c].at = "patch" /\ Goes(c, Quiet)
      /\ UNCHANGED <<procVars, runs, started, control, replies, controls, histVars>>
  BY DEF HandoffPatch
<1>3. /\ reply'[c].at = "idle" /\ Stays(c) /\ reply' \in [Clients -> ReplyType]
  BY <1>2, QuietIsReply, MovedReply DEF Stays
<1>4. text \in RowType /\ text.status = row.status /\ text.intake
  BY <1>1 DEF RowType
<1>5. \/ told' = "completed" /\ UNCHANGED <<row, stale, failures>>
      \/ Write(text) /\ told' = "completed" /\ UNCHANGED failures
      \/ Fails /\ UNCHANGED <<row, stale, told>>
  BY DEF HandoffPatch
<1> HIDE DEF text
<1>6. CASE Write(text) /\ told' = "completed" /\ UNCHANGED failures
  <2>1. /\ row' \in RowType /\ stale' \in BOOLEAN /\ row'.status = row.status
        /\ row.intake => row'.intake
    BY <1>1, <1>4, <1>6, WriteEffect
  <2> QED BY <1>2, <1>3, <1>6, <2>1 DEF CountersOK
<1>7. CASE told' = "completed" /\ UNCHANGED <<row, stale, failures>>
  BY <1>1, <1>2, <1>3, <1>7 DEF CountersOK
<1>8. CASE Fails /\ UNCHANGED <<row, stale, told>>
  BY <1>1, <1>2, <1>3, <1>8 DEF CountersOK, Fails
<1> QED BY <1>5, <1>6, <1>7, <1>8

LEMMA ReadEffect ==
  ASSUME GenTypeOK, NEW c \in Clients, NEW browser \in BOOLEAN, ReplyRead(c, browser)
  PROVE  /\ row.status = "awaiting_user" /\ reply[c].at = "idle"
         /\ reply'[c].at = "flip" /\ Stays(c) /\ reply' \in [Clients -> ReplyType]
         /\ overlapped' = (overlapped \/ Calling # {} \/ control # NoCall)
         /\ UNCHANGED <<procVars, row, stale, runs, started, control, told, controls,
                        failures, parks, answers>>
<1> DEFINE to == [at |-> "flip", browser |-> browser, known |-> row.handoff]
<1>1. row \in RowType
  BY GenTypes
<1>2. to \in ReplyType /\ to.at = "flip"
  BY <1>1 DEF ReplyType, RowType
<1>3. Goes(c, to) /\ reply[c].at = "idle"
  BY QuietIsReply DEF ReplyRead, Goes
<1> HIDE DEF to
<1>4. reply'[c].at = "flip" /\ Stays(c) /\ reply' \in [Clients -> ReplyType]
  BY <1>2, <1>3, MovedReply DEF Stays
<1> QED BY <1>3, <1>4 DEF ReplyRead, Parked

LEMMA ControlEffect ==
  ASSUME GenTypeOK, ControlOK, ControlWrite
  PROVE  /\ control # NoCall /\ control' = NoCall /\ row' \in RowType /\ stale' \in BOOLEAN
         /\ row.status = "deleted" => row' = row
         /\ row.status # "deleted" => /\ row'.status = WrittenBy(control.op)
                                      /\ row'.intake = row.intake
         /\ control.op \in Ops /\ control.seen \in ReadBy(control.op)
         /\ overlapped' = (overlapped \/ row.status # control.seen)
         /\ UNCHANGED <<procVars, runs, started, reply, told, boundVars, parks, answers>>
<1> DEFINE text == [row EXCEPT !.status = WrittenBy(control.op)]
<1>1. row \in RowType /\ control.op \in Ops /\ control.seen \in ReadBy(control.op)
      /\ control # NoCall
  BY GenTypes DEF ControlWrite, ControlOK
<1>2. WrittenBy(control.op) \in Statuses
  BY <1>1 DEF WrittenBy, Ops, Statuses, Ended
<1>3. /\ text \in RowType /\ text.status = WrittenBy(control.op)
      /\ text.intake = row.intake
  BY <1>1, <1>2, RowWith
<1>4. Write(text)
  BY DEF ControlWrite
<1> HIDE DEF text
<1>5. /\ row' \in RowType /\ stale' \in BOOLEAN
      /\ row.status = "deleted" => row' = row
      /\ row.status # "deleted" => /\ row'.status = WrittenBy(control.op)
                                   /\ row'.intake = row.intake
  BY <1>1, <1>3, <1>4, WriteEffect
<1> QED BY <1>1, <1>5 DEF ControlWrite

(* The sweeps fail a row that executes or is parked, or do nothing.        *)
SweepsRow ==
  /\ row' \in RowType /\ stale' \in BOOLEAN
  /\ \/ row' = row
     \/ row.status \in {"executing", "awaiting_user"} /\ row'.status = "failed"

LEMMA SweepEffect ==
  ASSUME GenTypeOK,
         Reap \/ \E old \in BOOLEAN : Boot(old)
  PROVE  /\ SweepsRow
         /\ UNCHANGED <<runs, started, reply, control, told, boundVars, histVars>>
<1> DEFINE text == [row EXCEPT !.status = "failed"]
<1>1. row \in RowType /\ stale \in BOOLEAN
  BY GenTypes
<1>2. text \in RowType /\ text.status = "failed"
  BY <1>1, RowWith DEF Statuses, Ended
<1>3. \/ UNCHANGED <<row, stale>>
      \/ row.status \in {"executing", "awaiting_user"} /\ Write(text)
  BY DEF Reap, Reaped, Boot
<1>4. UNCHANGED <<runs, started, reply, control, told, boundVars, histVars>>
  BY DEF Reap, Boot
<1> HIDE DEF text
<1> QED BY <1>1, <1>2, <1>3, <1>4, WriteEffect DEF SweepsRow

LEMMA CreateEffect ==
  ASSUME GenTypeOK, FreshOK, NEW lane \in Lanes, NEW configured \in BOOLEAN,
         Create(lane, configured)
  PROVE  /\ row.status = "none" /\ row' \in RowType /\ row'.status = "executing"
         /\ started' = 1
         /\ \E new : /\ runs' = {new} /\ Working(new) /\ new \in RunType'
                     /\ new.at = "persist" => new.outcome # "none"
         /\ UNCHANGED <<procVars, stale, reply, control, told, boundVars, histVars>>
<1>1. row \in RowType /\ row.status = "none" /\ started = 0
  BY GenTypes DEF Create, FreshOK
<1>2. row' \in RowType /\ row'.status = "executing"
  <2>1. row' = [row EXCEPT !.status = "executing", !.lane = lane]
    BY DEF Create
  <2> QED BY <1>1, <2>1 DEF RowType, Statuses
<1>3. ASSUME NEW at \in {"scrape", "call", "persist"}, NEW outcome \in {"none", "failed"},
             at = "persist" => outcome # "none", runs' = {Run(at, outcome)}
      PROVE  \E new : /\ runs' = {new} /\ Working(new) /\ new \in RunType'
                      /\ new.at = "persist" => new.outcome # "none"
  <2> DEFINE new == Run(at, outcome)
  <2>1. started' = 1
    BY DEF Create
  <2>2. /\ Working(new) /\ new \in RunType' /\ new.at = at /\ new.outcome = outcome
    BY <1>1, <2>1 DEF Working, Run, RunType, MAX_ATTEMPTS, MAX_CONTINUATIONS
  <2> HIDE DEF new
  <2>3. runs' = {new}
    BY <1>3 DEF new
  <2> QED BY <1>3, <2>2, <2>3
<1>4. \E at \in {"scrape", "call", "persist"}, outcome \in {"none", "failed"} :
        /\ at = "persist" => outcome # "none"
        /\ runs' = {Run(at, outcome)}
  BY DEF Create, Lanes
<1> QED BY <1>1, <1>2, <1>3, <1>4 DEF Create

(* Ids only grow, so old runs keep their type.                             *)
LEMMA OldRuns ==
  ASSUME GenTypeOK, CountersOK, started' \in Nat, started <= started'
  PROVE  /\ runs \subseteq RunType' /\ RunType \subseteq RunType'
<1>1. 1 .. started \subseteq 1 .. started'
  BY DEF CountersOK
<1>2. RunType \subseteq RunType'
  BY <1>1 DEF RunType
<1> QED BY <1>2, GenTypes

LEMMA GenTypeStep ==
  ASSUME GenInv, Next
  PROVE  GenTypeOK' /\ CountersOK' /\ OutcomesOK'
<1> DEFINE Good == /\ GenTypeOK' /\ CountersOK' /\ OutcomesOK'
<1>0. /\ GenTypeOK /\ CountersOK /\ OutcomesOK /\ FreshOK /\ ControlOK
      /\ up \in BOOLEAN /\ boots \in 0 .. MaxBoots
      /\ row \in RowType /\ stale \in BOOLEAN
      /\ runs \subseteq RunType
      /\ reply \in [Clients -> ReplyType]
      /\ control.op \in {"none", "pause", "resume", "confirm", "delete"}
      /\ told \in {"none", "ask", "completed", "failed"}
      /\ started \in Nat /\ parks \in Nat /\ answers \in Nat
      /\ failures \in Nat /\ overlapped \in BOOLEAN
  BY GenTypes DEF GenInv, CountersOK
<1>1. GenTypeOK' <=> /\ up' \in BOOLEAN /\ boots' \in 0 .. MaxBoots
                     /\ row' \in RowType /\ stale' \in BOOLEAN
                     /\ runs' \subseteq RunType'
                     /\ reply' \in [Clients -> ReplyType]
                     /\ control'.op \in {"none", "pause", "resume", "confirm", "delete"}
                     /\ told' \in {"none", "ask", "completed", "failed"}
  BY DEF GenTypeOK, RowType, RunType, ReplyType
<1>2. started' = started => RunType' = RunType
  BY DEF RunType
<1>3. NoCall.op = "none"
  BY DEF NoCall
<1>4. ASSUME NEW lane \in Lanes, NEW configured \in BOOLEAN, Create(lane, configured)
      PROVE  Good
  <2>1. /\ row' \in RowType /\ started' = 1
        /\ runs' \subseteq RunType'
        /\ \A r \in runs' : r.at \in {"persist", "announce"} => r.outcome # "none"
        /\ UNCHANGED <<procVars, stale, reply, control, told, boundVars, histVars>>
    BY <1>0, <1>4, CreateEffect DEF Working
  <2> QED BY <1>0, <1>1, <2>1 DEF procVars, boundVars, histVars, CountersOK, OutcomesOK
<1>5. ASSUME NEW r \in runs, Runner(r) PROVE Good
  <2>1. /\ \E new \in RunType : /\ runs' = (runs \ {r}) \cup {new}
                                /\ Working(new)
                                /\ new.at = "persist" => new.outcome # "none"
        /\ UNCHANGED <<procVars, row, stale, started, reply, control, told, boundVars,
                       histVars>>
    BY <1>0, <1>5, RunnerEffect
  <2>2. runs' \subseteq RunType /\ OutcomesOK'
    BY <1>0, <2>1 DEF OutcomesOK, Working
  <2> QED BY <1>0, <1>1, <1>2, <2>1, <2>2 DEF procVars, boundVars, histVars, CountersOK
<1>6. ASSUME NEW r \in runs, Announce(r) PROVE Good
  <2>1. r \in RunType /\ r.at = "announce" /\ r.outcome # "none"
    BY <1>0, <1>6 DEF Announce, OutcomesOK
  <2>2. told' \in {"none", "ask", "completed", "failed"} /\ runs' = runs \ {r}
    BY <1>6, <2>1 DEF Announce, RunType
  <2> QED BY <1>0, <1>1, <1>2, <1>6, <2>2
        DEF Announce, procVars, boundVars, histVars, CountersOK, OutcomesOK
<1>7. ASSUME NEW r \in runs, NEW ok \in BOOLEAN, Persist(r, ok) PROVE Good
  <2>1. /\ r.at = "persist" /\ r.outcome \in {"completed", "failed", "awaiting_user"}
        /\ \/ runs' = runs \ {r}
           \/ \E new \in RunType : /\ runs' = (runs \ {r}) \cup {new}
                                   /\ new.at = "announce" /\ new.outcome = r.outcome
        /\ row' \in RowType /\ stale' \in BOOLEAN
        /\ \/ parks' = parks
           \/ parks' = parks + (IF r.outcome = "awaiting_user" THEN 1 ELSE 0)
        /\ failures' \in Nat
        /\ UNCHANGED <<procVars, started, reply, control, told, replies, controls,
                       answers, overlapped>>
    BY <1>0, <1>7, PersistEffect
  <2>2. runs' \subseteq RunType /\ OutcomesOK'
    BY <1>0, <2>1 DEF OutcomesOK
  <2>3. parks' \in Nat
    BY <1>0, <2>1
  <2> QED BY <1>0, <1>1, <1>2, <2>1, <2>2, <2>3 DEF procVars, CountersOK
<1>8. ASSUME NEW c \in Clients, NEW ok \in BOOLEAN, ReplyResume(c, ok) PROVE Good
  <2>1. /\ reply' \in [Clients -> ReplyType]
        /\ \/ /\ UNCHANGED <<row, stale, runs, started, answers>>
           \/ /\ row' \in RowType /\ stale' \in BOOLEAN
              /\ runs' = runs \cup {Run("call", "none")}
              /\ started' = started + 1 /\ answers' = answers + 1
        /\ failures' \in Nat
        /\ UNCHANGED <<procVars, control, told, replies, controls, parks, overlapped>>
    BY <1>0, <1>8, ResumeEffect
  <2>2. CASE UNCHANGED <<row, stale, runs, started, answers>>
    BY <1>0, <1>1, <1>2, <2>1, <2>2 DEF procVars, CountersOK, OutcomesOK
  <2>3. CASE /\ row' \in RowType /\ stale' \in BOOLEAN
             /\ runs' = runs \cup {Run("call", "none")}
             /\ started' = started + 1 /\ answers' = answers + 1
    <3>1. runs \subseteq RunType'
      BY <1>0, <2>3, OldRuns
    <3>2. Run("call", "none") \in RunType' /\ Run("call", "none").at = "call"
      BY <1>0, <2>3 DEF Run, RunType, MAX_ATTEMPTS, MAX_CONTINUATIONS
    <3>3. runs' \subseteq RunType' /\ OutcomesOK'
      BY <1>0, <2>3, <3>1, <3>2 DEF OutcomesOK
    <3> QED BY <1>0, <1>1, <2>1, <2>3, <3>3 DEF procVars, CountersOK
  <2> QED BY <2>1, <2>2, <2>3
<1>9. ASSUME NEW c \in Clients, NEW ok \in BOOLEAN, HandoffFlip(c, ok) PROVE Good
  <2>1. /\ reply' \in [Clients -> ReplyType]
        /\ row' \in RowType /\ stale' \in BOOLEAN /\ failures' \in Nat
        /\ UNCHANGED <<procVars, runs, started, control, told, replies, controls, histVars>>
    BY <1>0, <1>9, FlipEffect
  <2> QED BY <1>0, <1>1, <1>2, <2>1 DEF procVars, histVars, CountersOK, OutcomesOK
<1>10. ASSUME NEW c \in Clients, NEW ok \in BOOLEAN, HandoffSpawn(c, ok) PROVE Good
  <2>1. /\ reply' \in [Clients -> ReplyType]
        /\ answers' = answers \/ answers' = answers + 1
        /\ UNCHANGED <<procVars, row, stale, runs, started, control, told, boundVars,
                       parks, overlapped>>
    BY <1>0, <1>10, SpawnEffect
  <2> QED BY <1>0, <1>1, <1>2, <2>1 DEF procVars, boundVars, CountersOK, OutcomesOK
<1>11. ASSUME NEW c \in Clients, NEW ok \in BOOLEAN, HandoffPatch(c, ok) PROVE Good
  <2>1. /\ reply' \in [Clients -> ReplyType]
        /\ row' \in RowType /\ stale' \in BOOLEAN /\ failures' \in Nat
        /\ told' = told \/ told' = "completed"
        /\ UNCHANGED <<procVars, runs, started, control, replies, controls, histVars>>
    BY <1>0, <1>11, PatchEffect
  <2> QED BY <1>0, <1>1, <1>2, <2>1 DEF procVars, histVars, CountersOK, OutcomesOK
<1>12. ASSUME NEW c \in Clients, NEW browser \in BOOLEAN, ReplyRead(c, browser) PROVE Good
  <2>1. /\ reply' \in [Clients -> ReplyType]
        /\ overlapped' = (overlapped \/ Calling # {} \/ control # NoCall)
        /\ UNCHANGED <<procVars, row, stale, runs, started, control, told, controls,
                       failures, parks, answers>>
    BY <1>0, <1>12, ReadEffect
  <2>2. overlapped' \in BOOLEAN
    BY <2>1
  <2> QED BY <1>0, <1>1, <1>2, <2>1, <2>2 DEF procVars, CountersOK, OutcomesOK
<1>13. ASSUME NEW op \in Ops, ControlRead(op) PROVE Good
  <2>1. control' = [op |-> op, seen |-> row.status]
        /\ overlapped' = (overlapped \/ Calling # {})
        /\ UNCHANGED <<procVars, row, stale, runs, started, reply, told, replies,
                       failures, parks, answers>>
    BY <1>13 DEF ControlRead
  <2>2. overlapped' \in BOOLEAN /\ control'.op \in Ops
    BY <2>1
  <2> QED BY <1>0, <1>1, <1>2, <2>1, <2>2 DEF Ops, procVars, CountersOK, OutcomesOK
<1>14. ASSUME ControlWrite PROVE Good
  <2>1. /\ control' = NoCall /\ row' \in RowType /\ stale' \in BOOLEAN
        /\ overlapped' = (overlapped \/ row.status # control.seen)
        /\ UNCHANGED <<procVars, runs, started, reply, told, boundVars, parks, answers>>
    BY <1>0, <1>14, ControlEffect
  <2>2. overlapped' \in BOOLEAN
    BY <2>1
  <2> QED BY <1>0, <1>1, <1>2, <1>3, <2>1, <2>2
        DEF procVars, boundVars, CountersOK, OutcomesOK
<1>15. ASSUME Age PROVE Good
  <2>1. stale' \in BOOLEAN
        /\ UNCHANGED <<procVars, row, runs, started, reply, control, told, boundVars,
                       histVars>>
    BY <1>15 DEF Age
  <2> QED BY <1>0, <1>1, <1>2, <2>1
        DEF procVars, boundVars, histVars, CountersOK, OutcomesOK
<1>16. ASSUME Reap \/ \E old \in BOOLEAN : Boot(old) PROVE Good
  <2>1. /\ row' \in RowType /\ stale' \in BOOLEAN
        /\ UNCHANGED <<runs, started, reply, control, told, boundVars, histVars>>
    BY <1>0, <1>16, SweepEffect DEF SweepsRow
  <2>2. up' \in BOOLEAN /\ up'
    BY <1>0, <1>16 DEF Reap, Boot, procVars
  <2>3. boots' \in 0 .. MaxBoots
    <3>1. CASE Reap
      BY <1>0, <3>1 DEF Reap, procVars
    <3>2. CASE \E old \in BOOLEAN : Boot(old)
      <4>1. ~up /\ boots' = boots + 1
        BY <3>2 DEF Boot
      <4>2. boots < MaxBoots /\ MaxBoots \in Nat
        BY <1>0, <4>1, GenerateAssumption DEF CountersOK
      <4> QED BY <1>0, <4>1, <4>2
    <3> QED BY <1>16, <3>1, <3>2
  <2> QED BY <1>0, <1>1, <1>2, <2>1, <2>2, <2>3
        DEF boundVars, histVars, CountersOK, OutcomesOK
<1>17. ASSUME Crash PROVE Good
  <2>1. /\ up' = FALSE /\ runs' = {} /\ reply' = [c \in Clients |-> Quiet]
        /\ control' = NoCall /\ boots < MaxBoots
        /\ UNCHANGED <<boots, row, stale, started, told, boundVars, histVars>>
    BY <1>17 DEF Crash
  <2>2. reply' \in [Clients -> ReplyType]
    BY <2>1, QuietIsReply
  <2> QED BY <1>0, <1>1, <1>2, <1>3, <2>1, <2>2
        DEF boundVars, histVars, CountersOK, OutcomesOK
<1> QED
  BY <1>4, <1>5, <1>6, <1>7, <1>8, <1>9, <1>10, <1>11, <1>12, <1>13, <1>14, <1>15,
     <1>16, <1>17 DEF Next, RunStep, ReplyStep, Ops

-----------------------------------------------------------------------------
(* What every step keeps.                                                  *)

LEMMA CallsMove ==
  ASSUME NEW c \in Clients, Stays(c)
  PROVE  /\ reply'[c].at = "idle" => Calling' = Calling \ {c}
         /\ reply'[c].at # "idle" => Calling' = Calling \cup {c}
BY DEF Stays, Calling

(* A row, once written, is never fresh again, and a call has read a status *)
(* that admits it.                                                         *)
LEMMA FreshStep ==
  ASSUME GenInv, Next
  PROVE  FreshOK' /\ ControlOK'
<1> DEFINE Good == FreshOK' /\ ControlOK'
<1>0. /\ GenTypeOK /\ CountersOK /\ OutcomesOK /\ FreshOK /\ ControlOK
  BY DEF GenInv
<1>1. row.status # "none" /\ row'.status # "none" => FreshOK'
  BY DEF FreshOK
<1>2. control' = control \/ control' = NoCall => ControlOK'
  BY <1>0 DEF ControlOK, NoCall
<1>3. ASSUME row' = row, row.status # "none" PROVE FreshOK'
  BY <1>1, <1>3
<1>4. ASSUME NEW r \in runs PROVE row.status # "none"
  BY <1>0 DEF FreshOK
<1>5. ASSUME NEW c \in Clients, reply[c].at # "idle" PROVE row.status # "none"
  BY <1>0, <1>5 DEF FreshOK, Calling
<1>6. ASSUME NEW lane \in Lanes, NEW configured \in BOOLEAN, Create(lane, configured)
      PROVE  Good
  <2>1. row'.status = "executing" /\ control' = control
    BY <1>0, <1>6, CreateEffect
  <2> QED BY <1>2, <2>1 DEF FreshOK
<1>7. ASSUME NEW r \in runs, Runner(r) PROVE Good
  BY <1>0, <1>2, <1>3, <1>4, <1>7, RunnerEffect
<1>8. ASSUME NEW r \in runs, Announce(r) PROVE Good
  BY <1>2, <1>3, <1>4, <1>8 DEF Announce
<1>9. ASSUME NEW r \in runs, NEW ok \in BOOLEAN, Persist(r, ok) PROVE Good
  <2>1. /\ r.outcome \in {"completed", "failed", "awaiting_user"}
        /\ row' = row \/ row'.status = r.outcome
        /\ control' = control
    BY <1>0, <1>9, PersistEffect
  <2> QED BY <1>1, <1>2, <1>4, <2>1
<1>10. ASSUME NEW c \in Clients, NEW ok \in BOOLEAN, ReplyResume(c, ok) PROVE Good
  <2>1. /\ reply[c].at = "flip" /\ control' = control
        /\ row' = row \/ row'.status = "executing"
    BY <1>0, <1>10, ResumeEffect
  <2> QED BY <1>1, <1>2, <1>5, <2>1
<1>11. ASSUME NEW c \in Clients, NEW ok \in BOOLEAN, HandoffFlip(c, ok) PROVE Good
  <2>1. /\ reply[c].at = "flip" /\ control' = control
        /\ row' = row \/ row'.status = "completed"
    BY <1>0, <1>11, FlipEffect
  <2> QED BY <1>1, <1>2, <1>5, <2>1
<1>12. ASSUME NEW c \in Clients, NEW ok \in BOOLEAN, HandoffSpawn(c, ok) PROVE Good
  BY <1>0, <1>2, <1>3, <1>5, <1>12, SpawnEffect
<1>13. ASSUME NEW c \in Clients, NEW ok \in BOOLEAN, HandoffPatch(c, ok) PROVE Good
  <2>1. reply[c].at = "patch" /\ control' = control /\ row'.status = row.status
    BY <1>0, <1>13, PatchEffect
  <2> QED BY <1>1, <1>2, <1>5, <2>1
<1>14. ASSUME NEW c \in Clients, NEW browser \in BOOLEAN, ReplyRead(c, browser) PROVE Good
  BY <1>0, <1>2, <1>3, <1>14, ReadEffect
<1>15. ASSUME NEW op \in Ops, ControlRead(op) PROVE Good
  <2>1. /\ control' = [op |-> op, seen |-> row.status] /\ row.status \in ReadBy(op)
        /\ row' = row
    BY <1>15 DEF ControlRead
  <2>2. row.status # "none"
    BY <2>1, <1>15 DEF Ops, ReadBy, Ended
  <2>3. control'.op = op /\ control'.seen \in ReadBy(op)
    BY <2>1
  <2> QED BY <1>3, <1>15, <2>1, <2>2, <2>3 DEF ControlOK
<1>16. ASSUME ControlWrite PROVE Good
  <2>1. /\ control # NoCall /\ control' = NoCall /\ control.op \in Ops
        /\ row' = row \/ row'.status = WrittenBy(control.op)
    BY <1>0, <1>16, ControlEffect
  <2>2. row.status # "none" /\ WrittenBy(control.op) # "none"
    BY <1>0, <2>1 DEF FreshOK, WrittenBy, Ops
  <2> QED BY <1>1, <1>2, <2>1, <2>2
<1>17. ASSUME Age PROVE Good
  BY <1>2, <1>3, <1>17 DEF Age
<1>18. ASSUME Reap \/ \E old \in BOOLEAN : Boot(old) PROVE Good
  <2>1. /\ SweepsRow
        /\ UNCHANGED <<runs, started, reply, control, told, boundVars, histVars>>
    BY <1>0, <1>18, SweepEffect
  <2>2. CASE row' = row
    BY <1>0, <1>2, <2>1, <2>2 DEF FreshOK, Calling
  <2>3. CASE row.status \in {"executing", "awaiting_user"} /\ row'.status = "failed"
    BY <1>1, <1>2, <2>1, <2>3
  <2> QED BY <2>1, <2>2, <2>3 DEF SweepsRow
<1>19. ASSUME Crash PROVE Good
  BY <1>2, <1>3, <1>19 DEF Crash
<1> QED
  BY <1>6, <1>7, <1>8, <1>9, <1>10, <1>11, <1>12, <1>13, <1>14, <1>15, <1>16, <1>17,
     <1>18, <1>19 DEF Next, RunStep, ReplyStep, Ops

(* A parked row or a reply under way means that no run works: a runner's   *)
(* step finds neither, and a reply's step is the only one there is.        *)
LEMMA CalmStep ==
  ASSUME GenInv, Next
  PROVE  CalmOK'
<1> SUFFICES ASSUME ~overlapped'
             PROVE  /\ \A r, s \in runs' : Working(r) /\ Working(s) => r = s
                    /\ row'.status = "awaiting_user" \/ Calling' # {} => NoneWorks'
                    /\ \A c, d \in Calling' : c = d
                    /\ row'.status = "awaiting_user" => row'.intake
                    /\ answers' <= parks'
                    /\ Owed' => answers' < parks'
  BY DEF CalmOK
<1> DEFINE OneRun  == \A r, s \in runs' : Working(r) /\ Working(s) => r = s
           Waits   == row'.status = "awaiting_user" \/ Calling' # {} => NoneWorks'
           OneCall == \A c, d \in Calling' : c = d
           Asks    == row'.status = "awaiting_user" => row'.intake
           Counts  == answers' <= parks' /\ (Owed' => answers' < parks')
           Good    == OneRun /\ Waits /\ OneCall /\ Asks /\ Counts
<1>0. /\ GenTypeOK /\ CountersOK /\ OutcomesOK /\ FreshOK /\ ControlOK /\ CalmOK
      /\ answers \in Nat /\ parks \in Nat
  BY DEF GenInv, CountersOK
<1>1. ASSUME ~overlapped
      PROVE  /\ \A r, s \in runs : Working(r) /\ Working(s) => r = s
             /\ row.status = "awaiting_user" \/ Calling # {} => NoneWorks
             /\ \A c, d \in Calling : c = d
             /\ row.status = "awaiting_user" => row.intake
             /\ answers <= parks
             /\ Owed => answers < parks
  BY <1>0, <1>1 DEF CalmOK
<1>2. ASSUME UNCHANGED reply
      PROVE  /\ Calling' = Calling
             /\ Owed' => Owed \/ row'.status = "awaiting_user"
  BY <1>2 DEF Calling, Owed
<1>3. ASSUME NEW c \in Clients, Stays(c), reply[c].at # "idle", ~overlapped
      PROVE  /\ Calling = {c} /\ NoneWorks
             /\ reply'[c].at = "idle" => Calling' = {}
             /\ reply'[c].at # "idle" => Calling' = {c}
             /\ reply[c].at \in {"flip", "spawn"} => answers < parks
             /\ Owed' => \/ row'.status = "awaiting_user"
                         \/ reply'[c].at \in {"flip", "spawn"}
  <2>1. c \in Calling
    BY <1>3 DEF Calling
  <2>2. Calling = {c} /\ NoneWorks
    BY <1>1, <1>3, <2>1
  <2>3. /\ reply'[c].at = "idle" => Calling' = {}
        /\ reply'[c].at # "idle" => Calling' = {c}
    BY <1>3, <2>2, CallsMove
  <2>4. reply[c].at \in {"flip", "spawn"} => answers < parks
    BY <1>1, <1>3 DEF Owed
  <2>5. ASSUME NEW d \in Clients, reply'[d].at \in {"flip", "spawn"} PROVE d = c
    BY <2>2, <2>5, <1>3 DEF Stays, Calling
  <2>6. Owed' => \/ row'.status = "awaiting_user"
                 \/ reply'[c].at \in {"flip", "spawn"}
    BY <2>5 DEF Owed
  <2> QED BY <2>2, <2>3, <2>4, <2>6
<1>4. ASSUME NEW r \in runs, Working(r), ~overlapped
      PROVE  /\ row.status # "awaiting_user" /\ Calling = {}
             /\ \A s \in runs \ {r} : ~Working(s)
  BY <1>1, <1>4 DEF NoneWorks
<1>5. ASSUME ~overlapped, UNCHANGED <<row, runs, reply, parks, answers>> PROVE Good
  BY <1>1, <1>2, <1>5 DEF NoneWorks, Owed
<1>6. ASSUME NEW lane \in Lanes, NEW configured \in BOOLEAN, Create(lane, configured)
      PROVE  Good
  <2>1. /\ row.status = "none" /\ row'.status = "executing" /\ \E new : runs' = {new}
        /\ UNCHANGED <<reply, overlapped, parks, answers>>
    BY <1>0, <1>6, CreateEffect DEF histVars
  <2>2. Calling = {} /\ ~overlapped
    BY <1>0, <2>1 DEF FreshOK
  <2>3. Calling' = {}
    BY <1>2, <2>1, <2>2
  <2>4. ~Owed'
    BY <2>1, <2>3 DEF Owed, Calling
  <2> QED BY <1>1, <2>1, <2>2, <2>3, <2>4
<1>7. ASSUME NEW r \in runs, Runner(r) PROVE Good
  <2>1. /\ Working(r) /\ \E new : runs' = (runs \ {r}) \cup {new}
        /\ UNCHANGED <<row, reply, parks, answers, overlapped>>
    BY <1>0, <1>7, RunnerEffect DEF histVars
  <2>2. /\ row.status # "awaiting_user" /\ Calling = {}
        /\ \A s \in runs \ {r} : ~Working(s)
    BY <1>4, <2>1
  <2>3. OneRun
    BY <2>1, <2>2
  <2>4. Calling' = Calling /\ (Owed' => Owed)
    BY <2>1 DEF Calling, Owed
  <2> QED BY <1>1, <2>1, <2>2, <2>3, <2>4
<1>8. ASSUME NEW r \in runs, Announce(r) PROVE Good
  <2>1. runs' = runs \ {r} /\ UNCHANGED <<row, reply, parks, answers, overlapped>>
    BY <1>8 DEF Announce, histVars
  <2>2. Calling' = Calling /\ (Owed' => Owed) /\ (NoneWorks => NoneWorks')
    BY <2>1 DEF Calling, Owed, NoneWorks
  <2> QED BY <1>1, <2>1, <2>2
<1>9. ASSUME NEW r \in runs, NEW ok \in BOOLEAN, Persist(r, ok) PROVE Good
  <2>1. /\ r.at = "persist" /\ r.outcome \in {"completed", "failed", "awaiting_user"}
        /\ \/ runs' = runs \ {r}
           \/ \E new : runs' = (runs \ {r}) \cup {new} /\ new.at = "announce"
        /\ \/ row' = row /\ parks' = parks
           \/ /\ row'.status = r.outcome
              /\ row'.intake = (r.outcome = "awaiting_user")
              /\ parks' = parks + (IF r.outcome = "awaiting_user" THEN 1 ELSE 0)
        /\ UNCHANGED <<reply, answers, overlapped>>
    BY <1>0, <1>9, PersistEffect
  <2>2. Working(r) /\ ~overlapped
    BY <2>1 DEF Working
  <2>3. /\ row.status # "awaiting_user" /\ Calling = {}
        /\ \A s \in runs \ {r} : ~Working(s)
    BY <1>4, <2>2
  <2>4. NoneWorks'
    BY <2>1, <2>3 DEF NoneWorks, Working
  <2>5. OneRun
    BY <2>4 DEF NoneWorks
  <2>6. Calling' = {} /\ (Owed' => row'.status = "awaiting_user")
    BY <2>1, <2>3 DEF Calling, Owed
  <2>7. answers <= parks
    BY <1>1, <2>2
  <2>8. \/ row' = row /\ parks' = parks
        \/ /\ row'.status = "awaiting_user" => row'.intake
           /\ parks' = parks + (IF row'.status = "awaiting_user" THEN 1 ELSE 0)
    BY <2>1
  <2>9. Asks
    BY <2>3, <2>8
  <2>10. parks' = parks \/ parks' = parks + 1
    BY <2>8, <1>0
  <2>11. Counts
    <3>1. CASE row'.status = "awaiting_user"
      BY <1>0, <2>1, <2>3, <2>7, <2>8, <3>1
    <3>2. CASE row'.status # "awaiting_user"
      BY <1>0, <2>1, <2>6, <2>7, <2>10, <3>2
    <3> QED BY <3>1, <3>2
  <2> QED BY <2>4, <2>5, <2>6, <2>9, <2>11
<1>10. ASSUME NEW c \in Clients, NEW ok \in BOOLEAN, ReplyResume(c, ok) PROVE Good
  <2>1. /\ reply[c].at = "flip" /\ reply'[c].at = "idle" /\ Stays(c)
        /\ \/ UNCHANGED <<row, runs, answers>>
           \/ /\ row.status = "deleted" => row' = row
              /\ row.status # "deleted" => row'.status = "executing"
              /\ runs' = runs \cup {Run("call", "none")}
              /\ answers' = answers + 1
        /\ UNCHANGED <<parks, overlapped>>
    BY <1>0, <1>10, ResumeEffect
  <2>2. /\ NoneWorks /\ Calling' = {} /\ answers < parks
        /\ Owed' => row'.status = "awaiting_user"
    BY <1>3, <2>1
  <2>3. CASE UNCHANGED <<row, runs, answers>>
    BY <1>1, <2>1, <2>2, <2>3 DEF NoneWorks
  <2>4. CASE /\ row.status = "deleted" => row' = row
             /\ row.status # "deleted" => row'.status = "executing"
             /\ runs' = runs \cup {Run("call", "none")}
             /\ answers' = answers + 1
    <3>1. row'.status # "awaiting_user"
      BY <2>4
    <3>2. OneRun
      BY <2>2, <2>4 DEF NoneWorks
    <3>3. Counts
      BY <1>0, <2>1, <2>2, <2>4, <3>1
    <3> QED BY <2>2, <3>1, <3>2, <3>3
  <2> QED BY <2>1, <2>3, <2>4
<1>11. ASSUME NEW c \in Clients, NEW ok \in BOOLEAN, HandoffFlip(c, ok) PROVE Good
  <2>1. /\ reply[c].at = "flip" /\ reply'[c].at # "idle" /\ Stays(c)
        /\ \/ UNCHANGED row
           \/ /\ row.status = "deleted" => row' = row
              /\ row.status # "deleted" => row'.status = "completed"
        /\ UNCHANGED <<runs, parks, answers, overlapped>>
    BY <1>0, <1>11, FlipEffect DEF histVars
  <2>2. NoneWorks /\ Calling' = {c} /\ answers < parks
    BY <1>3, <2>1
  <2>3. Asks
    BY <1>1, <2>1
  <2>4. NoneWorks'
    BY <2>1, <2>2 DEF NoneWorks
  <2>5. Counts
    BY <1>0, <2>1, <2>2
  <2> QED BY <2>2, <2>3, <2>4, <2>5 DEF NoneWorks
<1>12. ASSUME NEW c \in Clients, NEW ok \in BOOLEAN, HandoffSpawn(c, ok) PROVE Good
  <2>1. /\ reply[c].at = "spawn" /\ reply'[c].at = "patch" /\ Stays(c)
        /\ \/ answers' = answers
           \/ answers' = answers + 1 /\ row.status \in Ended
        /\ UNCHANGED <<row, runs, parks, overlapped>>
    BY <1>0, <1>12, SpawnEffect
  <2>2. /\ NoneWorks /\ Calling' = {c} /\ answers < parks
        /\ Owed' => row'.status = "awaiting_user"
    BY <1>3, <2>1
  <2>3. NoneWorks' /\ OneRun /\ Asks
    BY <1>1, <2>1, <2>2 DEF NoneWorks
  <2>4. row.status \in Ended => ~Owed'
    BY <2>1, <2>2 DEF Ended
  <2>5. Counts
    BY <1>0, <2>1, <2>2, <2>4
  <2> QED BY <2>2, <2>3, <2>5
<1>13. ASSUME NEW c \in Clients, NEW ok \in BOOLEAN, HandoffPatch(c, ok) PROVE Good
  <2>1. /\ reply[c].at = "patch" /\ reply'[c].at = "idle" /\ Stays(c)
        /\ row'.status = row.status /\ (row.intake => row'.intake)
        /\ UNCHANGED <<runs, parks, answers, overlapped>>
    BY <1>0, <1>13, PatchEffect DEF histVars
  <2>2. /\ NoneWorks /\ Calling' = {}
        /\ Owed' => row'.status = "awaiting_user"
    BY <1>3, <2>1
  <2>3. row'.status = "awaiting_user" => answers < parks
    BY <1>1, <2>1 DEF Owed
  <2> QED BY <1>1, <2>1, <2>2, <2>3 DEF NoneWorks
<1>14. ASSUME NEW c \in Clients, NEW browser \in BOOLEAN, ReplyRead(c, browser) PROVE Good
  <2>1. /\ row.status = "awaiting_user" /\ reply'[c].at = "flip" /\ Stays(c)
        /\ ~overlapped /\ Calling = {}
        /\ UNCHANGED <<row, runs, parks, answers>>
    BY <1>0, <1>14, ReadEffect
  <2>2. Calling' = {c}
    BY <2>1, CallsMove
  <2>3. NoneWorks /\ answers < parks /\ row.intake
    BY <1>1, <2>1 DEF Owed
  <2> QED BY <1>0, <2>1, <2>2, <2>3 DEF NoneWorks
<1>15. ASSUME NEW op \in Ops, ControlRead(op) PROVE Good
  BY <1>5, <1>15 DEF ControlRead
<1>16. ASSUME ControlWrite PROVE Good
  <2>1. /\ control.op \in Ops /\ control.seen \in ReadBy(control.op)
        /\ ~overlapped /\ row.status = control.seen
        /\ row.status = "deleted" => row' = row
        /\ row.status # "deleted" => /\ row'.status = WrittenBy(control.op)
                                     /\ row'.intake = row.intake
        /\ UNCHANGED <<runs, reply, parks, answers>>
    BY <1>0, <1>16, ControlEffect
  <2>2. row'.status = "awaiting_user" =>
          row.status = "awaiting_user" /\ row'.intake = row.intake
    BY <2>1 DEF Ops, ReadBy, WrittenBy, Ended
  <2>3. Calling' = Calling /\ (Owed' => Owed)
    BY <2>1, <2>2 DEF Calling, Owed
  <2> QED BY <1>1, <2>1, <2>2, <2>3 DEF NoneWorks
<1>17. ASSUME Age PROVE Good
  BY <1>5, <1>17 DEF Age, histVars
<1>18. ASSUME Reap \/ \E old \in BOOLEAN : Boot(old) PROVE Good
  <2>1. /\ SweepsRow /\ ~overlapped /\ UNCHANGED <<runs, reply, parks, answers>>
    BY <1>0, <1>18, SweepEffect DEF histVars
  <2>2. row' = row \/ row'.status = "failed"
    BY <2>1 DEF SweepsRow
  <2>3. Calling' = Calling /\ (Owed' => Owed)
    BY <2>1, <2>2 DEF Calling, Owed
  <2> QED BY <1>1, <2>1, <2>2, <2>3 DEF NoneWorks
<1>19. ASSUME Crash PROVE Good
  <2>1. /\ runs' = {} /\ reply' = [c \in Clients |-> Quiet]
        /\ UNCHANGED <<row, parks, answers, overlapped>>
    BY <1>19 DEF Crash, histVars
  <2>2. Calling' = {} /\ (Owed' => Owed)
    BY <2>1, QuietIsReply DEF Calling, Owed
  <2> QED BY <1>1, <2>1, <2>2 DEF NoneWorks
<1> HIDE DEF OneRun, Waits, OneCall, Asks, Counts
<1>20. Good
  BY <1>6, <1>7, <1>8, <1>9, <1>10, <1>11, <1>12, <1>13, <1>14, <1>15, <1>16, <1>17,
     <1>18, <1>19 DEF Next, RunStep, ReplyStep, Ops
<1> QED BY <1>20 DEF OneRun, Waits, OneCall, Asks, Counts

(* An end that is to be announced, or was, finds the row at rest: what     *)
(* could still write it is a call that has read it, and an end is only     *)
(* read by a delete.                                                       *)
LEMMA EndsStep ==
  ASSUME GenInv, Next
  PROVE  EndsOK'
<1> SUFFICES ASSUME ~overlapped', failures' = 0
             PROVE  /\ \A r \in runs' : Ending(r) => Rests(r.outcome)'
                    /\ \A c \in Clients : reply'[c].at \in {"spawn", "patch"} =>
                                            row'.status \in {"completed", "deleted"}
                    /\ told' \in Ended => Rests(told)'
  BY DEF EndsOK
<1> DEFINE RunEnds == \A r \in runs' : Ending(r) => Rests(r.outcome)'
           Flipped == \A c \in Clients : reply'[c].at \in {"spawn", "patch"} =>
                                           row'.status \in {"completed", "deleted"}
           ToldEnd == told' \in Ended => Rests(told)'
           Good    == RunEnds /\ Flipped /\ ToldEnd
           Calm    == ~overlapped /\ failures = 0
           NoEnd   == (\A r \in runs : ~Ending(r)) /\ told \notin Ended
<1>0. /\ GenTypeOK /\ CountersOK /\ OutcomesOK /\ FreshOK /\ ControlOK /\ CalmOK
      /\ EndsOK /\ failures \in Nat
  BY DEF GenInv, CountersOK
<1>1. ASSUME Calm
      PROVE  /\ \A r \in runs : Ending(r) => Rests(r.outcome)
             /\ \A c \in Clients : reply[c].at \in {"spawn", "patch"} =>
                                     row.status \in {"completed", "deleted"}
             /\ told \in Ended => Rests(told)
             /\ \A c, d \in Calling : c = d
             /\ row.status = "awaiting_user" \/ Calling # {} => NoneWorks
  BY <1>0, <1>1 DEF EndsOK, CalmOK
<1>2. ASSUME Calm, Calling # {} PROVE NoEnd
  BY <1>1, <1>2 DEF Rests
<1>3. ASSUME Calm, row.status \in {"executing", "awaiting_user", "paused"}
      PROVE  /\ NoEnd
             /\ \A c \in Clients : reply[c].at \notin {"spawn", "patch"}
  BY <1>1, <1>3 DEF Rests, Ended, Ending
<1>4. ASSUME Calm, NEW r \in runs, Working(r) PROVE NoEnd /\ Calling = {}
  <2>1. ~NoneWorks
    BY <1>4 DEF NoneWorks
  <2> QED BY <1>1, <1>4, <2>1 DEF Rests
<1>5. ASSUME UNCHANGED <<overlapped, failures>> PROVE Calm
  BY <1>5
<1>6. ASSUME Calm, UNCHANGED <<row, runs, reply, told>> PROVE Good
  BY <1>1, <1>6 DEF Rests, NoneWorks, Calling
<1>7. ASSUME Calm, NEW c \in Clients, reply[c].at # "idle", Stays(c)
      PROVE  /\ Calling = {c} /\ NoneWorks /\ NoEnd
             /\ \A d \in Clients \ {c} : reply'[d].at = "idle"
             /\ reply'[c].at = "idle" => Calling' = {}
  <2>1. c \in Calling
    BY <1>7 DEF Calling
  <2>2. Calling = {c} /\ NoneWorks /\ NoEnd
    BY <1>1, <1>2, <1>7, <2>1
  <2>3. \A d \in Clients \ {c} : reply'[d].at = "idle"
    BY <1>7, <2>2 DEF Stays, Calling
  <2> QED BY <1>7, <2>2, <2>3, CallsMove
<1>8. ASSUME NoEnd, runs' \subseteq runs, UNCHANGED told PROVE RunEnds /\ ToldEnd
  BY <1>8
<1>9. ASSUME NEW lane \in Lanes, NEW configured \in BOOLEAN, Create(lane, configured)
      PROVE  Good
  <2>1. /\ row.status = "none" /\ \E new : runs' = {new} /\ Working(new)
        /\ UNCHANGED <<reply, told, overlapped, failures>>
    BY <1>0, <1>9, CreateEffect DEF boundVars, histVars
  <2>2. told = "none" /\ Calling = {}
    BY <1>0, <2>1 DEF FreshOK
  <2>3. RunEnds
    BY <2>1 DEF Working, Ending
  <2>4. Flipped
    BY <2>1, <2>2 DEF Calling
  <2>5. ToldEnd
    BY <2>1, <2>2 DEF Ended
  <2> QED BY <2>3, <2>4, <2>5
<1>10. ASSUME NEW r \in runs, Runner(r) PROVE Good
  <2>1. /\ Working(r) /\ \E new : runs' = (runs \ {r}) \cup {new} /\ Working(new)
        /\ UNCHANGED <<row, reply, told, overlapped, failures>>
    BY <1>0, <1>10, RunnerEffect DEF boundVars, histVars
  <2>2. NoEnd /\ Calling = {}
    BY <1>4, <1>5, <2>1
  <2>3. RunEnds
    BY <2>1, <2>2 DEF Working, Ending
  <2>4. Flipped
    BY <2>1, <2>2 DEF Calling
  <2> QED BY <2>1, <2>2, <2>3, <2>4
<1>11. ASSUME NEW r \in runs, Announce(r) PROVE Good
  <2>1. /\ r.at = "announce" /\ runs' = runs \ {r}
        /\ told' = IF r.outcome = "awaiting_user" THEN "ask" ELSE r.outcome
        /\ UNCHANGED <<row, reply, overlapped, failures>>
    BY <1>11 DEF Announce, boundVars, histVars
  <2>2. Calm
    BY <1>5, <2>1
  <2>3. ASSUME NEW o, Rests(o) PROVE Rests(o)'
    BY <2>1, <2>3 DEF Rests, NoneWorks, Calling
  <2>4. RunEnds
    <3> SUFFICES ASSUME NEW s \in runs', Ending(s) PROVE Rests(s.outcome)'
      OBVIOUS
    <3>1. Rests(s.outcome)
      BY <1>1, <2>1, <2>2
    <3> QED BY <2>3, <3>1 DEF Rests
  <2>5. Flipped
    BY <1>1, <2>1, <2>2
  <2>6. ToldEnd
    <3> SUFFICES ASSUME told' \in Ended PROVE Rests(told)'
      OBVIOUS
    <3>1. told' = r.outcome /\ Ending(r)
      BY <2>1 DEF Ended, Ending
    <3>2. Rests(r.outcome)
      BY <1>1, <2>2, <3>1
    <3>3. row'.status \in {told', "deleted"} /\ Calling' = {} /\ NoneWorks'
      BY <2>3, <3>1, <3>2 DEF Rests
    <3> QED BY <3>3 DEF Rests
  <2> QED BY <2>4, <2>5, <2>6
<1>12. ASSUME NEW r \in runs, NEW ok \in BOOLEAN, Persist(r, ok) PROVE Good
  <2>1. /\ r.at = "persist" /\ r.outcome \in {"completed", "failed", "awaiting_user"}
        /\ \/ runs' = runs \ {r}
           \/ \E new : /\ runs' = (runs \ {r}) \cup {new}
                       /\ new.at = "announce" /\ new.outcome = r.outcome
        /\ row.status = "deleted" => row' = row
        /\ failures' \in Nat /\ failures <= failures'
        /\ \/ failures' # 0 \/ row.status \in {"deleted", "awaiting_user"}
           \/ row'.status = r.outcome
        /\ UNCHANGED <<reply, told, overlapped>>
    BY <1>0, <1>12, PersistEffect
  <2>2. Working(r) /\ Calm
    BY <1>0, <2>1 DEF Working
  <2>3. NoEnd /\ Calling = {}
    BY <1>4, <2>2
  <2>4. /\ row.status # "awaiting_user"
        /\ \A s \in runs \ {r} : ~Working(s)
    BY <1>0, <2>2 DEF CalmOK, NoneWorks
  <2>5. row'.status \in {r.outcome, "deleted"}
    BY <2>1, <2>4
  <2>6. NoneWorks' /\ Calling' = {}
    BY <2>1, <2>3, <2>4 DEF NoneWorks, Working, Calling
  <2>7. RunEnds
    <3> SUFFICES ASSUME NEW s \in runs', Ending(s) PROVE Rests(s.outcome)'
      OBVIOUS
    <3>1. s.outcome = r.outcome
      BY <2>1, <2>3
    <3>2. row'.status \in {s.outcome, "deleted"}
      BY <2>5, <3>1
    <3> QED BY <2>6, <3>2 DEF Rests
  <2>8. Flipped
    BY <2>6 DEF Calling
  <2> QED BY <2>1, <2>3, <2>7, <2>8
<1>13. ASSUME NEW c \in Clients, NEW ok \in BOOLEAN, ReplyResume(c, ok) PROVE Good
  <2>1. /\ reply[c].at = "flip" /\ reply'[c].at = "idle" /\ Stays(c)
        /\ runs' = runs \/ runs' = runs \cup {Run("call", "none")}
        /\ failures' \in Nat /\ failures <= failures'
        /\ UNCHANGED <<told, overlapped>>
    BY <1>0, <1>13, ResumeEffect
  <2>2. NoEnd /\ \A d \in Clients : reply'[d].at = "idle"
    BY <1>0, <1>7, <2>1
  <2>3. ~Ending(Run("call", "none"))
    BY DEF Ending, Run
  <2> QED BY <2>1, <2>2, <2>3
<1>14. ASSUME NEW c \in Clients, NEW ok \in BOOLEAN, HandoffFlip(c, ok) PROVE Good
  <2>1. /\ reply[c].at = "flip" /\ Stays(c)
        /\ \/ failures' # 0
           \/ /\ row.status = "deleted" => row' = row
              /\ row.status # "deleted" => row'.status = "completed"
        /\ failures' \in Nat /\ failures <= failures'
        /\ UNCHANGED <<runs, told, overlapped>>
    BY <1>0, <1>14, FlipEffect DEF histVars
  <2>2. NoEnd /\ row'.status \in {"completed", "deleted"}
    BY <1>0, <1>7, <2>1
  <2> QED BY <1>8, <2>1, <2>2
<1>15. ASSUME NEW c \in Clients, NEW ok \in BOOLEAN, HandoffSpawn(c, ok) PROVE Good
  <2>1. /\ reply[c].at = "spawn" /\ Stays(c)
        /\ UNCHANGED <<row, runs, told, failures, overlapped>>
    BY <1>0, <1>15, SpawnEffect DEF boundVars
  <2>2. NoEnd /\ row'.status \in {"completed", "deleted"}
    BY <1>1, <1>7, <2>1
  <2> QED BY <1>8, <2>1, <2>2
<1>16. ASSUME NEW c \in Clients, NEW ok \in BOOLEAN, HandoffPatch(c, ok) PROVE Good
  <2>1. /\ reply[c].at = "patch" /\ reply'[c].at = "idle" /\ Stays(c)
        /\ row'.status = row.status
        /\ failures' # 0 \/ told' = "completed"
        /\ failures' \in Nat /\ failures <= failures'
        /\ UNCHANGED <<runs, overlapped>>
    BY <1>0, <1>16, PatchEffect DEF histVars
  <2>2. Calm
    BY <1>0, <2>1
  <2>3. NoEnd /\ NoneWorks /\ Calling' = {}
    BY <1>7, <2>1, <2>2
  <2>4. row'.status \in {"completed", "deleted"}
    BY <1>1, <2>1, <2>2
  <2>5. Rests(told)'
    BY <2>1, <2>3, <2>4 DEF Rests, NoneWorks
  <2> QED BY <2>1, <2>3, <2>4, <2>5
<1>17. ASSUME NEW c \in Clients, NEW browser \in BOOLEAN, ReplyRead(c, browser) PROVE Good
  <2>1. /\ row.status = "awaiting_user" /\ reply'[c].at = "flip" /\ Stays(c)
        /\ ~overlapped /\ UNCHANGED <<row, runs, told, failures>>
    BY <1>0, <1>17, ReadEffect
  <2>2. NoEnd /\ \A d \in Clients : reply[d].at \notin {"spawn", "patch"}
    BY <1>3, <2>1
  <2>3. Flipped
    BY <2>1, <2>2 DEF Stays
  <2> QED BY <1>8, <2>1, <2>2, <2>3
<1>18. ASSUME NEW op \in Ops, ControlRead(op) PROVE Good
  BY <1>6, <1>18 DEF ControlRead
<1>19. ASSUME ControlWrite PROVE Good
  <2>1. /\ control.op \in Ops /\ control.seen \in ReadBy(control.op)
        /\ ~overlapped /\ row.status = control.seen
        /\ row.status # "deleted" => row'.status = WrittenBy(control.op)
        /\ UNCHANGED <<runs, reply, told, failures>>
    BY <1>0, <1>19, ControlEffect DEF boundVars
  <2>2. CASE control.op \in {"pause", "resume", "confirm"}
    <3>1. row.status \in {"executing", "awaiting_user", "paused"}
      BY <2>1, <2>2 DEF ReadBy
    <3>2. NoEnd /\ \A c \in Clients : reply[c].at \notin {"spawn", "patch"}
      BY <1>3, <2>1, <3>1
    <3> QED BY <1>8, <2>1, <3>2
  <2>3. CASE control.op = "delete"
    <3>1. row'.status = "deleted"
      BY <2>1, <2>3 DEF ReadBy, WrittenBy, Ended
    <3>2. ASSUME NEW o, Rests(o) PROVE Calling' = {} /\ NoneWorks'
      BY <2>1, <3>2 DEF Rests, Calling, NoneWorks
    <3>3. RunEnds
      BY <1>1, <2>1, <3>1, <3>2 DEF Rests
    <3>4. ToldEnd
      BY <1>1, <2>1, <3>1, <3>2 DEF Rests
    <3> QED BY <3>1, <3>3, <3>4
  <2> QED BY <2>1, <2>2, <2>3 DEF Ops
<1>20. ASSUME Age PROVE Good
  BY <1>6, <1>20 DEF Age, boundVars, histVars
<1>21. ASSUME Reap \/ \E old \in BOOLEAN : Boot(old) PROVE Good
  <2>1. /\ SweepsRow /\ Calm /\ UNCHANGED <<runs, reply, told>>
    BY <1>0, <1>21, SweepEffect DEF boundVars, histVars
  <2>2. CASE row' = row
    BY <1>6, <2>1, <2>2
  <2>3. CASE row.status \in {"executing", "awaiting_user"}
    <3>1. NoEnd /\ \A c \in Clients : reply[c].at \notin {"spawn", "patch"}
      BY <1>3, <2>1, <2>3
    <3> QED BY <1>8, <2>1, <3>1
  <2> QED BY <2>1, <2>2, <2>3 DEF SweepsRow
<1>22. ASSUME Crash PROVE Good
  <2>1. /\ runs' = {} /\ reply' = [c \in Clients |-> Quiet] /\ Calm
        /\ UNCHANGED <<row, told>>
    BY <1>22 DEF Crash, boundVars, histVars
  <2>2. Calling' = {} /\ NoneWorks' /\ \A c \in Clients : reply'[c].at = "idle"
    BY <2>1, QuietIsReply DEF Calling, NoneWorks
  <2>3. ToldEnd
    BY <1>1, <2>1, <2>2 DEF Rests
  <2> QED BY <2>1, <2>2, <2>3
<1> HIDE DEF RunEnds, Flipped, ToldEnd
<1>23. Good
  BY <1>9, <1>10, <1>11, <1>12, <1>13, <1>14, <1>15, <1>16, <1>17, <1>18, <1>19, <1>20,
     <1>21, <1>22 DEF Next, RunStep, ReplyStep, Ops
<1> QED BY <1>23 DEF RunEnds, Flipped, ToldEnd

LEMMA GenInvNext ==
  ASSUME GenInv, [Next]_vars
  PROVE  GenInv'
<1>1. CASE Next
  BY <1>1, GenTypeStep, FreshStep, CalmStep, EndsStep DEF GenInv
<1>2. CASE UNCHANGED vars
  BY <1>2 DEF vars, procVars, boundVars, histVars, GenInv, GenTypeOK, CountersOK,
       OutcomesOK, FreshOK, ControlOK, CalmOK, EndsOK, Owed, Rests, NoneWorks, Calling
<1> QED BY <1>1, <1>2

-----------------------------------------------------------------------------
(* The variables hold values of their types and the invariant above holds, *)
(* whichever clients there are and whatever the bounds.                    *)
THEOREM GenerateInvariant == Spec => []GenInv
<1> QED BY GenInitInv, GenInvNext, PTL DEF Spec

(* As long as no call overtakes another, the runs and handoff tasks that   *)
(* replies start are no more than the questions asked: a reply takes its   *)
(* park with it, and no run works that could park again meanwhile.         *)
THEOREM AnswersAreOwed == Spec => []OneAnswerPerPark
<1>1. GenInv => OneAnswerPerPark
  BY DEF GenInv, CalmOK, OneAnswerPerPark
<1> QED BY <1>1, GenerateInvariant, PTL

(* An announced end is the row's, unless a call overtook another or a      *)
(* write failed.                                                           *)
THEOREM AnnouncedEndsHold == Spec => []EndsAsAnnounced
<1>1. GenInv => EndsAsAnnounced
  BY DEF GenInv, EndsOK, Rests, EndsAsAnnounced
<1> QED BY <1>1, GenerateInvariant, PTL
=============================================================================
