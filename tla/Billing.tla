------------------------------- MODULE Billing -------------------------------
(***************************************************************************)
(* One user's purchases: trpc/routers/payment.ts (PayPal orders and their  *)
(* capture), the PayPal webhook and the internal confirm endpoint of       *)
(* http.ts, and the Chinese gateway apps/cn-payment that calls the latter. *)
(* PayPal, WeChat Pay and Alipay are external.                             *)
(*                                                                         *)
(* Amounts are abstracted: a subscription buys one cycle, an add-on pack   *)
(* one unit of bonus.  Time is counted in cycles: `expiry` is how many the *)
(* plan has left, 0 for a user who never paid or whose plan has lapsed,    *)
(* and `used` how many have gone by.                                       *)
(***************************************************************************)
EXTENDS Integers, FiniteSets

CONSTANTS
  PaypalSubs, PaypalAddons,   \* orders placed through PayPal
  CnSubs, CnAddons,           \* orders placed through the Chinese gateway
  MaxCaptures,                \* bound: captureOrder calls
  MaxFailures                 \* bound: requests that fail or time out

Paypal == PaypalSubs \cup PaypalAddons
Cn     == CnSubs \cup CnAddons
Orders == Paypal \cup Cn
Subs   == PaypalSubs \cup CnSubs

ASSUME BillingAssumption ==
  /\ IsFiniteSet(Orders) /\ Paypal \cap Cn = {}
  /\ PaypalSubs \cap PaypalAddons = {} /\ CnSubs \cap CnAddons = {}

VARIABLES
  provider,   \* order -> its state at PayPal, WeChat Pay or Alipay
  row,        \* order -> status of its payments row, "none" without one
  user,       \* users.plan and plan_expires_at, task_quotas.bonus_tasks
  used,       \* history: the cycles for which the plan was on
  captures,   \* captureOrder calls under way
  captured,   \* captureOrder calls made so far
  events,     \* paid PayPal orders whose event is not acknowledged
  hooks,      \* PayPal webhook deliveries in the middle of the handler
  notices,    \* paid Chinese orders whose notification is not acknowledged
  confirms,   \* internal confirm requests in the middle of the handler
  failures

vars == <<provider, row, user, used, captures, captured, events, hooks, notices,
          confirms, failures>>

(* users.plan holds "pack" when an add-on's pack id was written there.     *)
Plans == {"free", "paid", "pack"}
Statuses == {"none", "pending", "completed", "failed"}
PaidAt(o) == provider[o] = "completed"

BillingTypeOK ==
  /\ provider \in
       [Orders -> {"none", "created", "approved", "review", "completed",
                   "declined"}]
  /\ row \in [Orders -> Statuses]
  /\ user \in [plan: Plans, expiry: 0 .. Cardinality(Orders),
               bonus: 0 .. Cardinality(Orders)]
  /\ used \in 0 .. Cardinality(Orders)
  /\ captures \subseteq
       [order: Paypal, at: {"ask", "answered", "load", "flip"}, id: Nat,
        status: {"none", "completed", "review", "declined"},
        expiry: 0 .. Cardinality(Orders)]
  /\ captured \in Nat /\ events \subseteq Paypal
  /\ hooks \subseteq [order: Paypal, expiry: 1 .. 1]
  /\ notices \subseteq Cn
  /\ confirms \subseteq [order: Cn, at: {"insert", "grant"},
                         expiry: 1 .. Cardinality(Orders) + 1]

Init ==
  /\ provider = [o \in Orders |-> "none"]
  /\ row = [o \in Orders |-> "none"]
  /\ user = [plan |-> "free", expiry |-> 0, bonus |-> 0] /\ used = 0
  /\ captures = {} /\ captured = 0 /\ events = {} /\ hooks = {}
  /\ notices = {} /\ confirms = {} /\ failures = 0

Fails == failures < MaxFailures /\ failures' = failures + 1

-----------------------------------------------------------------------------
(* Helpers.                                                                *)

(* nextExpiryFor: on top of what is left, or from now.                     *)
NextExpiry(current) == current + 1

Lapsed == 0

(* What payment.ts reads as affectedRows of an UPDATE that changed so many *)
(* rows: drizzle's mysql2 driver answers [header, fields], the property is *)
(* looked up on that pair and is undefined (index.ts's extractAffectedRows *)
(* explains the shape), so `?? 0` applies.                                 *)
AffectedRowsRead(changed) == 0

-----------------------------------------------------------------------------
(* PayPal.                                                                 *)

(* createOrder and createAddonOrder: the order at PayPal, then its row.    *)
(* Add-ons are for paid plans.                                             *)
CreateOrder(o) ==
  /\ o \in Paypal /\ provider[o] = "none"
  /\ o \in PaypalAddons => user.plan = "paid"
  /\ provider' = [provider EXCEPT ![o] = "created"]
  /\ row' = [row EXCEPT ![o] = "pending"]
  /\ UNCHANGED <<user, used, captures, captured, events, hooks, notices, confirms,
                 failures>>

Approve(o) ==
  /\ o \in Paypal /\ provider[o] = "created"
  /\ provider' = [provider EXCEPT ![o] = "approved"]
  /\ UNCHANGED <<row, user, used, captures, captured, events, hooks, notices, confirms,
                 failures>>

Announced(o, state) == IF state = "completed" THEN events \cup {o} ELSE events

(* A capture under review is decided later.                                *)
ReviewEnds(o, how) ==
  /\ o \in Paypal /\ provider[o] = "review"
  /\ provider' = [provider EXCEPT ![o] = how]
  /\ events' = Announced(o, how)
  /\ UNCHANGED <<row, user, used, captures, captured, hooks, notices, confirms,
                 failures>>

(* captureOrder: a row that is already 'completed' is answered at once.    *)
CaptureStart(o) ==
  /\ o \in Paypal /\ captured < MaxCaptures
  /\ row[o] \notin {"none", "completed"}
  /\ provider[o] # "created"
  /\ captured' = captured + 1
  /\ captures' = captures \cup
       {[order |-> o, at |-> "ask", id |-> captured, status |-> "none",
         expiry |-> 0]}
  /\ UNCHANGED <<provider, row, user, used, events, hooks, notices, confirms, failures>>

Replaced(c, new) == (captures \ {c}) \cup {new}

Settled_NotDeclined(status) == status # "declined"

(* Only COMPLETED counts as captured.                                      *)
Settled(status) == status = "completed"

(* The request to PayPal.  It captures an approved order once and answers  *)
(* the existing capture of one that is captured; it may time out on either *)
(* side of the capture.                                                    *)
CaptureAsk(c, outcome) ==
  /\ c \in captures /\ c.at = "ask"
  /\ IF provider[c.order] = "approved"
     THEN /\ provider' = [provider EXCEPT ![c.order] = outcome]
          /\ events' = Announced(c.order, outcome)
     ELSE provider[c.order] = outcome /\ UNCHANGED <<provider, events>>
  /\ \/ /\ captures' = Replaced(c, [c EXCEPT
             !.at = IF Settled(outcome) THEN "load" ELSE "answered",
             !.status = outcome])
        /\ UNCHANGED failures
     \/ captures' = captures \ {c} /\ Fails
  /\ UNCHANGED <<row, user, used, captured, hooks, notices, confirms>>

(* Not captured: the row is written by id, whatever it says by now.        *)
CaptureRefused(c) ==
  /\ c \in captures /\ c.at = "answered"
  /\ captures' = captures \ {c}
  /\ row' = [row EXCEPT ![c.order] =
              IF c.status = "declined" THEN "failed" ELSE "pending"]
  /\ UNCHANGED <<provider, user, used, captured, events, hooks, notices, confirms,
                 failures>>

(* The user row is read.  An add-on of a user without a paid plan is       *)
(* refused and its row fails, although the money was taken.                *)
CaptureLoad(c) ==
  /\ c \in captures /\ c.at = "load"
  /\ IF c.order \in PaypalAddons /\ user.plan # "paid"
     THEN /\ row' = [row EXCEPT ![c.order] = "failed"]
          /\ captures' = captures \ {c}
     ELSE /\ captures' = Replaced(c, [c EXCEPT
               !.at = "flip", !.expiry = user.expiry])
          /\ UNCHANGED row
  /\ UNCHANGED <<provider, user, used, captured, events, hooks, notices, confirms,
                 failures>>

(* pending -> completed, conditional.  The plan is extended in the same    *)
(* transaction and the add-on applied after it, if affectedRows says that  *)
(* this call changed the row.                                              *)
CaptureFlip(c) ==
  /\ c \in captures /\ c.at = "flip"
  /\ captures' = captures \ {c}
  /\ LET changed == IF row[c.order] = "pending" THEN 1 ELSE 0
         won     == AffectedRowsRead(changed) = 1
     IN
     /\ row' = [row EXCEPT ![c.order] = IF changed = 1 THEN "completed" ELSE @]
     /\ user' = CASE won /\ c.order \in Subs ->
                       [user EXCEPT !.plan = "paid",
                                    !.expiry = NextExpiry(c.expiry)]
                  [] won /\ c.order \notin Subs ->
                       [user EXCEPT !.bonus = @ + 1]
                  [] OTHER -> user
  /\ UNCHANGED <<provider, used, captured, events, hooks, notices, confirms, failures>>

(* A PAYMENT.CAPTURE.COMPLETED event.  PayPal repeats it until it gets a   *)
(* 200, so deliveries overlap and come late.  A row that is completed is   *)
(* answered at once.                                                       *)
HookRead(o) ==
  /\ o \in events
  /\ IF row[o] = "completed"
     THEN events' = events \ {o} /\ UNCHANGED hooks
     ELSE /\ hooks' = hooks \cup {[order |-> o, expiry |-> NextExpiry(Lapsed)]}
          /\ UNCHANGED events
  /\ UNCHANGED <<provider, row, user, used, captures, captured, notices, confirms,
                 failures>>

Acknowledged_Always(ok) == TRUE

(* A failed transaction is answered 500, and PayPal comes again.           *)
Acknowledged(ok) == ok

(* users.plan becomes whatever the order's plan column holds.              *)
HookPlan(o) == IF o \in Subs THEN "paid" ELSE "pack"

(* One transaction on the row and the user, both by id.  It asks neither   *)
(* for the kind of the order nor for the days that are left.               *)
HookWrite(h, ok) ==
  /\ h \in hooks
  /\ hooks' = hooks \ {h}
  /\ events' = IF Acknowledged(ok) THEN events \ {h.order} ELSE events
  /\ IF ok
     THEN /\ row' = [row EXCEPT ![h.order] = "completed"]
          /\ user' = [user EXCEPT !.plan = HookPlan(h.order),
                                  !.expiry = h.expiry]
          /\ UNCHANGED failures
     ELSE Fails /\ UNCHANGED <<row, user>>
  /\ UNCHANGED <<provider, used, captures, captured, notices, confirms>>

-----------------------------------------------------------------------------
(* The Chinese gateway.                                                    *)

(* createCnOrder forwards to /payment/create; no row is written.           *)
CreateCnOrder(o) ==
  /\ o \in Cn /\ provider[o] = "none"
  /\ provider' = [provider EXCEPT ![o] = "created"]
  /\ UNCHANGED <<row, user, used, captures, captured, events, hooks, notices, confirms,
                 failures>>

(* The user pays; the provider notifies until it is acknowledged.          *)
PayCn(o) ==
  /\ o \in Cn /\ provider[o] = "created"
  /\ provider' = [provider EXCEPT ![o] = "completed"]
  /\ notices' = notices \cup {o}
  /\ UNCHANGED <<row, user, used, captures, captured, events, hooks, confirms, failures>>

(* A notification reaches cn-payment, which posts it to the orchestrator   *)
(* and acknowledges it whatever sync.confirm() returned.  The post may get *)
(* lost; the acknowledgement may get lost and the notice come again.       *)
Notify(o, posted, acked) ==
  /\ o \in notices
  /\ confirms' = IF posted
                 THEN confirms \cup {[order |-> o, at |-> "insert",
                                      expiry |-> NextExpiry(user.expiry)]}
                 ELSE confirms
  /\ notices' = IF acked THEN notices \ {o} ELSE notices
  /\ IF posted /\ acked THEN UNCHANGED failures ELSE Fails
  /\ UNCHANGED <<provider, row, user, used, captures, captured, events, hooks>>

Lands_Always(o) == TRUE

(* INSERT ... ON DUPLICATE KEY on (provider, transaction): only one        *)
(* request finds its own external id in the row.                           *)
Lands(o) == row[o] = "none"

(* /internal/payment/confirm: the user was read when the request came in,  *)
(* the row and a subscription's plan are one transaction, a pack is        *)
(* applied after it.                                                       *)
ConfirmInsert(k) ==
  /\ k \in confirms /\ k.at = "insert"
  /\ row' = [row EXCEPT ![k.order] = "completed"]
  /\ IF Lands(k.order) /\ k.order \in CnSubs
     THEN user' = [user EXCEPT !.plan = "paid", !.expiry = k.expiry]
     ELSE UNCHANGED user
  /\ confirms' = (confirms \ {k}) \cup
       (IF Lands(k.order) /\ k.order \in CnAddons
        THEN {[k EXCEPT !.at = "grant"]} ELSE {})
  /\ UNCHANGED <<provider, used, captures, captured, events, hooks, notices, failures>>

ConfirmGrant(k, ok) ==
  /\ k \in confirms /\ k.at = "grant"
  /\ confirms' = confirms \ {k}
  /\ IF ok THEN /\ user' = [user EXCEPT !.bonus = @ + 1]
                /\ UNCHANGED failures
           ELSE Fails /\ UNCHANGED user
  /\ UNCHANGED <<provider, row, used, captures, captured, events, hooks, notices>>

-----------------------------------------------------------------------------
(* A cycle of the plan goes by.  It has 30 days or more: no request, and no *)
(* round of redeliveries, lasts that long.  users.plan is left as it is;    *)
(* nothing in the code ends a plan that has lapsed.                         *)
CyclePasses ==
  /\ user.expiry > 0
  /\ captures = {} /\ events = {} /\ hooks = {} /\ notices = {} /\ confirms = {}
  /\ user' = [user EXCEPT !.expiry = @ - 1]
  /\ used' = used + 1
  /\ UNCHANGED <<provider, row, captures, captured, events, hooks, notices, confirms,
                 failures>>

-----------------------------------------------------------------------------
Next ==
  \/ \E o \in Orders :
       \/ CreateOrder(o) \/ Approve(o) \/ CaptureStart(o) \/ HookRead(o)
       \/ \E how \in {"completed", "declined"} : ReviewEnds(o, how)
       \/ CreateCnOrder(o) \/ PayCn(o)
       \/ \E posted, acked \in BOOLEAN : Notify(o, posted, acked)
  \/ \E c \in captures :
       \/ \E how \in {"completed", "review", "declined"} : CaptureAsk(c, how)
       \/ CaptureRefused(c) \/ CaptureLoad(c) \/ CaptureFlip(c)
  \/ \E h \in hooks, ok \in BOOLEAN : HookWrite(h, ok)
  \/ \E k \in confirms :
       \/ ConfirmInsert(k)
       \/ \E ok \in BOOLEAN : ConfirmGrant(k, ok)
  \/ CyclePasses

(* PayPal and the Chinese providers repeat a notification until it is      *)
(* acknowledged, and a request that has begun is carried to its end.       *)
Fairness ==
  /\ \A o \in Orders :
       /\ WF_vars(HookRead(o))
       /\ WF_vars(Notify(o, TRUE, TRUE))
  /\ WF_vars(\E h \in hooks, ok \in BOOLEAN : HookWrite(h, ok))
  /\ WF_vars(\E c \in captures :
               \/ \E how \in {"completed", "review", "declined"} :
                    CaptureAsk(c, how)
               \/ CaptureRefused(c) \/ CaptureLoad(c) \/ CaptureFlip(c))
  /\ WF_vars(\E k \in confirms : ConfirmInsert(k)
                                 \/ \E ok \in BOOLEAN : ConfirmGrant(k, ok))

Spec == Init /\ [][Next]_vars /\ Fairness

-----------------------------------------------------------------------------
(* Nobody gets more than was paid for, however often a capture, a webhook  *)
(* or a notification is repeated, whatever they race with and however long *)
(* the user waits between the purchases.  A cycle is bought by every paid  *)
(* subscription, and by every add-on paid at PayPal too, whose webhook     *)
(* writes one (http.ts:333); bonus is bought by packs only.                *)
Bought == {o \in Subs \cup PaypalAddons : PaidAt(o)}

NeverOverCredited ==
  /\ used + user.expiry <= Cardinality(Bought)
  /\ user.bonus <= Cardinality({o \in Orders \ Subs : PaidAt(o)})

(* A row is completed, and the user leaves the free plan, only for money   *)
(* that the provider has taken: not while a capture is under review, and   *)
(* not for one it declined.                                                *)
NothingWithoutPayment ==
  /\ \A o \in Orders : row[o] = "completed" => PaidAt(o)
  /\ user.plan # "free" => \E o \in Orders : PaidAt(o)

(* PayPal's event for a captured payment completes its row in the end,     *)
(* whatever fails on the way and whatever capture calls it races with.     *)
(* (It need not stay so: CaptureRefused may still write over it.)          *)
CapturedPaymentCompletes ==
  \A o \in Paypal : o \in events ~> row[o] = "completed"
=============================================================================
