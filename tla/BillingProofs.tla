---------------------------- MODULE BillingProofs ----------------------------
(* Theorems about Billing, for any orders and any number of repetitions.   *)
EXTENDS Billing, FiniteSetTheorems, TLAPS

(* Everything that can complete a row stands for money that was taken.     *)
PaidOK ==
  /\ \A o \in Orders : row[o] = "completed" => PaidAt(o)
  /\ \A c \in captures : c.at \in {"load", "flip"} => PaidAt(c.order)
  /\ \A o \in events \cup notices : PaidAt(o)
  /\ \A h \in hooks \cup confirms : PaidAt(h.order)

(* What the user may be credited with: a cycle for every Chinese           *)
(* subscription that landed and for every PayPal order that was captured.  *)
(* It only ever grows.  A cycle passes only when no event of PayPal's and  *)
(* no delivery of one is left, so while there is one, the cycle it stands  *)
(* for has not been used.                                                  *)
Landed     == {o \in CnSubs : row[o] = "completed"}
PaidPaypal == {o \in Paypal : PaidAt(o)}
Credit     == Cardinality(Landed) + Cardinality(PaidPaypal)

Announcing == events # {} \/ hooks # {}

CreditOK ==
  /\ used + user.expiry <= Credit
  /\ user.plan # "free" => Credit >= 1
  /\ Announcing => used + 1 <= Credit
  /\ \A k \in confirms : used + k.expiry <= Credit + 1

(* A pack that landed is applied once: until then one request is going to  *)
(* apply it.                                                               *)
Granting(k) == k.at = "grant"
Served == {o \in CnAddons : /\ row[o] = "completed"
                            /\ \A k \in confirms : Granting(k) => k.order # o}

BonusOK ==
  /\ \A k \in confirms :
       Granting(k) => k.order \in CnAddons /\ row[k.order] = "completed"
  /\ \A k, l \in confirms :
       Granting(k) /\ Granting(l) /\ k.order = l.order => k = l
  /\ user.bonus <= Cardinality(Served)

(* The types that do not depend on the counting.                           *)
UserOK == user \in [plan: Plans, expiry: Nat, bonus: Nat] /\ used \in Nat
OrdersOK ==
  /\ provider \in
       [Orders -> {"none", "created", "approved", "review", "completed",
                   "declined"}]
  /\ row \in [Orders -> Statuses]
CallsOK ==
  /\ captures \subseteq
       [order: Paypal, at: {"ask", "answered", "load", "flip"}, id: Nat,
        status: {"none", "completed", "review", "declined"},
        expiry: 0 .. Cardinality(Orders)]
  /\ captured \in Nat /\ events \subseteq Paypal
  /\ hooks \subseteq [order: Paypal, expiry: 1 .. 1]
  /\ notices \subseteq Cn
  /\ confirms \subseteq [order: Cn, at: {"insert", "grant"},
                         expiry: 1 .. Cardinality(Orders) + 1]

BillingInv ==
  UserOK /\ OrdersOK /\ CallsOK /\ PaidOK /\ CreditOK /\ BonusOK

-----------------------------------------------------------------------------
(* Counting.                                                               *)

LEMMA Finite ==
  ASSUME NEW S \in SUBSET Orders
  PROVE  IsFiniteSet(S) /\ Cardinality(S) \in Nat
BY FS_Subset, FS_CardinalityType, BillingAssumption

LEMMA Counts ==
  /\ Cardinality(Landed) \in Nat /\ Cardinality(PaidPaypal) \in Nat /\ Credit \in Nat
  /\ Cardinality(Landed') \in Nat /\ Cardinality(PaidPaypal') \in Nat /\ Credit' \in Nat
  /\ Cardinality(Served) \in Nat /\ Cardinality(Served') \in Nat
  /\ Cardinality(Subs) \in Nat /\ Cardinality(Orders) \in Nat
BY Finite DEF Landed, PaidPaypal, Served, Credit, Orders, Cn, Paypal, Subs

(* Two sets of orders, one in the other.                                   *)
LEMMA Larger ==
  ASSUME NEW S \in SUBSET Orders, NEW T \in SUBSET S
  PROVE  Cardinality(T) <= Cardinality(S)
BY Finite, FS_Subset

LEMMA OneMore ==
  ASSUME NEW S \in SUBSET Orders, NEW T \in SUBSET S, NEW x \in S, x \notin T
  PROVE  Cardinality(T) + 1 <= Cardinality(S)
<1>1. IsFiniteSet(T) /\ Cardinality(T) \in Nat
  BY Finite
<1>2. Cardinality(T \cup {x}) = Cardinality(T) + 1
  BY <1>1, FS_AddElement
<1>3. Cardinality(T \cup {x}) <= Cardinality(S)
  BY Larger
<1> QED BY <1>2, <1>3

LEMMA CreditGrows ==
  ASSUME \A o \in CnSubs : row[o] = "completed" => row'[o] = "completed",
         \A o \in Paypal : PaidAt(o) => PaidAt(o)'
  PROVE  /\ Credit <= Credit'
         /\ (\E o \in Paypal : PaidAt(o)' /\ ~PaidAt(o)) => Credit + 1 <= Credit'
<1>1. Landed \in SUBSET Landed' /\ Landed' \in SUBSET Orders
  BY DEF Landed, Orders, Cn
<1>2. PaidPaypal \in SUBSET PaidPaypal' /\ PaidPaypal' \in SUBSET Orders
  BY DEF PaidPaypal, Orders
<1>3. /\ Cardinality(Landed) <= Cardinality(Landed')
      /\ Cardinality(PaidPaypal) <= Cardinality(PaidPaypal')
  BY <1>1, <1>2, Larger
<1>4. ASSUME NEW o \in Paypal, PaidAt(o)', ~PaidAt(o)
      PROVE  Cardinality(PaidPaypal) + 1 <= Cardinality(PaidPaypal')
  <2>1. o \in PaidPaypal' /\ o \notin PaidPaypal
    BY <1>4 DEF PaidPaypal
  <2> QED BY <1>2, <2>1, OneMore
<1> QED BY <1>3, <1>4, Counts DEF Credit

(* The invariant gives what the runs check.                                *)
LEMMA InvNeverOverCredited ==
  ASSUME UserOK, PaidOK, CreditOK, BonusOK
  PROVE  /\ NeverOverCredited /\ used <= Cardinality(Orders)
         /\ user.expiry <= Cardinality(Orders) /\ user.bonus <= Cardinality(Orders)
<1> DEFINE A == {o \in Orders \ Subs : PaidAt(o)}
<1>1. Bought \in SUBSET Orders /\ A \in SUBSET Orders
      /\ Orders \in SUBSET Orders
  BY DEF Bought, Subs, Orders, Paypal, Cn
<1>2. Landed \in SUBSET Bought /\ PaidPaypal \in SUBSET Bought
  BY DEF Bought, Landed, PaidPaypal, PaidOK, Subs, Orders, Cn, Paypal
<1>3. Landed \cap PaidPaypal = {}
  BY BillingAssumption DEF Landed, PaidPaypal, Paypal, Cn
<1>4. Served \in SUBSET A
  BY BillingAssumption DEF Served, PaidOK, Subs, Orders, Cn, Paypal
<1> HIDE DEF A
<1>5. IsFiniteSet(Landed) /\ IsFiniteSet(PaidPaypal)
  BY <1>1, <1>2, Finite
<1>6. Cardinality(Landed \cup PaidPaypal) = Credit
  <2>1. Cardinality(Landed \cup PaidPaypal)
          = Cardinality(Landed) + Cardinality(PaidPaypal) - Cardinality({})
    BY <1>3, <1>5, FS_Union
  <2>2. Cardinality({}) = 0
    BY FS_EmptySet
  <2> QED BY <2>1, <2>2, Counts DEF Credit
<1>7. Credit <= Cardinality(Bought) /\ Cardinality(Bought) <= Cardinality(Orders)
  BY <1>1, <1>2, <1>6, Larger
<1>8. Cardinality(Served) <= Cardinality(A) /\ Cardinality(A) <= Cardinality(Orders)
  BY <1>1, <1>4, Larger
<1>9. Cardinality(Bought) \in Nat /\ Cardinality(A) \in Nat
      /\ user.expiry \in Nat /\ user.bonus \in Nat /\ used \in Nat
  BY <1>1, Finite DEF UserOK
<1>10. used + user.expiry <= Cardinality(Bought) /\ user.bonus <= Cardinality(A)
  BY <1>7, <1>8, <1>9, Counts DEF CreditOK, BonusOK
<1>11. NeverOverCredited
  BY <1>10 DEF NeverOverCredited, A
<1> QED BY <1>7, <1>8, <1>9, <1>10, <1>11, Counts

LEMMA InvNothingWithoutPayment ==
  ASSUME PaidOK, CreditOK
  PROVE  NothingWithoutPayment
<1>1. ASSUME Credit >= 1 PROVE \E o \in Orders : PaidAt(o)
  <2>1. Landed # {} \/ PaidPaypal # {}
    BY <1>1, FS_EmptySet DEF Credit
  <2> QED BY <2>1 DEF Landed, PaidPaypal, PaidOK, Orders, Cn
<1> QED BY <1>1 DEF NothingWithoutPayment, PaidOK, CreditOK

LEMMA InvTypes ==
  ASSUME BillingInv
  PROVE  /\ BillingTypeOK
         /\ NeverOverCredited
         /\ NothingWithoutPayment
<1>1. user.plan \in Plans /\ user.expiry \in Nat /\ user.bonus \in Nat /\ used \in Nat
  BY DEF BillingInv, UserOK
<1>2. /\ NeverOverCredited /\ used <= Cardinality(Orders)
      /\ user.expiry <= Cardinality(Orders)
      /\ user.bonus <= Cardinality(Orders)
  BY InvNeverOverCredited DEF BillingInv
<1>3. /\ user.expiry \in 0 .. Cardinality(Orders) /\ user.bonus \in 0 .. Cardinality(Orders)
      /\ used \in 0 .. Cardinality(Orders)
  BY <1>1, <1>2, Counts
<1>4. user = [plan |-> user.plan, expiry |-> user.expiry, bonus |-> user.bonus]
  BY DEF BillingInv, UserOK
<1>5. user \in [plan: Plans, expiry: 0 .. Cardinality(Orders),
                bonus: 0 .. Cardinality(Orders)]
  BY <1>1, <1>3, <1>4
<1>6. BillingTypeOK
  BY <1>3, <1>5 DEF BillingTypeOK, BillingInv, OrdersOK, CallsOK
<1>7. NothingWithoutPayment
  BY InvNothingWithoutPayment DEF BillingInv
<1> QED BY <1>2, <1>6, <1>7

-----------------------------------------------------------------------------
(* Steps that leave the user and the Chinese rows alone keep the counting. *)
LEMMA Keeps ==
  ASSUME BillingInv, CallsOK', user' = user, used' = used,
         \A o \in Cn : row'[o] = row[o],
         \A o \in Paypal : PaidAt(o) => PaidAt(o)',
         Announcing' => Announcing \/ \E o \in Paypal : PaidAt(o)' /\ ~PaidAt(o),
         \A k \in confirms' :
           k \in confirms \/ (k.at = "insert" /\ k.expiry = user.expiry + 1)
  PROVE  CreditOK' /\ BonusOK'
<1>1. /\ Credit <= Credit'
      /\ (\E o \in Paypal : PaidAt(o)' /\ ~PaidAt(o)) => Credit + 1 <= Credit'
  BY CreditGrows DEF Cn
<1>2. user.expiry \in Nat /\ used \in Nat
  BY DEF BillingInv, UserOK
<1>3. used' + user'.expiry <= Credit'
  BY <1>1, <1>2, Counts DEF BillingInv, CreditOK
<1>4. user'.plan # "free" => Credit' >= 1
  BY <1>1, Counts DEF BillingInv, CreditOK
<1>5. Announcing' => used' + 1 <= Credit'
  <2>1. used + user.expiry <= Credit /\ (Announcing => used + 1 <= Credit)
    BY DEF BillingInv, CreditOK
  <2> QED BY <1>1, <1>2, <2>1, Counts
<1>6. ASSUME NEW k \in confirms' PROVE used' + k.expiry <= Credit' + 1
  <2>1. k.expiry \in Nat
    BY Counts DEF CallsOK
  <2>2. used + k.expiry <= Credit + 1
    BY <1>2, <2>1, Counts DEF BillingInv, CreditOK
  <2> QED BY <1>1, <1>2, <2>1, <2>2, Counts
<1>7. CreditOK'
  BY <1>3, <1>4, <1>5, <1>6 DEF CreditOK
<1>8. \A k \in confirms' : Granting(k) => k \in confirms
  BY DEF Granting
<1>9. Served \in SUBSET Served' /\ Served' \in SUBSET Orders
  BY <1>8 DEF Served, Orders, Cn
<1>10. Cardinality(Served) <= Cardinality(Served')
  BY <1>9, Larger
<1>11. user'.bonus <= Cardinality(Served')
  BY <1>10, Counts DEF BillingInv, BonusOK, UserOK
<1>12. BonusOK'
  BY <1>8, <1>11 DEF BonusOK, BillingInv, Granting, CallsOK, Cn
<1> QED BY <1>7, <1>12

-----------------------------------------------------------------------------
(* The steps.                                                              *)

LEMMA Kinds ==
  /\ Paypal \subseteq Orders /\ Cn \subseteq Orders /\ Subs \subseteq Orders
  /\ PaypalSubs \subseteq Paypal /\ PaypalAddons \subseteq Paypal
  /\ CnSubs \subseteq Cn /\ CnAddons \subseteq Cn
  /\ \A o \in Paypal : o \notin Cn
BY BillingAssumption DEF Orders, Paypal, Cn, Subs

(* At the provider, before any money moves.                                *)
LEMMA StepOrders ==
  ASSUME BillingInv, NEW o \in Orders, CreateOrder(o) \/ Approve(o) \/ CreateCnOrder(o)
  PROVE  BillingInv'
<1>1. /\ OrdersOK' /\ CallsOK' /\ user' = user /\ used' = used /\ confirms' = confirms
      /\ events' = events /\ hooks' = hooks
      /\ \A p \in Cn : row'[p] = row[p]
      /\ \A p \in Orders : PaidAt(p) <=> PaidAt(p)'
      /\ \A p \in Orders : row'[p] = "completed" => row[p] = "completed"
  BY Kinds DEF CreateOrder, Approve, CreateCnOrder, BillingInv, OrdersOK, CallsOK,
               Statuses, PaidAt
<1>2. CreditOK' /\ BonusOK'
  BY <1>1, Keeps, Kinds DEF Announcing
<1>3. PaidOK'
  BY <1>1, Kinds DEF BillingInv, PaidOK, CreateOrder, Approve, CreateCnOrder, CallsOK
<1>4. UserOK'
  BY <1>1 DEF BillingInv, UserOK
<1> QED BY <1>1, <1>2, <1>3, <1>4 DEF BillingInv

(* A payment or a review that ends: money can only be taken.               *)
LEMMA StepPaid ==
  ASSUME BillingInv, NEW o \in Orders,
         PayCn(o) \/ \E how \in {"completed", "declined"} : ReviewEnds(o, how)
  PROVE  BillingInv'
<1>1. /\ OrdersOK' /\ CallsOK' /\ user' = user /\ used' = used /\ confirms' = confirms
      /\ row' = row /\ hooks' = hooks /\ captures' = captures
      /\ \A p \in Orders : PaidAt(p) => PaidAt(p)'
      /\ events' # events => \E p \in Paypal : PaidAt(p)' /\ ~PaidAt(p)
      /\ \A p \in events' \cup notices' : PaidAt(p)'
  BY Kinds DEF PayCn, ReviewEnds, Announced, BillingInv, OrdersOK, CallsOK, PaidOK, PaidAt
<1>2. CreditOK' /\ BonusOK'
  BY <1>1, Keeps, Kinds DEF Announcing
<1>3. PaidOK'
  BY <1>1, Kinds DEF BillingInv, PaidOK, CallsOK
<1>4. UserOK'
  BY <1>1 DEF BillingInv, UserOK
<1> QED BY <1>1, <1>2, <1>3, <1>4 DEF BillingInv

(* The types and facts that a call of captureOrder carries.                *)
CaptureRecords ==
  [order: Paypal, at: {"ask", "answered", "load", "flip"}, id: Nat,
   status: {"none", "completed", "review", "declined"},
   expiry: 0 .. Cardinality(Orders)]

LEMMA StepCaptureStart ==
  ASSUME BillingInv, NEW o \in Orders, CaptureStart(o)
  PROVE  BillingInv'
<1> DEFINE new == [order |-> o, at |-> "ask", id |-> captured, status |-> "none",
                   expiry |-> 0]
<1>1. new \in CaptureRecords
  BY Counts DEF CaptureStart, CaptureRecords, BillingInv, CallsOK
<1>2. captures' = captures \cup {new} /\ new.at = "ask"
  BY DEF CaptureStart
<1> HIDE DEF new
<1>3. captures' \subseteq CaptureRecords /\ captured' \in Nat
  BY <1>1, <1>2 DEF CaptureStart, CaptureRecords, BillingInv, CallsOK
<1>4. OrdersOK' /\ CallsOK' /\ UserOK'
  BY <1>3 DEF CaptureStart, CaptureRecords, BillingInv, CallsOK, OrdersOK, UserOK
<1>5. CreditOK' /\ BonusOK'
  BY <1>4, Keeps, Kinds DEF CaptureStart, PaidAt, Announcing
<1>6. PaidOK'
  BY <1>2 DEF BillingInv, PaidOK, PaidAt, CaptureStart
<1> QED BY <1>4, <1>5, <1>6 DEF BillingInv

(* PayPal takes the money of an approved order at most once.               *)
LEMMA StepCaptureAsk ==
  ASSUME BillingInv, NEW c \in captures, NEW how \in {"completed", "review", "declined"},
         CaptureAsk(c, how)
  PROVE  BillingInv'
<1> DEFINE new == [c EXCEPT !.at = IF Settled(how) THEN "load" ELSE "answered",
                            !.status = how]
<1>1. c \in CaptureRecords /\ c.order \in Orders /\ c.order \in Paypal
  BY Kinds DEF CaptureRecords, BillingInv, CallsOK
<1>2. /\ new \in CaptureRecords /\ new.order = c.order
      /\ new.at \in {"load", "flip"} => how = "completed"
  BY <1>1 DEF CaptureRecords, Settled
<1>3. captures' \subseteq captures \cup {new}
  BY DEF CaptureAsk, Replaced
<1> HIDE DEF new
<1>4. captures' \subseteq CaptureRecords
  BY <1>2, <1>3 DEF CaptureRecords, BillingInv, CallsOK
<1>5. /\ provider' = [provider EXCEPT ![c.order] = how] \/ provider' = provider
      /\ provider'[c.order] = how
      /\ events' \subseteq events \cup {c.order}
      /\ events' # events => how = "completed" /\ PaidAt(c.order)' /\ ~PaidAt(c.order)
      /\ \A p \in Orders : PaidAt(p) => PaidAt(p)'
  BY <1>1 DEF CaptureAsk, Announced, PaidAt, BillingInv, OrdersOK
<1>6. OrdersOK' /\ CallsOK' /\ UserOK'
  BY <1>1, <1>4, <1>5 DEF CaptureAsk, CaptureRecords, BillingInv, CallsOK, OrdersOK, UserOK
<1>7. CreditOK' /\ BonusOK'
  BY <1>1, <1>5, <1>6, Keeps, Kinds DEF CaptureAsk, Announcing
<1>8. \A d \in captures' : d.at \in {"load", "flip"} => PaidAt(d.order)'
  BY <1>1, <1>2, <1>3, <1>5, Kinds DEF PaidAt, BillingInv, PaidOK, CallsOK
<1>9. \A p \in events' \cup notices' : PaidAt(p)'
  BY <1>1, <1>5, Kinds DEF PaidAt, BillingInv, PaidOK, CallsOK, CaptureAsk
<1>10. PaidOK'
  BY <1>5, <1>8, <1>9, Kinds DEF BillingInv, PaidOK, CallsOK, CaptureAsk
<1> QED BY <1>6, <1>7, <1>10 DEF BillingInv

(* A refused capture only writes over the row.                             *)
LEMMA StepCaptureRefused ==
  ASSUME BillingInv, NEW c \in captures, CaptureRefused(c)
  PROVE  BillingInv'
<1>1. c.order \in Paypal
  BY DEF BillingInv, CallsOK
<1>2. /\ OrdersOK' /\ CallsOK' /\ UserOK' /\ user' = user
      /\ \A p \in Cn : row'[p] = row[p]
      /\ \A p \in Orders : row'[p] = "completed" => row[p] = "completed"
  BY <1>1, Kinds DEF CaptureRefused, BillingInv, OrdersOK, CallsOK, UserOK, Statuses
<1>3. CreditOK' /\ BonusOK'
  BY <1>2, Keeps DEF CaptureRefused, PaidAt, Announcing
<1>4. PaidOK'
  BY <1>2 DEF BillingInv, PaidOK, PaidAt, CaptureRefused
<1> QED BY <1>2, <1>3, <1>4 DEF BillingInv

LEMMA StepCaptureLoad ==
  ASSUME BillingInv, NEW c \in captures, CaptureLoad(c)
  PROVE  BillingInv'
<1> DEFINE new == [c EXCEPT !.at = "flip", !.expiry = user.expiry]
<1>1. c \in CaptureRecords /\ c.order \in Paypal /\ c.at = "load"
  BY DEF CaptureRecords, BillingInv, CallsOK, CaptureLoad
<1>2. new \in CaptureRecords /\ new.order = c.order
  BY <1>1, InvTypes DEF CaptureRecords, BillingTypeOK
<1>3. captures' \subseteq captures \cup {new}
  BY DEF CaptureLoad, Replaced
<1> HIDE DEF new
<1>4. captures' \subseteq CaptureRecords
  BY <1>2, <1>3 DEF CaptureRecords, BillingInv, CallsOK
<1>5. /\ OrdersOK' /\ CallsOK' /\ UserOK' /\ user' = user
      /\ \A p \in Cn : row'[p] = row[p]
      /\ \A p \in Orders : row'[p] = "completed" => row[p] = "completed"
  BY <1>1, <1>4, Kinds
  DEF CaptureLoad, CaptureRecords, BillingInv, OrdersOK, CallsOK, UserOK, Statuses
<1>6. CreditOK' /\ BonusOK'
  BY <1>5, Keeps DEF CaptureLoad, PaidAt, Announcing
<1>7. PaidOK'
  BY <1>1, <1>2, <1>3, <1>5 DEF BillingInv, PaidOK, PaidAt, CaptureLoad
<1> QED BY <1>5, <1>6, <1>7 DEF BillingInv

(* The flip completes the row of a captured payment, and affectedRows,     *)
(* read where it is not, keeps the user as it was.                         *)
LEMMA StepCaptureFlip ==
  ASSUME BillingInv, NEW c \in captures, CaptureFlip(c)
  PROVE  BillingInv'
<1>1. c.order \in Paypal /\ c.order \in Orders /\ PaidAt(c.order)
  BY Kinds DEF BillingInv, CallsOK, PaidOK, CaptureFlip
<1>2. user' = user
  BY DEF CaptureFlip, AffectedRowsRead
<1>3. /\ row' = row \/ row' = [row EXCEPT ![c.order] = "completed"]
      /\ captures' \subseteq captures
  BY <1>1 DEF CaptureFlip, BillingInv, OrdersOK
<1>4. OrdersOK' /\ CallsOK' /\ UserOK' /\ \A p \in Cn : row'[p] = row[p]
  BY <1>1, <1>2, <1>3, Kinds
  DEF CaptureFlip, BillingInv, OrdersOK, CallsOK, UserOK, Statuses
<1>5. CreditOK' /\ BonusOK'
  BY <1>2, <1>4, Keeps DEF CaptureFlip, PaidAt, Announcing
<1>6. PaidOK'
  BY <1>1, <1>3 DEF BillingInv, PaidOK, PaidAt, CaptureFlip, OrdersOK
<1> QED BY <1>4, <1>5, <1>6 DEF BillingInv

-----------------------------------------------------------------------------
(* The webhook.                                                            *)

LEMMA StepHookRead ==
  ASSUME BillingInv, NEW o \in Orders, HookRead(o)
  PROVE  BillingInv'
<1>1. /\ OrdersOK' /\ CallsOK' /\ UserOK' /\ user' = user
      /\ events' \subseteq events
      /\ hooks' \subseteq hooks \cup {[order |-> o, expiry |-> 1]}
      /\ o \in events
  BY DEF HookRead, BillingInv, OrdersOK, CallsOK, UserOK, NextExpiry, Lapsed
<1>2. CreditOK' /\ BonusOK'
  BY <1>1, Keeps DEF HookRead, PaidAt, Announcing
<1>3. PaidOK'
  BY <1>1 DEF BillingInv, PaidOK, PaidAt, HookRead
<1> QED BY <1>1, <1>2, <1>3 DEF BillingInv

(* The webhook sets the plan to one cycle.  While its delivery is under    *)
(* way no cycle passes, so the one its payment stands for is still unused. *)
LEMMA StepHookWrite ==
  ASSUME BillingInv, NEW h \in hooks, NEW ok \in BOOLEAN, HookWrite(h, ok)
  PROVE  BillingInv'
<1>1. /\ h.order \in Paypal /\ h.order \in Orders /\ h.expiry = 1
      /\ PaidAt(h.order)
  BY Kinds DEF BillingInv, CallsOK, PaidOK
<1>2. row' = row \/ row' = [row EXCEPT ![h.order] = "completed"]
  BY DEF HookWrite
<1>3. /\ OrdersOK' /\ CallsOK' /\ \A p \in Cn : row'[p] = row[p]
      /\ \A p \in Orders : row'[p] = "completed" => PaidAt(p)
      /\ UNCHANGED <<provider, used, captures, notices, confirms>>
      /\ events' \subseteq events /\ hooks' \subseteq hooks
  BY <1>1, <1>2, Kinds
  DEF HookWrite, BillingInv, OrdersOK, CallsOK, PaidOK, Statuses
<1>4. PaidOK'
  BY <1>1, <1>2, <1>3 DEF BillingInv, PaidOK, PaidAt
<1>5. used \in Nat /\ used + 1 <= Credit
  BY DEF BillingInv, UserOK, CreditOK, Announcing
<1>6. CASE ok = TRUE
  <2>1. user' = [user EXCEPT !.plan = HookPlan(h.order), !.expiry = 1]
    BY <1>1, <1>6 DEF HookWrite
  <2>2. /\ user'.plan = HookPlan(h.order) /\ user'.expiry = 1
        /\ user'.bonus = user.bonus /\ UserOK'
    BY <1>3, <2>1 DEF BillingInv, UserOK, HookPlan, Plans
  <2>3. Landed' = Landed /\ PaidPaypal' = PaidPaypal /\ Served' = Served
    BY <1>3, Kinds DEF Landed, PaidPaypal, Served, PaidAt
  <2>4. Credit' = Credit
    BY <2>3 DEF Credit
  <2>5. CreditOK'
    BY <1>3, <1>5, <2>2, <2>4, Counts DEF CreditOK, BillingInv, Announcing
  <2>6. BonusOK'
    BY <1>3, <2>2, <2>3, Kinds DEF BonusOK, BillingInv, Granting
  <2> QED BY <1>3, <1>4, <2>2, <2>5, <2>6 DEF BillingInv
<1>7. CASE ok = FALSE
  <2>1. user' = user /\ UserOK'
    BY <1>3, <1>7 DEF HookWrite, BillingInv, UserOK
  <2>2. CreditOK' /\ BonusOK'
    BY <1>3, <2>1, Keeps DEF PaidAt, Announcing
  <2> QED BY <1>3, <1>4, <2>1, <2>2 DEF BillingInv
<1> QED BY <1>6, <1>7

-----------------------------------------------------------------------------
(* The Chinese gateway.                                                    *)

LEMMA StepNotify ==
  ASSUME BillingInv, NEW o \in Orders, NEW posted \in BOOLEAN, NEW acked \in BOOLEAN,
         Notify(o, posted, acked)
  PROVE  BillingInv'
<1> DEFINE new == [order |-> o, at |-> "insert", expiry |-> NextExpiry(user.expiry)]
<1>1. o \in notices /\ o \in Cn
  BY DEF Notify, BillingInv, CallsOK
<1>2. user.expiry \in 0 .. Cardinality(Orders)
  BY InvTypes DEF BillingTypeOK
<1>3. user.expiry + 1 \in 1 .. Cardinality(Orders) + 1
  BY <1>2, Counts
<1>4. /\ new \in [order: Cn, at: {"insert", "grant"}, expiry: 1 .. Cardinality(Orders) + 1]
      /\ new.order = o /\ new.at = "insert" /\ new.expiry = user.expiry + 1
  BY <1>1, <1>3 DEF NextExpiry
<1>5. confirms' \subseteq confirms \cup {new} /\ notices' \subseteq notices
  BY DEF Notify
<1> HIDE DEF new
<1>6. OrdersOK' /\ CallsOK' /\ UserOK' /\ user' = user
  BY <1>4, <1>5 DEF Notify, BillingInv, OrdersOK, CallsOK, UserOK
<1>7. CreditOK' /\ BonusOK'
  BY <1>4, <1>5, <1>6, Keeps DEF Notify, PaidAt, Announcing
<1>8. PaidOK'
  BY <1>1, <1>4, <1>5 DEF BillingInv, PaidOK, PaidAt, Notify
<1> QED BY <1>6, <1>7, <1>8 DEF BillingInv

(* Confirming changes nothing at the providers.                            *)
LEMMA ConfirmRest ==
  ASSUME BillingInv, NEW k \in confirms,
         ConfirmInsert(k) \/ \E ok \in BOOLEAN : ConfirmGrant(k, ok)
  PROVE  /\ OrdersOK' /\ CallsOK' /\ PaidOK' /\ k.order \in Cn
         /\ \A o \in Orders : row[o] = "completed" => row'[o] = "completed"
         /\ UNCHANGED <<provider, used, events, hooks>>
<1> DEFINE new == [k EXCEPT !.at = "grant"]
<1>1. /\ k \in [order: Cn, at: {"insert", "grant"}, expiry: 1 .. Cardinality(Orders) + 1]
      /\ k.order \in Cn /\ k.order \in Orders /\ PaidAt(k.order)
  BY Kinds DEF BillingInv, CallsOK, PaidOK
<1>2. /\ new \in [order: Cn, at: {"insert", "grant"}, expiry: 1 .. Cardinality(Orders) + 1]
      /\ new.order = k.order
  BY <1>1
<1>3. /\ confirms' \subseteq confirms \cup {new}
      /\ row' = row \/ row' = [row EXCEPT ![k.order] = "completed"]
      /\ UNCHANGED <<provider, used, captures, captured, events, hooks, notices>>
  BY DEF ConfirmInsert, ConfirmGrant
<1> HIDE DEF new
<1>4. OrdersOK' /\ CallsOK'
  BY <1>1, <1>2, <1>3 DEF BillingInv, OrdersOK, CallsOK, Statuses
<1>5. PaidOK' /\ \A o \in Orders : row[o] = "completed" => row'[o] = "completed"
  BY <1>1, <1>2, <1>3 DEF BillingInv, PaidOK, PaidAt, OrdersOK
<1> QED BY <1>1, <1>3, <1>4, <1>5

(* Only the request that inserts the row credits it: a subscription at     *)
(* once, from an expiry that was read when the request came in.            *)
LEMMA StepConfirmInsert ==
  ASSUME BillingInv, NEW k \in confirms, ConfirmInsert(k)
  PROVE  BillingInv'
<1> DEFINE new == [k EXCEPT !.at = "grant"]
<1>1. /\ OrdersOK' /\ CallsOK' /\ PaidOK' /\ k.order \in Cn /\ k.order \in Orders
      /\ \A o \in Orders : row[o] = "completed" => row'[o] = "completed"
      /\ UNCHANGED <<provider, used, events, hooks>> /\ row'[k.order] = "completed"
  BY ConfirmRest, Kinds DEF ConfirmInsert, BillingInv, OrdersOK
<1>2. /\ k \in [order: Cn, at: {"insert", "grant"}, expiry: 1 .. Cardinality(Orders) + 1]
      /\ k.expiry \in Nat /\ k.expiry >= 1 /\ used \in Nat
      /\ used + k.expiry <= Credit + 1
  BY Counts DEF BillingInv, CallsOK, CreditOK, UserOK
<1>3. /\ new.order = k.order /\ new.at = "grant" /\ new.expiry = k.expiry
  BY <1>2
<1>4. /\ confirms' \subseteq confirms \cup {new}
      /\ \A l \in confirms' : l = new /\ l \notin confirms =>
           Lands(k.order) /\ k.order \in CnAddons
  BY DEF ConfirmInsert
<1> HIDE DEF new
<1>5. Credit <= Credit'
  BY <1>1, CreditGrows, Kinds DEF PaidAt
<1>6. UserOK' /\ user'.bonus = user.bonus
  <2>1. CASE Lands(k.order) /\ k.order \in CnSubs
    BY <1>1, <1>2, <2>1 DEF ConfirmInsert, BillingInv, UserOK, Plans
  <2>2. CASE ~(Lands(k.order) /\ k.order \in CnSubs)
    BY <1>1, <2>2 DEF ConfirmInsert, BillingInv, UserOK
  <2> QED BY <2>1, <2>2
<1>7. used' + user'.expiry <= Credit' /\ (user'.plan # "free" => Credit' >= 1)
  <2>1. CASE Lands(k.order) /\ k.order \in CnSubs
    <3>1. user'.expiry = k.expiry
      BY <2>1 DEF ConfirmInsert, BillingInv, UserOK
    <3>2. Landed \in SUBSET Landed' /\ k.order \in Landed' /\ k.order \notin Landed
      BY <1>1, <2>1, Kinds DEF Landed, Lands
    <3>3. Landed' \in SUBSET Orders
      BY Kinds DEF Landed
    <3>4. Cardinality(Landed) + 1 <= Cardinality(Landed')
      BY <3>2, <3>3, OneMore
    <3>5. PaidPaypal' = PaidPaypal
      BY <1>1 DEF PaidPaypal, PaidAt
    <3> QED BY <1>1, <1>2, <3>1, <3>4, <3>5, Counts DEF Credit
  <2>2. CASE ~(Lands(k.order) /\ k.order \in CnSubs)
    BY <1>1, <1>5, <2>2, Counts DEF ConfirmInsert, BillingInv, UserOK, CreditOK
  <2> QED BY <2>1, <2>2
<1>8. \A l \in confirms' : used' + l.expiry <= Credit' + 1
  <2>1. ASSUME NEW l \in confirms' PROVE used' + l.expiry <= Credit' + 1
    <3>1. used + l.expiry <= Credit + 1
      BY <1>2, <1>3, <1>4 DEF BillingInv, CreditOK
    <3>2. l.expiry \in Nat
      BY <1>1, Counts DEF CallsOK
    <3> QED BY <1>1, <1>2, <1>5, <3>1, <3>2, Counts
  <2> QED BY <2>1
<1>9. CreditOK'
  <2>1. Announcing' => used' + 1 <= Credit'
    BY <1>1, <1>2, <1>5, Counts DEF BillingInv, CreditOK, Announcing
  <2> QED BY <1>7, <1>8, <2>1 DEF CreditOK
<1>10. \A l \in confirms' : Granting(l) =>
         l \in confirms \/ (l = new /\ k.order \in CnAddons /\ row[k.order] = "none")
  BY <1>4 DEF Lands
<1>11. Served \in SUBSET Served' /\ Served' \in SUBSET Orders
  <2>1. ASSUME NEW o \in Served PROVE o \in Served'
    BY <1>1, <1>3, <1>10, <2>1, Kinds DEF Served
  <2> QED BY <2>1, Kinds DEF Served
<1>12. Cardinality(Served) <= Cardinality(Served')
  BY <1>11, Larger
<1>13. user'.bonus <= Cardinality(Served')
  BY <1>6, <1>12, Counts DEF BillingInv, BonusOK, UserOK
<1>14. \A l \in confirms' :
         Granting(l) => l.order \in CnAddons /\ row'[l.order] = "completed"
  BY <1>1, <1>3, <1>10, Kinds DEF BillingInv, BonusOK
<1>15. \A l, n \in confirms' :
         Granting(l) /\ Granting(n) /\ l.order = n.order => l = n
  BY <1>3, <1>10 DEF BillingInv, BonusOK
<1>16. BonusOK'
  BY <1>13, <1>14, <1>15 DEF BonusOK, Granting
<1> QED BY <1>1, <1>6, <1>9, <1>16 DEF BillingInv

(* A pack is applied after the transaction, once, or never.                *)
LEMMA StepConfirmGrant ==
  ASSUME BillingInv, NEW k \in confirms, NEW ok \in BOOLEAN, ConfirmGrant(k, ok)
  PROVE  BillingInv'
<1>1. /\ OrdersOK' /\ CallsOK' /\ PaidOK' /\ k.order \in Cn /\ k.order \in Orders
      /\ UNCHANGED <<provider, used, events, hooks>>
  BY ConfirmRest, Kinds
<1>2. /\ confirms' = confirms \ {k} /\ row' = row /\ Granting(k)
      /\ k.order \in CnAddons /\ row[k.order] = "completed"
  BY DEF ConfirmGrant, BillingInv, BonusOK, Granting
<1>3. /\ Served \in SUBSET Served' /\ Served' \in SUBSET Orders
      /\ k.order \in Served' /\ k.order \notin Served
  BY <1>2, Kinds DEF Served, BillingInv, BonusOK, Granting
<1>4. Cardinality(Served) + 1 <= Cardinality(Served')
  BY <1>3, OneMore
<1>5. /\ UserOK' /\ user'.plan = user.plan /\ user'.expiry = user.expiry
      /\ user'.bonus <= user.bonus + 1
  <2>1. CASE ok = TRUE
    BY <1>1, <2>1 DEF ConfirmGrant, BillingInv, UserOK
  <2>2. CASE ok = FALSE
    BY <1>1, <2>2 DEF ConfirmGrant, BillingInv, UserOK
  <2> QED BY <2>1, <2>2
<1>6. user'.bonus <= Cardinality(Served')
  BY <1>4, <1>5, Counts DEF BillingInv, BonusOK, UserOK
<1>7. Credit' = Credit
  BY <1>1, <1>2 DEF Credit, Landed, PaidPaypal, PaidAt
<1>8. CreditOK'
  BY <1>1, <1>2, <1>5, <1>7 DEF CreditOK, BillingInv, Announcing
<1>9. BonusOK'
  BY <1>2, <1>6 DEF BonusOK, BillingInv, Granting
<1> QED BY <1>1, <1>5, <1>8, <1>9 DEF BillingInv

-----------------------------------------------------------------------------
(* A cycle that passes moves from those that are left to those used.       *)
LEMMA StepCyclePasses ==
  ASSUME BillingInv, CyclePasses
  PROVE  BillingInv'
<1>1. /\ OrdersOK' /\ CallsOK' /\ PaidOK'
      /\ UNCHANGED <<provider, row, captures, events, hooks, notices, confirms>>
      /\ ~Announcing /\ confirms = {}
  BY DEF CyclePasses, BillingInv, OrdersOK, CallsOK, PaidOK, PaidAt, Announcing
<1>2. /\ UserOK' /\ used' = used + 1 /\ user'.expiry = user.expiry - 1
      /\ user'.plan = user.plan /\ user'.bonus = user.bonus
  BY DEF CyclePasses, BillingInv, UserOK
<1>3. Credit' = Credit /\ Served' = Served
  BY <1>1 DEF Credit, Landed, PaidPaypal, PaidAt, Served
<1>4. CreditOK'
  BY <1>1, <1>2, <1>3, Counts DEF CreditOK, BillingInv, UserOK, Announcing
<1>5. BonusOK'
  BY <1>1, <1>2, <1>3 DEF BonusOK, BillingInv, Granting
<1> QED BY <1>1, <1>2, <1>4, <1>5 DEF BillingInv

-----------------------------------------------------------------------------
LEMMA InitBilling == Init => BillingInv
<1> SUFFICES ASSUME Init PROVE BillingInv
  OBVIOUS
<1>1. UserOK /\ OrdersOK /\ CallsOK /\ PaidOK
  BY DEF Init, UserOK, OrdersOK, CallsOK, PaidOK, Plans, Statuses
<1>2. /\ user.expiry = 0 /\ user.bonus = 0 /\ user.plan = "free" /\ used = 0
      /\ confirms = {} /\ events = {} /\ hooks = {}
  BY DEF Init
<1>3. CreditOK /\ BonusOK
  BY <1>2, Counts DEF CreditOK, BonusOK, Announcing
<1> QED BY <1>1, <1>3 DEF BillingInv

LEMMA NextBilling == BillingInv /\ [Next]_vars => BillingInv'
<1> SUFFICES ASSUME BillingInv, [Next]_vars PROVE BillingInv'
  OBVIOUS
<1>1. ASSUME NEW o \in Orders, CreateOrder(o) \/ Approve(o) \/ CreateCnOrder(o)
      PROVE  BillingInv'
  BY <1>1, StepOrders
<1>2. ASSUME NEW o \in Orders,
             PayCn(o) \/ \E how \in {"completed", "declined"} : ReviewEnds(o, how)
      PROVE  BillingInv'
  BY <1>2, StepPaid
<1>3. ASSUME NEW o \in Orders, CaptureStart(o) PROVE BillingInv'
  BY <1>3, StepCaptureStart
<1>4. ASSUME NEW o \in Orders, HookRead(o) PROVE BillingInv'
  BY <1>4, StepHookRead
<1>5. ASSUME NEW o \in Orders, NEW posted \in BOOLEAN, NEW acked \in BOOLEAN,
             Notify(o, posted, acked)
      PROVE  BillingInv'
  BY <1>5, StepNotify
<1>6. ASSUME NEW c \in captures, NEW how \in {"completed", "review", "declined"},
             CaptureAsk(c, how)
      PROVE  BillingInv'
  BY <1>6, StepCaptureAsk
<1>7. ASSUME NEW c \in captures,
             CaptureRefused(c) \/ CaptureLoad(c) \/ CaptureFlip(c)
      PROVE  BillingInv'
  BY <1>7, StepCaptureRefused, StepCaptureLoad, StepCaptureFlip
<1>8. ASSUME NEW h \in hooks, NEW ok \in BOOLEAN, HookWrite(h, ok) PROVE BillingInv'
  BY <1>8, StepHookWrite
<1>9. ASSUME NEW k \in confirms, ConfirmInsert(k) PROVE BillingInv'
  BY <1>9, StepConfirmInsert
<1>10. ASSUME NEW k \in confirms, NEW ok \in BOOLEAN, ConfirmGrant(k, ok)
       PROVE  BillingInv'
  BY <1>10, StepConfirmGrant
<1>11. ASSUME CyclePasses PROVE BillingInv'
  BY <1>11, StepCyclePasses
<1>12. CASE UNCHANGED vars
  BY <1>12 DEF vars, BillingInv, UserOK, OrdersOK, CallsOK, PaidOK, PaidAt, CreditOK,
               Credit, Landed, PaidPaypal, Announcing, BonusOK, Served, Granting
<1> QED
  BY <1>1, <1>2, <1>3, <1>4, <1>5, <1>6, <1>7, <1>8, <1>9, <1>10, <1>11, <1>12
  DEF Next

(* The invariant of billing: everything under way stands for money taken,  *)
(* and the user's credit is covered by the rows that landed.               *)
THEOREM BillingInvariant == Spec => []BillingInv
BY InitBilling, NextBilling, PTL DEF Spec

(* Type correctness, with the bounds of the user's expiry and bonus.       *)
THEOREM BillingTypeCorrect == Spec => []BillingTypeOK
<1>1. BillingInv => BillingTypeOK
  BY InvTypes
<1> QED BY <1>1, BillingInvariant, PTL

(* Whatever is repeated, raced or lost between PayPal, the Chinese gateway *)
(* and the orchestrator, and however much time passes between two          *)
(* purchases, the cycles a user had and has are no more than the           *)
(* subscriptions and PayPal add-ons paid for, and the bonus no more than   *)
(* the packs.                                                              *)
THEOREM CreditsArePaid == Spec => []NeverOverCredited
<1>1. BillingInv => NeverOverCredited
  BY InvTypes
<1> QED BY <1>1, BillingInvariant, PTL

(* No row is completed and no plan granted without a payment.              *)
THEOREM NothingUnpaid == Spec => []NothingWithoutPayment
<1>1. BillingInv => NothingWithoutPayment
  BY InvTypes
<1> QED BY <1>1, BillingInvariant, PTL
=============================================================================
