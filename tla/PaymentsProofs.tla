--------------------------- MODULE PaymentsProofs ---------------------------
(***************************************************************************)
(* Proofs about Orders and Payments, for every number of orders, users,    *)
(* keys, attempts, addresses, handlers and faults, every quota and every   *)
(* set of channels.  First the order life cycle by itself: rows, effects,  *)
(* coupons, keys, and that Orders implement OrderLife.  Then payments:     *)
(* that they implement Orders, that addresses are held once, that a        *)
(* payment is settled by its own order's customer and an order by its own  *)
(* customer or mock-pay, what a paid payment keeps, and that an            *)
(* acknowledged charge is on record.                                       *)
(***************************************************************************)
EXTENDS Payments, FiniteSetTheorems, WellFoundedInduction, TLAPS

-----------------------------------------------------------------------------
(* Orders: types.                                                           *)

\* Recording an answer keeps the answers typed.
LEMMA AnswerTyped ==
  ASSUME answered \in [User \X Key -> SUBSET Order],
         NEW r \in RequestType, NEW o \in Order, Answer(r, o)
  PROVE  answered' \in [User \X Key -> SUBSET Order]
<1> DEFINE uk == <<r.user, r.key>>
<1>1. uk \in User \X Key
  BY DEF RequestType
<1>2. answered' = [answered EXCEPT ![uk] = @ \cup {o}]
  BY DEF Answer
<1> HIDE DEF uk
<1>3. QED
  BY <1>1, <1>2

\* Every variable keeps its type through every statement of every handler.
LEMMA TypeStep == TypeOK /\ [Next]_vars => TypeOK'
<1> SUFFICES ASSUME TypeOK, [Next]_vars PROVE TypeOK'
  OBVIOUS
<1> USE OrdersAssumption DEF OrdersAssumption, TypeOK, Statuses, Final, Phases, Stages,
        CreateStages, PaidStages, WriteStages, Return, Goto, rowVars, userVars, callVars
<1>1. ASSUME NEW h \in Handler, NEW r \in Request, CreateFindHit(h, r)
      PROVE  TypeOK'
  <2>1. answered' \in [User \X Key -> SUBSET Order]
    BY <1>1, AnswerTyped DEF CreateFindHit, Matching
  <2>2. QED
    BY <1>1, <2>1 DEF CreateFindHit
<1>2. ASSUME NEW h \in Handler, NEW r \in Request, CreateFindMiss(h, r)
      PROVE  TypeOK'
  BY <1>2 DEF CreateFindMiss, CreateGoOn
<1>3. ASSUME NEW h \in Handler, QuoteCoupon(h)
      PROVE  TypeOK'
  BY <1>3 DEF QuoteCoupon
<1>4. ASSUME NEW h \in Handler, QuoteCount(h)
      PROVE  TypeOK'
  BY <1>4 DEF QuoteCount
<1>5. ASSUME NEW h \in Handler, CreateInsert(h)
      PROVE  TypeOK'
  <2>1. want[h] \in RequestType /\ \E o \in Order : Answer(want[h], o)
    BY <1>5 DEF CreateInsert
  <2>2. answered' \in [User \X Key -> SUBSET Order]
    BY <2>1, AnswerTyped
  <2>3. QED
    BY <1>5, <2>2 DEF CreateInsert
<1>6. ASSUME NEW h \in Handler, CreateConflict(h)
      PROVE  TypeOK'
  <2>1. want[h] \in RequestType /\ \E o \in Order : Answer(want[h], o)
    BY <1>6 DEF CreateConflict, Matching
  <2>2. answered' \in [User \X Key -> SUBSET Order]
    BY <2>1, AnswerTyped
  <2>3. QED
    BY <1>6, <2>2 DEF CreateConflict
<1>7. ASSUME NEW h \in Handler, NEW o \in Order, PaidFind(h, o)
      PROVE  TypeOK'
  BY <1>7 DEF PaidFind
<1>8. ASSUME NEW h \in Handler, PaidMark(h)
      PROVE  TypeOK'
  BY <1>8 DEF PaidMark
<1>9. ASSUME NEW h \in Handler, PaidCoupon(h)
      PROVE  TypeOK'
  BY <1>9 DEF PaidCoupon
<1>10. ASSUME NEW h \in Handler, ErrorDropped(h)
       PROVE  TypeOK'
  BY <1>10 DEF ErrorDropped, CreateFindFails, CreateGoOn, QuoteCountFails,
     PaidCouponFails
<1>11. ASSUME NEW h \in Handler, PaidApply(h)
       PROVE  TypeOK'
  BY <1>11 DEF PaidApply, Deliver
<1>12. ASSUME NEW h \in Handler, NEW o \in Order, CancelFind(h, o)
       PROVE  TypeOK'
  BY <1>12 DEF CancelFind
<1>13. ASSUME NEW h \in Handler, CancelWrite(h)
       PROVE  TypeOK'
  BY <1>13 DEF CancelWrite
<1>14. CASE ExpirePending
  BY <1>14 DEF ExpirePending
<1>15. ASSUME NEW o \in Order, Elapse(o)
       PROVE  TypeOK'
  BY <1>15 DEF Elapse
<1>16. ASSUME NEW h \in Handler, Fault(h)
       PROVE  TypeOK'
  BY <1>16 DEF Fault
<1>17. CASE UNCHANGED vars
  BY <1>17 DEF vars
<1>18. QED
  BY <1>1, <1>2, <1>3, <1>4, <1>5, <1>6, <1>7, <1>8, <1>9, <1>10, <1>11, <1>12,
     <1>13, <1>14, <1>15, <1>16, <1>17 DEF Next, Call, Step

\* The types hold of every behaviour.
THEOREM TypeCorrect == Spec => []TypeOK
<1>1. Init => TypeOK
  BY OrdersAssumption DEF Init, TypeOK, Statuses, Phases, Stages, CreateStages,
     PaidStages, WriteStages, OrdersAssumption
<1>2. QED
  BY <1>1, TypeStep, PTL DEF Spec

-----------------------------------------------------------------------------
(* The rows, the calls and the user's entitlement agree.                   *)

RowsInv == RowsAgree /\ CallsAgree

\* RowsAgree is inductive together with what the running calls rely on.
LEMMA RowsInvariant == Spec => []RowsInv
<1>1. Init => RowsInv
  BY DEF Init, RowsInv, RowsAgree, CallsAgree, WriteStages, PaidStages
<1>2. TypeOK /\ RowsInv /\ [Next]_vars => RowsInv'
  <2> SUFFICES ASSUME TypeOK, RowsInv, [Next]_vars PROVE RowsInv'
    OBVIOUS
  <2> USE DEF TypeOK, RowsInv, RowsAgree, CallsAgree, Exists, Statuses, Final, Stages,
          CreateStages, PaidStages, WriteStages, Return, Goto, rowVars, userVars,
          callVars
  <2>1. ASSUME NEW h \in Handler, NEW r \in Request, CreateFindHit(h, r)
        PROVE  RowsInv'
    BY <2>1 DEF CreateFindHit
  <2>2. ASSUME NEW h \in Handler, NEW r \in Request, CreateFindMiss(h, r)
        PROVE  RowsInv'
    BY <2>2 DEF CreateFindMiss, CreateGoOn
  <2>3. ASSUME NEW h \in Handler, QuoteCoupon(h)
        PROVE  RowsInv'
    BY <2>3 DEF QuoteCoupon
  <2>4. ASSUME NEW h \in Handler, QuoteCount(h)
        PROVE  RowsInv'
    BY <2>4 DEF QuoteCount
  <2>5. ASSUME NEW h \in Handler, CreateInsert(h)
        PROVE  RowsInv'
    BY <2>5 DEF CreateInsert
  <2>6. ASSUME NEW h \in Handler, CreateConflict(h)
        PROVE  RowsInv'
    BY <2>6 DEF CreateConflict
  <2>7. ASSUME NEW h \in Handler, NEW o \in Order, PaidFind(h, o)
        PROVE  RowsInv'
    BY <2>7 DEF PaidFind, Payable
  <2>8. ASSUME NEW h \in Handler, PaidMark(h)
        PROVE  RowsInv'
    BY <2>8 DEF PaidMark
  <2>9. ASSUME NEW h \in Handler, PaidCoupon(h)
        PROVE  RowsInv'
    BY <2>9 DEF PaidCoupon
  <2>10. ASSUME NEW h \in Handler, ErrorDropped(h)
         PROVE  RowsInv'
    BY <2>10 DEF ErrorDropped, CreateFindFails, CreateGoOn, QuoteCountFails,
       PaidCouponFails
  <2>11. ASSUME NEW h \in Handler, PaidApply(h)
         PROVE  RowsInv'
    BY <2>11 DEF PaidApply, Deliver
  <2>12. ASSUME NEW h \in Handler, NEW o \in Order, CancelFind(h, o)
         PROVE  RowsInv'
    BY <2>12 DEF CancelFind
  <2>13. ASSUME NEW h \in Handler, CancelWrite(h)
         PROVE  RowsInv'
    BY <2>13 DEF CancelWrite
  <2>14. CASE ExpirePending
    BY <2>14 DEF ExpirePending, Overdue
  <2>15. ASSUME NEW o \in Order, Elapse(o)
         PROVE  RowsInv'
    BY <2>15 DEF Elapse
  <2>16. ASSUME NEW h \in Handler, Fault(h)
         PROVE  RowsInv'
    BY <2>16 DEF Fault
  <2>17. CASE UNCHANGED vars
    BY <2>17 DEF vars
  <2>18. QED
    BY <2>1, <2>2, <2>3, <2>4, <2>5, <2>6, <2>7, <2>8, <2>9, <2>10, <2>11, <2>12,
       <2>13, <2>14, <2>15, <2>16, <2>17 DEF Next, Call, Step
<1>3. QED
  BY <1>1, <1>2, TypeCorrect, PTL DEF Spec

\* No order delivers before it is paid for, and no sweep touches a paid one.
THEOREM RowsCorrect == Spec => []RowsAgree
<1>1. RowsInv => RowsAgree
  BY DEF RowsInv
<1>2. QED
  BY <1>1, RowsInvariant, PTL

-----------------------------------------------------------------------------
(* The effects are bounded by the handlers.                                *)

BudgetOf(o) == applied[o] + Cardinality(InFlight(o)) <= Cardinality(Handler)

\* The calls at work on an order are a finite set of handlers.
LEMMA InFlightFinite ==
  ASSUME NEW o \in Order
  PROVE  /\ IsFiniteSet(InFlight(o))
         /\ Cardinality(InFlight(o)) \in Nat
         /\ Cardinality(InFlight(o)) <= Cardinality(Handler)
         /\ Cardinality(Handler) \in Nat
<1>1. InFlight(o) \subseteq Handler /\ IsFiniteSet(Handler)
  BY OrdersAssumption DEF InFlight, OrdersAssumption
<1>2. QED
  BY <1>1, FS_Subset, FS_CardinalityType

\* A step that applies nothing and adds no call to an order keeps its budget.
LEMMA ShrinkKeepsBudget ==
  ASSUME TypeOK, NEW o \in Order, BudgetOf(o),
         applied'[o] = applied[o], InFlight(o)' \subseteq InFlight(o)
  PROVE  BudgetOf(o)'
<1>1. /\ Cardinality(InFlight(o)') <= Cardinality(InFlight(o))
      /\ Cardinality(InFlight(o)') \in Nat
  BY InFlightFinite, FS_Subset, FS_CardinalityType
<1>2. QED
  BY <1>1, InFlightFinite DEF BudgetOf, TypeOK

\* Each application of an order's effects is paid for by a handler that found
\* the order payable: no interleaving, crash or retry exceeds the handlers.
THEOREM EffectsBounded == Spec => []EffectBudget
<1>1. Init => EffectBudget
  <2> SUFFICES ASSUME Init, NEW o \in Order PROVE BudgetOf(o)
    BY DEF EffectBudget, BudgetOf
  <2>1. applied[o] = 0
    BY DEF Init
  <2>2. QED
    BY <2>1, InFlightFinite DEF BudgetOf
<1>2. TypeOK /\ RowsAgree /\ EffectBudget /\ [Next]_vars => EffectBudget'
  <2> SUFFICES ASSUME TypeOK, RowsAgree, EffectBudget, [Next]_vars, NEW o \in Order
               PROVE  BudgetOf(o)'
    BY DEF EffectBudget, BudgetOf
  <2>0. BudgetOf(o)
    BY DEF EffectBudget, BudgetOf
  <2>1. ASSUME NEW h \in Handler, PaidFind(h, o)
        PROVE  BudgetOf(o)'
    <3>1. applied'[o] = 0
      BY <2>1 DEF PaidFind, Payable, RowsAgree, userVars
    <3>2. InFlight(o)' \subseteq Handler
      BY DEF InFlight
    <3>3. /\ Cardinality(InFlight(o)') <= Cardinality(Handler)
          /\ Cardinality(InFlight(o)') \in Nat
      BY <3>2, OrdersAssumption, FS_Subset, FS_CardinalityType DEF OrdersAssumption
    <3>4. QED
      BY <3>1, <3>3, InFlightFinite DEF BudgetOf
  <2>2. ASSUME NEW h \in Handler, PaidApply(h), cur[h] = o
        PROVE  BudgetOf(o)'
    <3>1. InFlight(o)' = InFlight(o) \ {h} /\ h \in InFlight(o)
      BY <2>2 DEF PaidApply, Deliver, Return, InFlight, TypeOK, PaidStages
    <3>2. Cardinality(InFlight(o)') = Cardinality(InFlight(o)) - 1
      BY <3>1, InFlightFinite, FS_RemoveElement
    <3>3. applied'[o] = applied[o] + 1
      BY <2>2 DEF PaidApply, Deliver, TypeOK
    <3>4. QED
      BY <2>0, <3>2, <3>3, InFlightFinite DEF BudgetOf, TypeOK
  <2>3. CASE /\ \A h \in Handler : ~PaidFind(h, o)
             /\ \A h \in Handler : ~(PaidApply(h) /\ cur[h] = o)
    <3> SUFFICES applied'[o] = applied[o] /\ InFlight(o)' \subseteq InFlight(o)
      BY <2>0, ShrinkKeepsBudget
    <3> USE DEF TypeOK, InFlight, PaidStages, CreateStages, Return, Goto, rowVars,
            userVars, callVars
    <3>1. ASSUME NEW h \in Handler, NEW r \in Request,
                 CreateFindHit(h, r) \/ CreateFindMiss(h, r)
          PROVE  applied'[o] = applied[o] /\ InFlight(o)' \subseteq InFlight(o)
      BY <3>1 DEF CreateFindHit, CreateFindMiss, CreateGoOn
    <3>2. ASSUME NEW h \in Handler,
                 \/ QuoteCoupon(h) \/ QuoteCount(h)
                 \/ CreateInsert(h) \/ CreateConflict(h)
          PROVE  applied'[o] = applied[o] /\ InFlight(o)' \subseteq InFlight(o)
      BY <3>2 DEF QuoteCoupon, QuoteCount, CreateInsert, CreateConflict
    <3>3. ASSUME NEW h \in Handler,
                 PaidMark(h) \/ PaidCoupon(h) \/ ErrorDropped(h)
          PROVE  applied'[o] = applied[o] /\ InFlight(o)' \subseteq InFlight(o)
      BY <3>3 DEF PaidMark, PaidCoupon, ErrorDropped, CreateFindFails, CreateGoOn,
         QuoteCountFails, PaidCouponFails
    <3>4. ASSUME NEW h \in Handler, PaidApply(h)
          PROVE  applied'[o] = applied[o] /\ InFlight(o)' \subseteq InFlight(o)
      BY <3>4, <2>3 DEF PaidApply, Deliver
    <3>5. ASSUME NEW h \in Handler, NEW p \in Order, PaidFind(h, p) \/ CancelFind(h, p)
          PROVE  applied'[o] = applied[o] /\ InFlight(o)' \subseteq InFlight(o)
      BY <3>5, <2>3 DEF PaidFind, CancelFind
    <3>6. ASSUME NEW h \in Handler, CancelWrite(h) \/ Fault(h)
          PROVE  applied'[o] = applied[o] /\ InFlight(o)' \subseteq InFlight(o)
      BY <3>6 DEF CancelWrite, Fault
    <3>7. CASE ExpirePending \/ (\E p \in Order : Elapse(p)) \/ UNCHANGED vars
      BY <3>7 DEF ExpirePending, Elapse, vars
    <3>8. QED
      BY <3>1, <3>2, <3>3, <3>4, <3>5, <3>6, <3>7 DEF Next, Call, Step
  <2>4. QED
    BY <2>1, <2>2, <2>3
<1>3. QED
  BY <1>1, <1>2, TypeCorrect, RowsCorrect, PTL DEF Spec

\* A process that serves one request at a time applies an order's effects at
\* most once: the concurrency of the handlers is the only cause of a repeat.
THEOREM SerialIsIdempotent ==
  ASSUME Cardinality(Handler) = 1
  PROVE  Spec => []AppliedAtMostOnce
<1>1. TypeOK /\ EffectBudget => AppliedAtMostOnce
  BY InFlightFinite DEF EffectBudget, AppliedAtMostOnce, TypeOK
<1>2. QED
  BY <1>1, TypeCorrect, EffectsBounded, PTL

\* What a single handler may rely on: nobody else writes the order it read.
SerialInv ==
    /\ \A h \in Handler :
        /\ pc[h] \in {"mark", "cancel"} => status[cur[h]] \in {"pending", "expired"}
        /\ pc[h] \in {"coupon", "apply"} => status[cur[h]] = "paid"
    /\ CancelledBeforePayment

\* With one request at a time, CancelOrder never cancels what was delivered:
\* the test of the status and the write that follows it belong together.
THEOREM SerialCancelsBeforePayment ==
  ASSUME Cardinality(Handler) = 1
  PROVE  Spec => []CancelledBeforePayment
<1>1. \A g, h \in Handler : g = h
  <2> SUFFICES ASSUME NEW g \in Handler, NEW h \in Handler, g # h PROVE FALSE
    OBVIOUS
  <2>1. IsFiniteSet(Handler \ {g}) /\ Cardinality(Handler \ {g}) = 0
    BY OrdersAssumption, FS_RemoveElement DEF OrdersAssumption
  <2>2. h \in Handler \ {g}
    OBVIOUS
  <2>3. QED
    BY <2>1, <2>2, FS_EmptySet
<1>2. Init => SerialInv
  BY DEF Init, SerialInv, CancelledBeforePayment
<1>3. TypeOK /\ RowsInv /\ SerialInv /\ [Next]_vars => SerialInv'
  <2> SUFFICES ASSUME TypeOK, RowsInv, SerialInv, [Next]_vars PROVE SerialInv'
    OBVIOUS
  <2> USE <1>1 DEF TypeOK, RowsInv, RowsAgree, CallsAgree, SerialInv,
          CancelledBeforePayment, Exists, Final, WriteStages, PaidStages, CreateStages,
          Return, Goto, rowVars, userVars, callVars
  <2>1. ASSUME NEW h \in Handler, NEW r \in Request,
               CreateFindHit(h, r) \/ CreateFindMiss(h, r)
        PROVE  SerialInv'
    BY <2>1 DEF CreateFindHit, CreateFindMiss, CreateGoOn
  <2>2. ASSUME NEW h \in Handler,
               QuoteCoupon(h) \/ QuoteCount(h) \/ CreateConflict(h)
        PROVE  SerialInv'
    BY <2>2 DEF QuoteCoupon, QuoteCount, CreateConflict
  <2>3. ASSUME NEW h \in Handler, CreateInsert(h)
        PROVE  SerialInv'
    BY <2>3 DEF CreateInsert
  <2>4. ASSUME NEW h \in Handler, NEW o \in Order, PaidFind(h, o) \/ CancelFind(h, o)
        PROVE  SerialInv'
    BY <2>4 DEF PaidFind, Payable, CancelFind
  <2>5. ASSUME NEW h \in Handler, PaidMark(h) \/ PaidCoupon(h) \/ ErrorDropped(h)
        PROVE  SerialInv'
    BY <2>5 DEF PaidMark, PaidCoupon, ErrorDropped, CreateFindFails, CreateGoOn,
       QuoteCountFails, PaidCouponFails
  <2>6. ASSUME NEW h \in Handler, PaidApply(h)
        PROVE  SerialInv'
    BY <2>6 DEF PaidApply, Deliver
  <2>7. ASSUME NEW h \in Handler, CancelWrite(h) \/ Fault(h)
        PROVE  SerialInv'
    BY <2>7 DEF CancelWrite, Fault
  <2>8. CASE ExpirePending \/ (\E o \in Order : Elapse(o)) \/ UNCHANGED vars
    BY <2>8 DEF ExpirePending, Overdue, Elapse, vars
  <2>9. QED
    BY <2>1, <2>2, <2>3, <2>4, <2>5, <2>6, <2>7, <2>8 DEF Next, Call, Step
<1>4. SerialInv => CancelledBeforePayment
  BY DEF SerialInv
<1>5. QED
  BY <1>2, <1>3, <1>4, TypeCorrect, RowsInvariant, PTL DEF Spec

-----------------------------------------------------------------------------
(* Closed orders, the quota and the idempotency key.                       *)

\* A final order that no running call read while it was pending is never
\* written again, by a call, by the sweep or by a late provider callback.
THEOREM ClosedOrdersAreFinal == Spec => ClosedIsFinal
<1> DEFINE Closed(o) == status[o] \in Final /\ Writers(o) = {}
           Kept(o) == /\ status'[o] = status[o]
                      /\ paidCNY'[o] = paidCNY[o]
                      /\ applied'[o] = applied[o]
                      /\ Writers(o)' = {}
<1>1. ASSUME TypeOK, [Next]_vars, NEW o \in Order, Closed(o)
      PROVE  Kept(o)
  <2> USE <1>1 DEF TypeOK, Final, Writers, WriteStages, PaidStages, CreateStages,
          Return, Goto, rowVars, userVars, callVars
  <2>1. ASSUME NEW h \in Handler, NEW r \in Request,
               CreateFindHit(h, r) \/ CreateFindMiss(h, r)
        PROVE  Kept(o)
    BY <2>1 DEF CreateFindHit, CreateFindMiss, CreateGoOn
  <2>2. ASSUME NEW h \in Handler,
               \/ QuoteCoupon(h) \/ QuoteCount(h)
               \/ CreateInsert(h) \/ CreateConflict(h)
        PROVE  Kept(o)
    BY <2>2 DEF QuoteCoupon, QuoteCount, CreateInsert, CreateConflict, Exists
  <2>3. ASSUME NEW h \in Handler,
               \/ PaidMark(h) \/ PaidCoupon(h) \/ ErrorDropped(h)
               \/ PaidApply(h) \/ CancelWrite(h) \/ Fault(h)
        PROVE  Kept(o)
    BY <2>3 DEF PaidMark, PaidCoupon, ErrorDropped, CreateFindFails, CreateGoOn,
       QuoteCountFails, PaidCouponFails, PaidApply, Deliver, CancelWrite, Fault
  <2>4. ASSUME NEW h \in Handler, NEW p \in Order, PaidFind(h, p) \/ CancelFind(h, p)
        PROVE  Kept(o)
    BY <2>4 DEF PaidFind, CancelFind, Payable
  <2>5. CASE ExpirePending \/ (\E p \in Order : Elapse(p)) \/ UNCHANGED vars
    BY <2>5 DEF ExpirePending, Overdue, Elapse, vars
  <2>6. QED
    BY <2>1, <2>2, <2>3, <2>4, <2>5 DEF Next, Call, Step
<1>2. TypeOK /\ [Next]_vars
        => [\A o \in Order :
               status[o] \in Final /\ Writers(o) = {} =>
                   /\ status'[o] = status[o]
                   /\ paidCNY'[o] = paidCNY[o]
                   /\ applied'[o] = applied[o]
                   /\ Writers(o)' = {}]_vars
  BY <1>1
<1>3. QED
  BY <1>2, TypeCorrect, PTL DEF Spec, ClosedIsFinal

\* The quota is enforced where a use is counted, whatever was quoted before.
THEOREM QuotaHolds == Spec => []CouponWithinQuota
<1>1. Init => CouponWithinQuota
  BY OrdersAssumption DEF Init, CouponWithinQuota, OrdersAssumption
<1>2. TypeOK /\ CouponWithinQuota /\ [Next]_vars => CouponWithinQuota'
  <2> SUFFICES ASSUME TypeOK, CouponWithinQuota, [Next]_vars PROVE CouponWithinQuota'
    OBVIOUS
  <2>1. ASSUME NEW h \in Handler, PaidCoupon(h)
        PROVE  CouponWithinQuota'
    BY <2>1, OrdersAssumption
       DEF PaidCoupon, QuotaLeft, CouponWithinQuota, TypeOK, OrdersAssumption
  <2>2. CASE ~ \E h \in Handler : PaidCoupon(h)
    <3>1. couponUsed' = couponUsed
      BY <2>2 DEF Next, Call, Step, CreateFindHit, CreateFindMiss, CreateGoOn,
         QuoteCoupon, QuoteCount, CreateInsert, CreateConflict, PaidFind, PaidMark,
         ErrorDropped, CreateFindFails, QuoteCountFails, PaidCouponFails, PaidApply,
         Deliver, CancelFind, CancelWrite, ExpirePending, Elapse, Fault, vars, userVars
    <3>2. QED
      BY <3>1 DEF CouponWithinQuota
  <2>3. QED
    BY <2>1, <2>2
<1>3. QED
  BY <1>1, <1>2, TypeCorrect, PTL DEF Spec

CouponPaid == {o \in Order : paidAt[o] /\ req[o].coupon}
AtCoupon   == {h \in Handler : pc[h] = "coupon"}

\* The two sets that CouponUsesCounted compares are finite.
LEMMA CouponSetsFinite ==
  /\ IsFiniteSet(CouponPaid) /\ Cardinality(CouponPaid) \in Nat
  /\ IsFiniteSet(AtCoupon) /\ Cardinality(AtCoupon) \in Nat
<1>1. CouponPaid \subseteq Order /\ AtCoupon \subseteq Handler
  BY DEF CouponPaid, AtCoupon
<1>2. QED
  BY <1>1, OrdersAssumption, FS_Subset, FS_CardinalityType DEF OrdersAssumption

\* A step that counts no use, marks no order and moves no call to or from the
\* coupon's statement keeps the count.
LEMMA SameCouponSets ==
  ASSUME CouponUsesCounted, CouponPaid' = CouponPaid, AtCoupon' = AtCoupon,
         couponUsed' = couponUsed, faults' = faults
  PROVE  CouponUsesCounted'
BY DEF CouponUsesCounted, CouponPaid, AtCoupon

\* No paid order with the coupon goes uncounted for want of a step: only a lost
\* handler, a failed statement or a full quota leaves one out of used_count.
THEOREM UsesAreCounted == Spec => []CouponUsesCounted
<1>1. Init => CouponUsesCounted
  <2> SUFFICES ASSUME Init PROVE CouponUsesCounted
    OBVIOUS
  <2>1. CouponPaid = {} /\ couponUsed = 0
    BY DEF Init, CouponPaid
  <2>2. QED
    BY <2>1, CouponSetsFinite, FS_EmptySet DEF CouponUsesCounted, CouponPaid, AtCoupon
<1>2. TypeOK /\ RowsInv /\ CouponWithinQuota /\ CouponUsesCounted /\ [Next]_vars
        => CouponUsesCounted'
  <2> SUFFICES ASSUME TypeOK, RowsInv, CouponWithinQuota, CouponUsesCounted, [Next]_vars
               PROVE  CouponUsesCounted'
    OBVIOUS
  <2> DEFINE Full  == TotalQuota > 0 /\ couponUsed = TotalQuota
             Count == couponUsed + Cardinality(AtCoupon) >= Cardinality(CouponPaid)
  <2>0. /\ faults = 0 => Full \/ Count
        /\ (faults' = 0 => Full' \/ Count') => CouponUsesCounted'
    BY DEF CouponUsesCounted, CouponPaid, AtCoupon
  <2>1. ASSUME NEW h \in Handler, PaidMark(h), req[cur[h]].coupon
        PROVE  CouponUsesCounted'
    <3>1. cur[h] \in Order
      BY <2>1 DEF PaidMark, TypeOK, WriteStages, PaidStages
    <3>2. CouponPaid' = CouponPaid \cup {cur[h]}
      BY <2>1, <3>1 DEF PaidMark, CouponPaid, TypeOK
    <3>3. AtCoupon' = AtCoupon \cup {h} /\ h \notin AtCoupon
      BY <2>1 DEF PaidMark, Goto, AtCoupon, TypeOK
    <3>4. /\ Cardinality(CouponPaid') \in Nat
          /\ Cardinality(CouponPaid') <= Cardinality(CouponPaid) + 1
      <4> DEFINE With == CouponPaid \cup {cur[h]}
      <4>1. /\ IsFiniteSet(With)
            /\ Cardinality(With) = IF cur[h] \in CouponPaid THEN Cardinality(CouponPaid)
                                   ELSE Cardinality(CouponPaid) + 1
        BY CouponSetsFinite, FS_AddElement
      <4>2. Cardinality(With) \in Nat /\ Cardinality(With) <= Cardinality(CouponPaid) + 1
        BY <4>1, CouponSetsFinite
      <4>3. QED
        BY <4>2, <3>2
    <3>5. Cardinality(AtCoupon') = Cardinality(AtCoupon) + 1
      BY <3>3, CouponSetsFinite, FS_AddElement
    <3>6. couponUsed' = couponUsed /\ faults' = faults
      BY <2>1 DEF PaidMark, userVars
    <3>7. QED
      BY <2>0, <3>4, <3>5, <3>6, CouponSetsFinite DEF TypeOK
  <2>2. ASSUME NEW h \in Handler, PaidMark(h), ~req[cur[h]].coupon
        PROVE  CouponUsesCounted'
    <3>1. CouponPaid' = CouponPaid /\ AtCoupon' = AtCoupon
      BY <2>2 DEF PaidMark, Goto, AtCoupon, CouponPaid, TypeOK
    <3>2. QED
      BY <2>2, <3>1, SameCouponSets DEF PaidMark, userVars
  <2>3. ASSUME NEW h \in Handler, PaidCoupon(h)
        PROVE  CouponUsesCounted'
    <3>1. CouponPaid' = CouponPaid /\ AtCoupon' = AtCoupon \ {h} /\ h \in AtCoupon
      BY <2>3 DEF PaidCoupon, Goto, AtCoupon, CouponPaid, TypeOK, rowVars
    <3>2. Cardinality(AtCoupon') = Cardinality(AtCoupon) - 1
      BY <3>1, CouponSetsFinite, FS_RemoveElement
    <3>3. CASE QuotaLeft
      <4>1. couponUsed' = couponUsed + 1 /\ faults' = faults
        BY <2>3, <3>3 DEF PaidCoupon
      <4>2. ~Full
        BY <3>3, OrdersAssumption DEF QuotaLeft, OrdersAssumption
      <4>3. faults = 0 => Count'
        BY <2>0, <3>1, <3>2, <4>1, <4>2, CouponSetsFinite DEF TypeOK
      <4>4. QED
        BY <2>0, <4>1, <4>3
    <3>4. CASE ~QuotaLeft
      <4>1. couponUsed' = couponUsed
        BY <2>3, <3>4 DEF PaidCoupon
      <4>2. Full'
        BY <3>4, <4>1, OrdersAssumption
           DEF QuotaLeft, CouponWithinQuota, TypeOK, OrdersAssumption
      <4>3. QED
        BY <2>0, <4>2
    <3>5. QED
      BY <3>3, <3>4
  <2>4. ASSUME NEW h \in Handler, ErrorDropped(h) \/ Fault(h)
        PROVE  CouponUsesCounted'
    <3>1. faults' # 0
      BY <2>4, OrdersAssumption DEF ErrorDropped, CreateFindFails, QuoteCountFails,
         PaidCouponFails, Fault, TypeOK, OrdersAssumption
    <3>2. QED
      BY <2>0, <3>1
  <2>5. ASSUME NEW h \in Handler, CreateInsert(h)
        PROVE  CouponUsesCounted'
    <3>1. CouponPaid' = CouponPaid /\ AtCoupon' = AtCoupon
      BY <2>5 DEF CreateInsert, Return, AtCoupon, CouponPaid, TypeOK, RowsInv, RowsAgree,
         Exists
    <3>2. QED
      BY <2>5, <3>1, SameCouponSets DEF CreateInsert
  <2>6. ASSUME NEW h \in Handler,
               \/ \E r \in Request : CreateFindHit(h, r) \/ CreateFindMiss(h, r)
               \/ QuoteCoupon(h) \/ QuoteCount(h) \/ CreateConflict(h)
               \/ \E o \in Order : PaidFind(h, o) \/ CancelFind(h, o)
               \/ PaidApply(h) \/ CancelWrite(h)
        PROVE  CouponUsesCounted'
    <3> USE DEF CreateFindHit, CreateFindMiss, CreateGoOn, QuoteCoupon, QuoteCount,
            CreateConflict, PaidFind, CancelFind, PaidApply, Deliver, CancelWrite,
            Return, Goto, rowVars, userVars, callVars
    <3>1. CouponPaid' = CouponPaid /\ AtCoupon' = AtCoupon
      BY <2>6 DEF AtCoupon, CouponPaid, TypeOK
    <3>2. couponUsed' = couponUsed /\ faults' = faults
      BY <2>6
    <3>3. QED
      BY <3>1, <3>2, SameCouponSets
  <2>7. CASE ExpirePending \/ (\E o \in Order : Elapse(o)) \/ UNCHANGED vars
    <3>1. UNCHANGED <<paidAt, req, pc, couponUsed, faults>>
      BY <2>7 DEF ExpirePending, Elapse, vars, rowVars, userVars, callVars
    <3>2. CouponPaid' = CouponPaid /\ AtCoupon' = AtCoupon
      BY <3>1 DEF CouponPaid, AtCoupon
    <3>3. QED
      BY <3>1, <3>2, SameCouponSets
  <2>8. QED
    BY <2>1, <2>2, <2>3, <2>4, <2>5, <2>6, <2>7 DEF Next, Call, Step
<1>3. QED
  BY <1>1, <1>2, TypeCorrect, RowsInvariant, QuotaHolds, PTL DEF Spec

\* The unique index as it shows in the rows and in the answers.
KeysInv ==
    /\ \A o, p \in Order :
          Exists(o) /\ p \in Matching(req[o]) => o = p
    /\ \A o \in Order : Exists(o) => req[o] \in RequestType
    /\ \A u \in User, k \in Key : \A o \in answered[<<u, k>>] :
          Exists(o) /\ req[o].user = u /\ req[o].key = k

\* Recording an answer adds one order, to the answers of its key only.
LEMMA AnswerOnlyForKey ==
  ASSUME TypeOK, NEW r \in RequestType, NEW o \in Order, Answer(r, o),
         NEW u \in User, NEW k \in Key, NEW p \in answered'[<<u, k>>]
  PROVE  p \in answered[<<u, k>>] \/ (p = o /\ u = r.user /\ k = r.key)
<1> DEFINE uk == <<u, k>>  rk == <<r.user, r.key>>
<1>1. uk \in User \X Key /\ rk \in User \X Key
  BY DEF RequestType
<1>2. answered' = [answered EXCEPT ![rk] = @ \cup {o}]
  BY DEF Answer
<1>3. uk = rk => u = r.user /\ k = r.key
  OBVIOUS
<1> HIDE DEF uk, rk
<1>4. p \in answered'[uk]
  BY DEF uk
<1>5. p \in answered[uk] \/ (p = o /\ uk = rk)
  BY <1>1, <1>2, <1>4 DEF TypeOK
<1>6. QED
  BY <1>3, <1>5 DEF uk

\* Racing CreateOrder calls with one key all get the same order, their own.
THEOREM CreateIsIdempotent == Spec => []IdempotentCreate
<1>1. Init => KeysInv
  BY DEF Init, KeysInv, Exists
<1>2. TypeOK /\ RowsInv /\ KeysInv /\ [Next]_vars => KeysInv'
  <2> SUFFICES ASSUME TypeOK, CallsAgree, KeysInv, [Next]_vars PROVE KeysInv'
    BY DEF RowsInv
  <2> USE OrdersAssumption DEF OrdersAssumption
  <2>1. ASSUME NEW r \in RequestType, NEW o \in Matching(r), Answer(r, o),
               UNCHANGED <<status, req>>
        PROVE  KeysInv'
    <3>1. Exists(o) /\ req[o].user = r.user /\ req[o].key = r.key /\ o \in Order
      BY DEF Matching
    <3>2. QED
      BY <2>1, <3>1, AnswerOnlyForKey DEF KeysInv, Exists, Matching
  <2>2. ASSUME NEW h \in Handler, NEW r \in Request, CreateFindHit(h, r)
        PROVE  KeysInv'
    BY <2>1, <2>2 DEF CreateFindHit, rowVars
  <2>3. ASSUME NEW h \in Handler, CreateConflict(h)
        PROVE  KeysInv'
    <3>1. want[h] \in RequestType
      BY <2>3 DEF CreateConflict, TypeOK, CreateStages
    <3>2. QED
      BY <2>1, <2>3, <3>1 DEF CreateConflict, rowVars
  <2>4. ASSUME NEW h \in Handler, CreateInsert(h)
        PROVE  KeysInv'
    <3>1. want[h] \in RequestType
      BY <2>4 DEF CreateInsert, TypeOK, CreateStages
    <3>2. PICK o \in Order :
             /\ ~Exists(o)
             /\ status' = [status EXCEPT ![o] = "pending"]
             /\ req' = [req EXCEPT ![o] = want[h]]
             /\ Answer(want[h], o)
      BY <2>4 DEF CreateInsert
    <3>3. Matching(want[h]) = {}
      BY <2>4 DEF CreateInsert
    <3>4. \A p \in Order : Exists(p)' <=> Exists(p) \/ p = o
      BY <3>2 DEF Exists, TypeOK
    <3>5. \A p \in Order : req'[p] = IF p = o THEN want[h] ELSE req[p]
      BY <3>2 DEF TypeOK
    <3>6. \A u \in User, k \in Key : \A p \in answered'[<<u, k>>] :
             Exists(p)' /\ req'[p].user = u /\ req'[p].key = k
      <4> TAKE u \in User, k \in Key
      <4> TAKE p \in answered'[<<u, k>>]
      <4>1. p \in answered[<<u, k>>] \/ (p = o /\ u = want[h].user /\ k = want[h].key)
        BY <3>1, <3>2, AnswerOnlyForKey
      <4>2. CASE p = o /\ u = want[h].user /\ k = want[h].key
        BY <4>2, <3>4, <3>5
      <4>3. CASE p \in answered[<<u, k>>]
        <5>1. <<u, k>> \in User \X Key
          OBVIOUS
        <5>2. p \in Order /\ Exists(p) /\ req[p].user = u /\ req[p].key = k
          BY <4>3, <5>1 DEF KeysInv, TypeOK
        <5>3. QED
          BY <5>2, <3>2, <3>4, <3>5
      <4>4. QED
        BY <4>1, <4>2, <4>3
    <3>7. \A p, q \in Order :
             Exists(p)' /\ q \in Matching(req[p])' => p = q
      BY <3>1, <3>3, <3>4, <3>5 DEF KeysInv, Matching
    <3>8. \A p \in Order : Exists(p)' => req'[p] \in RequestType
      BY <3>1, <3>4, <3>5 DEF KeysInv
    <3>9. QED
      BY <3>6, <3>7, <3>8 DEF KeysInv
  <2>5. ASSUME UNCHANGED <<req, answered>>,
               \A p \in Order : Exists(p)' <=> Exists(p)
        PROVE  KeysInv'
    <3>1. \A u \in User, k \in Key : answered[<<u, k>>] \subseteq Order
      <4> TAKE u \in User, k \in Key
      <4>1. <<u, k>> \in User \X Key
        OBVIOUS
      <4>2. QED
        BY <4>1 DEF TypeOK
    <3>2. QED
      BY <2>5, <3>1 DEF KeysInv, Matching
  <2>6. ASSUME NEW h \in Handler,
               \/ \E r \in Request : CreateFindMiss(h, r)
               \/ QuoteCoupon(h) \/ QuoteCount(h)
               \/ PaidCoupon(h) \/ ErrorDropped(h) \/ PaidApply(h) \/ Fault(h)
               \/ \E o \in Order : PaidFind(h, o) \/ CancelFind(h, o)
        PROVE  KeysInv'
    <3>1. UNCHANGED <<status, req, answered>>
      BY <2>6 DEF CreateFindMiss, CreateGoOn, QuoteCoupon, QuoteCount,
         PaidCoupon, ErrorDropped, CreateFindFails, QuoteCountFails, PaidCouponFails,
         PaidApply, Deliver, Fault, PaidFind, CancelFind, rowVars, userVars
    <3>2. QED
      BY <2>5, <3>1 DEF Exists
  <2>7. ASSUME NEW h \in Handler, PaidMark(h) \/ CancelWrite(h)
        PROVE  KeysInv'
    <3>1. UNCHANGED <<req, answered>> /\ \A p \in Order : Exists(p)' <=> Exists(p)
      BY <2>7 DEF PaidMark, CancelWrite, userVars, Exists, TypeOK, CallsAgree,
         WriteStages, PaidStages
    <3>2. QED
      BY <2>5, <3>1
  <2>8. CASE ExpirePending \/ (\E o \in Order : Elapse(o)) \/ UNCHANGED vars
    <3>1. UNCHANGED <<req, answered>> /\ \A p \in Order : Exists(p)' <=> Exists(p)
      BY <2>8 DEF ExpirePending, Overdue, Elapse, vars, rowVars, userVars, Exists, TypeOK
    <3>2. QED
      BY <2>5, <3>1
  <2>9. QED
    BY <2>2, <2>3, <2>4, <2>6, <2>7, <2>8 DEF Next, Call, Step
<1>3. TypeOK /\ KeysInv => IdempotentCreate
  <2> SUFFICES ASSUME TypeOK, KeysInv, NEW u \in User, NEW k \in Key
               PROVE  /\ Cardinality(answered[<<u, k>>]) <= 1
                      /\ \A o \in answered[<<u, k>>] : req[o].user = u /\ req[o].key = k
    BY DEF IdempotentCreate
  <2> DEFINE A == answered[<<u, k>>]
  <2>1. <<u, k>> \in User \X Key
    OBVIOUS
  <2>2. A \subseteq Order
    BY <2>1 DEF TypeOK
  <2>3. \A o, p \in A : o = p
    BY <2>2 DEF KeysInv, Matching
  <2>4. Cardinality(A) <= 1
    <3>1. CASE A = {}
      BY <3>1, FS_EmptySet
    <3>2. ASSUME NEW o \in A PROVE Cardinality(A) <= 1
      <4>1. A = {o}
        BY <2>3
      <4>2. QED
        BY <4>1, FS_Singleton
    <3>3. QED
      BY <3>1, <3>2
  <2>5. QED
    BY <2>4 DEF KeysInv
<1>4. QED
  BY <1>1, <1>2, <1>3, TypeCorrect, RowsInvariant, PTL DEF Spec

-----------------------------------------------------------------------------
(* Orders implements OrderLife.                                            *)

Held == [o \in Order |-> Writers(o)]

LifeStep == [Life!LifeNext]_(Life!lifeVars)

\* A handler's step that leaves it with the order it had, or with none as
\* before, leaves the holders as they are.
LEMMA HoldersKept ==
  ASSUME \A h \in Handler :
            /\ pc'[h] \in WriteStages <=> pc[h] \in WriteStages
            /\ pc[h] \in WriteStages => cur'[h] = cur[h]
  PROVE  Held' = Held
BY DEF Held, Writers

\* A handler that finds an order becomes one of its holders.
LEMMA HolderTaken ==
  ASSUME TypeOK, NEW h \in Handler, NEW o \in Order, pc[h] = "idle",
         NEW stage \in WriteStages, pc' = [pc EXCEPT ![h] = stage],
         cur' = [cur EXCEPT ![h] = o]
  PROVE  /\ Held' = [Held EXCEPT ![o] = @ \cup {h}]
         /\ \A p \in Order : h \notin Held[p]
<1>1. pc[h] \notin WriteStages
  BY DEF WriteStages, PaidStages
<1>2. \A p \in Order : Writers(p)' = IF p = o THEN Writers(p) \cup {h} ELSE Writers(p)
  BY <1>1 DEF Writers, TypeOK
<1>3. \A p \in Order : h \notin Held[p]
  BY <1>1 DEF Held, Writers
<1>4. Held' = [Held EXCEPT ![o] = @ \cup {h}]
  BY <1>2 DEF Held
<1>5. QED
  BY <1>3, <1>4

\* A handler that returns is no longer a holder of the order it had.
LEMMA HolderGone ==
  ASSUME TypeOK, NEW h \in Handler, pc[h] \in WriteStages, Return(h)
  PROVE  /\ cur[h] \in Order /\ h \in Held[cur[h]]
         /\ Held' = [Held EXCEPT ![cur[h]] = @ \ {h}]
<1>1. cur[h] \in Order
  BY DEF TypeOK
<1>2. \A p \in Order : Writers(p)' = IF p = cur[h] THEN Writers(p) \ {h} ELSE Writers(p)
  BY <1>1 DEF Writers, TypeOK, Return, WriteStages, PaidStages
<1>3. QED
  BY <1>1, <1>2 DEF Held, Writers

\* Each statement of a handler is a step of the life cycle or none at all.
LEMMA StepIsLifeStep == TypeOK /\ RowsInv /\ [Next]_vars => LifeStep
<1> SUFFICES ASSUME TypeOK, RowsInv, [Next]_vars PROVE LifeStep
  OBVIOUS
<1> DEFINE Quiet == status' = status /\ applied' = applied /\ Held' = Held
<1>0. Quiet => LifeStep
  BY DEF LifeStep, Held, Life!lifeVars
<1>1. ASSUME NEW h \in Handler, NEW r \in Request,
             CreateFindHit(h, r) \/ CreateFindMiss(h, r)
      PROVE  LifeStep
  <2>1. Held' = Held
    BY <1>1, HoldersKept DEF CreateFindHit, CreateFindMiss, CreateGoOn, callVars, TypeOK,
       WriteStages, PaidStages
  <2>2. QED
    BY <1>0, <1>1, <2>1 DEF CreateFindHit, CreateFindMiss, CreateGoOn, rowVars, userVars
<1>2. ASSUME NEW h \in Handler,
             \/ QuoteCoupon(h) \/ QuoteCount(h) \/ CreateConflict(h)
             \/ PaidCoupon(h) \/ ErrorDropped(h)
      PROVE  LifeStep
  <2>1. Held' = Held
    BY <1>2, HoldersKept DEF QuoteCoupon, QuoteCount, CreateConflict, PaidCoupon,
       ErrorDropped, CreateFindFails, CreateGoOn, QuoteCountFails, PaidCouponFails,
       Goto, Return, TypeOK, WriteStages, PaidStages
  <2>2. status' = status /\ applied' = applied
    BY <1>2 DEF QuoteCoupon, QuoteCount, CreateConflict, PaidCoupon, ErrorDropped,
       CreateFindFails, CreateGoOn, QuoteCountFails, PaidCouponFails, rowVars, userVars
  <2>3. QED
    BY <1>0, <2>1, <2>2
<1>3. ASSUME NEW h \in Handler, CreateInsert(h)
      PROVE  LifeStep
  <2>1. PICK o \in Order : ~Exists(o) /\ status' = [status EXCEPT ![o] = "pending"]
    BY <1>3 DEF CreateInsert
  <2>2. Held' = Held
    BY <1>3, HoldersKept DEF CreateInsert, Return, TypeOK, WriteStages, PaidStages
  <2>3. Life!Open(o)
    BY <1>3, <2>1, <2>2 DEF CreateInsert, Exists, Held, Life!Open
  <2>4. QED
    BY <2>3 DEF LifeStep, Life!LifeNext
<1>4. ASSUME NEW h \in Handler, NEW o \in Order, PaidFind(h, o) \/ CancelFind(h, o)
      PROVE  LifeStep
  <2>1. PICK stage \in WriteStages :
           /\ pc[h] = "idle" /\ status[o] = "pending"
           /\ pc' = [pc EXCEPT ![h] = stage] /\ cur' = [cur EXCEPT ![h] = o]
           /\ status' = status /\ applied' = applied
    BY <1>4 DEF PaidFind, CancelFind, Payable, WriteStages, PaidStages, rowVars, userVars
  <2>2. Life!Take(h, o)
    BY <2>1, HolderTaken DEF Held, Life!Take, Life!Pending
  <2>3. QED
    BY <2>2 DEF LifeStep, Life!LifeNext
<1>5. ASSUME NEW h \in Handler, PaidMark(h)
      PROVE  LifeStep
  <2>1. Held' = Held
    BY <1>5, HoldersKept DEF PaidMark, Goto, TypeOK, WriteStages, PaidStages
  <2>2. cur[h] \in Order /\ h \in Writers(cur[h])
    BY <1>5 DEF PaidMark, Writers, TypeOK, WriteStages, PaidStages
  <2>3. Life!Settle(h, cur[h])
    BY <1>5, <2>1, <2>2 DEF PaidMark, userVars, Held, Life!Settle
  <2>4. QED
    BY <2>2, <2>3 DEF LifeStep, Life!LifeNext
<1>6. ASSUME NEW h \in Handler, PaidApply(h)
      PROVE  LifeStep
  <2>1. pc[h] \in WriteStages /\ Return(h)
    BY <1>6 DEF PaidApply, WriteStages, PaidStages
  <2>2. status[cur[h]] \in {"paid", "cancelled"}
    BY <1>6 DEF PaidApply, RowsInv, CallsAgree
  <2>3. Life!Hand(h, cur[h])
    BY <1>6, <2>1, <2>2, HolderGone
       DEF PaidApply, Deliver, rowVars, Held, Life!Hand, Life!GiveUp
  <2>4. QED
    BY <2>1, <2>3, HolderGone DEF LifeStep, Life!LifeNext
<1>7. ASSUME NEW h \in Handler, CancelWrite(h)
      PROVE  LifeStep
  <2>1. pc[h] \in WriteStages /\ Return(h)
    BY <1>7 DEF CancelWrite, WriteStages
  <2>2. Life!Cancel(h, cur[h])
    BY <1>7, <2>1, HolderGone DEF CancelWrite, userVars, Held, Life!Cancel, Life!GiveUp
  <2>3. QED
    BY <2>1, <2>2, HolderGone DEF LifeStep, Life!LifeNext
<1>8. ASSUME NEW h \in Handler, Fault(h)
      PROVE  LifeStep
  <2>1. Return(h) /\ status' = status /\ applied' = applied
    BY <1>8 DEF Fault, rowVars, userVars
  <2>2. CASE pc[h] \in WriteStages
    <3>1. Life!Drop(h, cur[h])
      BY <2>1, <2>2, HolderGone DEF Held, Life!Drop, Life!GiveUp
    <3>2. QED
      BY <2>1, <2>2, <3>1, HolderGone DEF LifeStep, Life!LifeNext
  <2>3. CASE pc[h] \notin WriteStages
    <3>1. Held' = Held
      BY <2>1, <2>3, HoldersKept DEF Return, TypeOK, WriteStages, PaidStages
    <3>2. QED
      BY <1>0, <2>1, <3>1
  <2>4. QED
    BY <2>2, <2>3
<1>9. CASE ExpirePending
  <2>1. Held' = Held
    BY <1>9, HoldersKept DEF ExpirePending, callVars
  <2>2. Overdue \in SUBSET Life!Pending
    BY DEF Overdue, Life!Pending
  <2>3. Life!Expire(Overdue)
    BY <1>9, <2>1 DEF ExpirePending, userVars, Held, Life!Expire
  <2>4. QED
    BY <2>2, <2>3 DEF LifeStep, Life!LifeNext
<1>10. CASE (\E o \in Order : Elapse(o)) \/ UNCHANGED vars
  <2>1. Held' = Held
    BY <1>10, HoldersKept DEF Elapse, vars, callVars
  <2>2. QED
    BY <1>0, <1>10, <2>1 DEF Elapse, vars, rowVars, userVars
<1>11. QED
  BY <1>1, <1>2, <1>3, <1>4, <1>5, <1>6, <1>7, <1>8, <1>9, <1>10 DEF Next, Call, Step

\* The statements of the billing service, interleaved and failing in any way,
\* implement the life cycle: only a handler that found an order pending ever
\* settles, delivers or cancels it, and delivers only what was settled.
THEOREM OrdersImplementLife == Spec => ImplementsLife
<1>1. Init => Life!LifeInit
  BY DEF Init, Writers, WriteStages, PaidStages, Life!LifeInit
<1>2. TypeOK /\ RowsInv /\ [Next]_vars => [Life!LifeNext]_(Life!lifeVars)
  BY StepIsLifeStep DEF LifeStep
<1>3. QED
  BY <1>1, <1>2, TypeCorrect, RowsInvariant, PTL DEF Spec, ImplementsLife, Life!LifeSpec

-----------------------------------------------------------------------------
(* Payments: calls.                                                         *)

Others(h) == \A g \in Handler \ {h} : call'[g] = call[g]

Keeps(h) == /\ call'[h].order = call[h].order
            /\ call'[h].chan = call[h].chan
            /\ call'[h].note = call[h].note

\* A handler that goes on keeps everything but its stage.
LEMMA GoOnMoves ==
  ASSUME call \in [Handler -> CallType], NEW h \in Handler,
         NEW s \in {"insert", "fallback", "mark", "used", "bill", "billing", "settrade"},
         GoOn(h, s)
  PROVE  /\ call' \in [Handler -> CallType]
         /\ Others(h)
         /\ call'[h].at = s
         /\ Keeps(h)
         /\ call'[h].addr = call[h].addr
         /\ call'[h].pay = call[h].pay
BY DEF GoOn, Others, Keeps, CallType, NotifyStages

\* A handler that takes up a payment keeps what it was told.
LEMMA WorkMoves ==
  ASSUME call \in [Handler -> CallType], NEW h \in Handler,
         NEW s \in {"mark", "settrade"}, NEW p \in Pay,
         call' = [call EXCEPT ![h].at = s, ![h].pay = p]
  PROVE  /\ call' \in [Handler -> CallType]
         /\ Others(h)
         /\ call'[h].at = s
         /\ Keeps(h)
         /\ call'[h].addr = call[h].addr
         /\ call'[h].pay = p
BY DEF Others, Keeps, CallType, NotifyStages

\* A handler that claims an address keeps the rest.
LEMMA ClaimMoves ==
  ASSUME call \in [Handler -> CallType], NEW h \in Handler, NEW a \in Address,
         call' = [call EXCEPT ![h].at = "insert", ![h].addr = a]
  PROVE  /\ call' \in [Handler -> CallType]
         /\ Others(h)
         /\ call'[h].at = "insert"
         /\ Keeps(h)
         /\ call'[h].addr = a
BY DEF Others, Keeps, CallType, NotifyStages

\* A handler that hangs up keeps nothing.
LEMMA HangUpMoves ==
  ASSUME call \in [Handler -> CallType], NEW h \in Handler, HangUp(h)
  PROVE  /\ call' \in [Handler -> CallType]
         /\ Others(h)
         /\ call'[h] = NoCall
BY DEF HangUp, Others, CallType, NoCall, NotifyStages

\* A handler that starts or takes up a row or an address changes only itself.
LEMMA CallSet ==
  ASSUME call \in [Handler -> CallType], NEW h \in Handler, NEW r \in CallType,
         call' = [call EXCEPT ![h] = r]
  PROVE  /\ call' \in [Handler -> CallType]
         /\ Others(h)
         /\ call'[h] = r
BY DEF Others
-----------------------------------------------------------------------------
(* Refinement.                                                             *)

\* How payments, charges and calls refer to each other; rows are numbered in
\* the order of their INSERTs and never go away.
LinksOK ==
    /\ \A p \in Rows : payment[p].order \in Order /\ payment[p].chan \in Channel
    /\ charged \subseteq Rows
    /\ \A h \in Handler :
          call[h].at \in NotifyStages => call[h].chan = payment[call[h].note].chan
    /\ \E k \in 0..MaxPayments : Rows = 1..k

PayInv == TypeOK /\ PayTypeOK /\ LinksOK

\* The payment part reaches the orders only through the statements of Orders,
\* on orders that exist in the payments' rows.
LEMMA StepIsOrderStep == PayInv /\ [PayNext]_allVars => [Next]_vars
<1> SUFFICES ASSUME PayInv, [PayNext]_allVars PROVE [Next]_vars
  OBVIOUS
<1>1. ASSUME NEW h \in Handler, OrderCall(h)
      PROVE  Next
  BY <1>1 DEF OrderCall, Next, Call, ErrorDropped
<1>2. ASSUME NEW h \in Handler, Bill(h)
      PROVE  [Next]_vars
  <2>1. call[h].pay \in Rows
    BY <1>2 DEF Bill, PayInv, PayTypeOK
  <2>2. payment[call[h].pay].order \in Order
    BY <2>1 DEF PayInv, LinksOK
  <2>3. PaidFind(h, payment[call[h].pay].order) \/ UNCHANGED vars
    BY <1>2 DEF Bill
  <2>4. QED
    BY <2>2, <2>3 DEF Next, Call
<1>3. ASSUME NEW h \in Handler, Billing(h)
      PROVE  Next
  BY <1>3 DEF Billing, Next, ErrorDropped
<1>4. ASSUME NEW h \in Handler, PayFault(h)
      PROVE  [Next]_vars
  BY <1>4 DEF PayFault, Next
<1>5. CASE Background
  BY <1>5 DEF Background, Next
<1>6. ASSUME NEW h \in Handler,
             \/ ProviderCreate(h) \/ PayInsert(h) \/ Lookup(h) \/ Fallback(h)
             \/ SetTradeNo(h) \/ MarkPaid(h) \/ MarkUsed(h)
             \/ \E o \in Order, c \in Channel : PayFind(h, o, c)
             \/ \E c \in Pay : HandleNotify(h, c) \/ USDTReceived(h, c)
      PROVE  UNCHANGED vars
  BY <1>6 DEF ProviderCreate, PayInsert, Lookup, Fallback, SetTradeNo, MarkPaid, MarkUsed,
     PayFind, HandleNotify, USDTReceived, Receive
<1>7. CASE ExpireOldPending \/ \E p \in Pay : Charge(p) \/ PayElapse(p)
  BY <1>7 DEF ExpireOldPending, Charge, PayElapse
<1>8. CASE UNCHANGED allVars
  BY <1>8 DEF allVars
<1>9. ASSUME NEW h \in Handler, NEW o \in Order, MockPay(h, o)
      PROVE  Next
  BY <1>9 DEF MockPay, Next, Call
<1>10. QED
  BY <1>1, <1>2, <1>3, <1>4, <1>5, <1>6, <1>7, <1>8, <1>9 DEF PayNext, PayStep
-----------------------------------------------------------------------------
(* Types and links.                                                        *)

\* A row that is there stays there, with its order, channel and address.
RowsKeep ==
    \A p \in Rows : /\ p \in Rows'
                    /\ payment'[p].order = payment[p].order
                    /\ payment'[p].chan = payment[p].chan
                    /\ payment'[p].addr = payment[p].addr

TablesOK ==
    /\ payment \in [Pay -> PaymentType]
    /\ \A p \in Rows : payment[p].order \in Order /\ payment[p].chan \in Channel
    /\ charged \subseteq Rows
    /\ \E k \in 0..MaxPayments : Rows = 1..k

\* The customers' calls of mock-pay and the instance.
WorldOK == mocked \subseteq Order /\ load \in Loads

\* The trade number of an attempt is one of the trade numbers there are.
LEMMA TradeTyped ==
  ASSUME TablesOK, NEW p \in Rows
  PROVE  TradeOf(p) \in Trade
<1>1. p \in Pay /\ payment[p].order \in Order /\ payment[p].chan \in Channel
  BY DEF TablesOK, Rows
<1>2. QED
  BY <1>1 DEF TradeOf, Trade

\* The row that an INSERT adds comes after all others.
LEMMA NextRow ==
  ASSUME TablesOK
  PROVE  /\ Cardinality(Rows) \in Nat
         /\ Cardinality(Rows) + 1 \notin Rows
         /\ Rows = 1..Cardinality(Rows)
         /\ Cardinality(Rows) + 1 \in Pay
              => Rows \cup {Cardinality(Rows) + 1} = 1..(Cardinality(Rows) + 1)
<1>1. PICK k \in 0..MaxPayments : Rows = 1..k
  BY DEF TablesOK
<1>2. k \in Nat
  BY <1>1, PaymentsAssumption DEF PaymentsAssumption
<1>3. Cardinality(1..k) = k
  BY <1>2, FS_Interval
<1>4. QED
  BY <1>1, <1>2, <1>3

\* An UPDATE of one row that leaves its links alone.
LEMMA RowUpdated ==
  ASSUME TablesOK, NEW q \in Rows, NEW r \in PaymentType,
         r.status # "absent", r.order = payment[q].order,
         r.chan = payment[q].chan, r.addr = payment[q].addr,
         payment' = [payment EXCEPT ![q] = r], charged' = charged
  PROVE  TablesOK' /\ RowsKeep /\ Rows' = Rows
<1>1. q \in Pay
  BY DEF Rows
<1>2. \A p \in Pay : payment'[p] = IF p = q THEN r ELSE payment[p]
  BY <1>1 DEF TablesOK
<1>3. Rows' = Rows
  BY <1>1, <1>2 DEF Rows
<1>4. payment' \in [Pay -> PaymentType]
  BY <1>1 DEF TablesOK
<1>5. QED
  BY <1>2, <1>3, <1>4 DEF TablesOK, RowsKeep, Rows

\* The INSERT of an attempt, accepted or refused.
LEMMA InsertRow ==
  ASSUME PayInv, NEW h \in Handler, PayInsert(h)
  PROVE  TablesOK' /\ RowsKeep
<1> DEFINE p == Cardinality(Rows) + 1
           t == IF call[h].chan = "mock" THEN <<"mock", p>> ELSE NoTrade
           r == [status |-> "pending", order |-> call[h].order, chan |-> call[h].chan,
                 trade |-> t, addr |-> call[h].addr, live |-> TRUE]
<1>0. TablesOK
  BY DEF PayInv, PayTypeOK, LinksOK, TablesOK
<1>1. charged' = charged
  BY DEF PayInsert, worldVars
<1>2. payment' = payment \/ payment' = [payment EXCEPT ![p] = r]
  BY DEF PayInsert
<1>3. CASE payment' = payment
  BY <1>0, <1>1, <1>3 DEF TablesOK, RowsKeep, Rows
<1>4. CASE payment' = [payment EXCEPT ![p] = r] /\ p \notin Pay
  <2>1. payment' = payment
    BY <1>0, <1>4 DEF TablesOK
  <2>2. QED
    BY <1>3, <2>1
<1>5. CASE payment' = [payment EXCEPT ![p] = r] /\ p \in Pay
  <2>1. /\ call[h] \in CallType
        /\ call[h].order \in Order /\ call[h].chan \in Channel
    BY DEF PayInsert, PayInv, PayTypeOK
  <2>2. p \notin Rows /\ Rows \cup {p} = 1..p /\ p \in Nat
    BY <1>0, <1>5, NextRow
  <2> HIDE DEF p
  <2>3. r \in PaymentType /\ r.status # "absent"
    BY <1>5, <2>1 DEF PaymentType, CallType, Trade
  <2>4. payment' \in [Pay -> PaymentType]
    BY <1>0, <1>5, <2>3 DEF TablesOK
  <2>5. \A q \in Pay : payment'[q] = IF q = p THEN r ELSE payment[q]
    BY <1>0, <1>5 DEF TablesOK
  <2>6. Rows' = Rows \cup {p}
    BY <1>5, <2>3, <2>5 DEF Rows
  <2>7. \E k \in 0..MaxPayments : Rows' = 1..k
    BY <1>5, <2>2, <2>6 DEF Pay
  <2>8. \A q \in Rows' : payment'[q].order \in Order /\ payment'[q].chan \in Channel
    BY <1>0, <1>5, <2>1, <2>5, <2>6 DEF TablesOK, Rows
  <2>9. RowsKeep
    BY <2>2, <2>5, <2>6 DEF RowsKeep, Rows
  <2>10. QED
    BY <1>0, <1>1, <2>4, <2>6, <2>7, <2>8, <2>9 DEF TablesOK
<1>6. QED
  BY <1>2, <1>3, <1>4, <1>5

\* Every step keeps the rows and what they point to.
LEMMA TablesStep ==
  ASSUME PayInv, [PayNext]_allVars
  PROVE  TablesOK' /\ RowsKeep /\ charged \subseteq charged'
<1>0. TablesOK
  BY DEF PayInv, PayTypeOK, LinksOK, TablesOK
<1>1. ASSUME NEW h \in Handler, PayInsert(h)
      PROVE  TablesOK' /\ RowsKeep /\ charged \subseteq charged'
  BY <1>1, InsertRow DEF PayInsert, worldVars
<1>2. ASSUME NEW h \in Handler, SetTradeNo(h)
      PROVE  TablesOK' /\ RowsKeep /\ charged \subseteq charged'
  <2> DEFINE q == call[h].pay
             r == [payment[q] EXCEPT !.trade = TradeOf(call[h].note)]
  <2>1. q \in Rows /\ q \in Pay /\ call[h].note \in Rows
    BY <1>2 DEF SetTradeNo, PayInv, PayTypeOK, LinksOK, Rows, NotifyStages
  <2>2. TradeOf(call[h].note) \in Trade
    BY <1>0, <2>1, TradeTyped
  <2>3. payment' = payment \/ payment' = [payment EXCEPT ![q] = r]
    BY <1>2 DEF SetTradeNo
  <2>4. /\ r \in PaymentType /\ r.status = payment[q].status
        /\ r.order = payment[q].order /\ r.chan = payment[q].chan
        /\ r.addr = payment[q].addr
    BY <1>0, <2>1, <2>2 DEF TablesOK, PaymentType
  <2>5. charged' = charged /\ r.status # "absent"
    BY <1>2, <2>1, <2>4 DEF SetTradeNo, Rows, worldVars
  <2> HIDE DEF q, r
  <2>6. CASE payment' = [payment EXCEPT ![q] = r]
    BY <1>0, <2>1, <2>4, <2>5, <2>6, RowUpdated
  <2>7. CASE payment' = payment
    BY <1>0, <2>5, <2>7 DEF TablesOK, RowsKeep, Rows
  <2>8. QED
    BY <2>3, <2>5, <2>6, <2>7
<1>3. ASSUME NEW h \in Handler, MarkPaid(h)
      PROVE  TablesOK' /\ RowsKeep /\ charged \subseteq charged'
  <2> DEFINE q == call[h].pay
             r == [payment[q] EXCEPT !.status = "paid", !.trade = TradeOf(call[h].note)]
  <2>1. q \in Rows /\ q \in Pay /\ call[h].note \in Rows
    BY <1>3 DEF MarkPaid, PayInv, PayTypeOK, LinksOK, Rows, NotifyStages
  <2>2. TradeOf(call[h].note) \in Trade
    BY <1>0, <2>1, TradeTyped
  <2>3. payment' = payment \/ payment' = [payment EXCEPT ![q] = r]
    BY <1>3 DEF MarkPaid
  <2>4. /\ r \in PaymentType /\ r.status # "absent"
        /\ r.order = payment[q].order /\ r.chan = payment[q].chan
        /\ r.addr = payment[q].addr
    <3> DEFINE t == TradeOf(call[h].note)
    <3> HIDE DEF t, q
    <3>1. payment[q] \in PaymentType
      BY <1>0, <2>1 DEF TablesOK
    <3>2. t \in Trade
      BY <2>2 DEF t
    <3>3. [payment[q] EXCEPT !.status = "paid", !.trade = t] \in PaymentType
      BY <3>1, <3>2 DEF PaymentType
    <3>4. r = [payment[q] EXCEPT !.status = "paid", !.trade = t]
      BY DEF t
    <3>5. QED
      BY <3>1, <3>3, <3>4 DEF PaymentType
  <2>5. charged' = charged
    BY <1>3 DEF MarkPaid, worldVars
  <2> HIDE DEF q, r
  <2>6. CASE payment' = [payment EXCEPT ![q] = r]
    BY <1>0, <2>1, <2>4, <2>5, <2>6, RowUpdated
  <2>7. CASE payment' = payment
    BY <1>0, <2>5, <2>7 DEF TablesOK, RowsKeep, Rows
  <2>8. QED
    BY <2>3, <2>5, <2>6, <2>7
<1>4. ASSUME NEW p \in Pay, PayElapse(p)
      PROVE  TablesOK' /\ RowsKeep /\ charged \subseteq charged'
  <2> DEFINE r == [payment[p] EXCEPT !.live = FALSE]
  <2>1. /\ r \in PaymentType /\ r.status = payment[p].status
        /\ r.order = payment[p].order /\ r.chan = payment[p].chan
        /\ r.addr = payment[p].addr
    BY <1>0 DEF TablesOK, PaymentType
  <2>2. /\ p \in Rows /\ charged' = charged
        /\ payment' = [payment EXCEPT ![p] = r] /\ r.status # "absent"
    BY <1>4, <2>1 DEF PayElapse, Rows, worldVars
  <2> HIDE DEF r
  <2>3. QED
    BY <1>0, <2>1, <2>2, RowUpdated
<1>5. CASE ExpireOldPending
  <2> USE <1>0, <1>5 DEF ExpireOldPending, OldPending, TablesOK, Rows
  <2>1. \A p \in Pay : /\ payment'[p] \in PaymentType
                       /\ payment'[p].status = "absent" <=> payment[p].status = "absent"
                       /\ payment'[p].order = payment[p].order
                       /\ payment'[p].chan = payment[p].chan
                       /\ payment'[p].addr = payment[p].addr
    BY DEF PaymentType
  <2>2. payment' \in [Pay -> PaymentType]
    BY <2>1
  <2>3. Rows' = Rows /\ charged' = charged
    BY <2>1 DEF worldVars
  <2>4. QED
    BY <2>1, <2>2, <2>3 DEF RowsKeep
<1>6. ASSUME NEW p \in Pay, Charge(p)
      PROVE  TablesOK' /\ RowsKeep /\ charged \subseteq charged'
  BY <1>0, <1>6 DEF Charge, TablesOK, RowsKeep, Rows
<1>7. CASE UNCHANGED <<payment, charged>>
  BY <1>0, <1>7 DEF TablesOK, RowsKeep, Rows
<1>8. QED
  BY <1>1, <1>2, <1>3, <1>4, <1>5, <1>6, <1>7 DEF PayNext, PayStep, OrderCall, MockPay, PayFind,
     HandleNotify, USDTReceived, Receive, PayFault, Background, ProviderCreate, Lookup,
     Fallback, MarkUsed, Bill, Billing, allVars, payVars, worldVars

Below == {mn \in Nat \X Nat : mn[1] < mn[2]}

\* A set of rows that is not empty has a newest row.
LEMMA NewestIsLast ==
  ASSUME TablesOK, NEW S, S \subseteq Rows, S # {}
  PROVE  Newest(S) \in S /\ \A q \in S : q <= Newest(S)
<1>1. PICK k \in Nat : Rows = 1..k
  BY PaymentsAssumption DEF TablesOK, PaymentsAssumption
<1> DEFINE T == {k - p : p \in S}
<1>2. T \subseteq Nat /\ T # {}
  BY <1>1
<1>3. IsWellFoundedOn(Below, Nat)
  BY NatLessThanWellFounded DEF OpToRel, Below
<1>4. PICK m \in T : \A n \in T : <<n, m>> \notin Below
  <2> HIDE DEF T
  <2>1. QED
    BY <1>2, <1>3, WFMin
<1>5. \A n \in T : m <= n
  <2> SUFFICES ASSUME NEW n \in T PROVE m <= n
    OBVIOUS
  <2>1. m \in Nat /\ n \in Nat
    BY <1>2
  <2>2. ~(n < m)
    BY <1>4, <2>1 DEF Below
  <2>3. QED
    BY <2>1, <2>2
<1>6. PICK p \in S : m = k - p
  BY <1>4
<1>7. \A q \in S : q <= p
  <2> SUFFICES ASSUME NEW q \in S PROVE q <= p
    OBVIOUS
  <2>1. k - q \in T /\ p \in Nat /\ q \in Nat
    BY <1>1
  <2>2. m <= k - q
    <3> HIDE DEF T
    <3>1. QED
      BY <1>5, <2>1
  <2> HIDE DEF T
  <2>3. QED
    BY <1>6, <2>1, <2>2
<1>8. QED
  BY <1>7 DEF Newest

CallOK(h) ==
    /\ call[h].at # "idle" => call[h].order \in Order /\ call[h].chan \in Channel
    /\ call[h].at \in NotifyStages =>
          /\ call[h].note \in charged
          /\ call[h].chan = payment[call[h].note].chan
    /\ call[h].at \in {"settrade", "mark", "used", "bill"} => call[h].pay \in Rows
    /\ call[h].at = "billing" => pc[h] \in PaidStages
    /\ call[h].at \notin {"idle", "billing"} => pc[h] = "idle"

CallsOK ==
    /\ pool \in [Address -> {"free", "allocated", "used"}]
    /\ acked \subseteq charged
    /\ call \in [Handler -> CallType]
    /\ \A h \in Handler : CallOK(h)

\* The invariant as the tables on one side and the calls on the other.
LEMMA PayInvParts == PayInv <=> TypeOK /\ TablesOK /\ CallsOK /\ WorldOK
BY DEF PayInv, PayTypeOK, LinksOK, TablesOK, CallsOK, CallOK, WorldOK, Rows

\* Only mock-pay adds to what it paid, and nothing changes the instance.
LEMMA WorldStep ==
  ASSUME PayInv, [PayNext]_allVars
  PROVE  WorldOK' /\ mocked \subseteq mocked'
<1>0. WorldOK
  BY PayInvParts
<1>1. ASSUME NEW h \in Handler, NEW o \in Order, MockPay(h, o)
      PROVE  WorldOK' /\ mocked \subseteq mocked'
  BY <1>0, <1>1 DEF MockPay, WorldOK
<1>2. CASE UNCHANGED <<mocked, load>>
  BY <1>0, <1>2 DEF WorldOK
<1>3. QED
  BY <1>1, <1>2 DEF PayNext, PayStep, OrderCall, MockPay, PayFind, HandleNotify, USDTReceived, Receive,
     PayFault, Background, ProviderCreate, PayInsert, Lookup, Fallback, SetTradeNo, MarkPaid,
     MarkUsed, Bill, Billing, Charge, PayElapse, ExpireOldPending, allVars, payVars, worldVars

\* A call that takes no step stays in order while rows and charges stay.
LEMMA OtherCall ==
  ASSUME RowsKeep, charged \subseteq Rows, charged \subseteq charged',
         NEW g \in Handler, CallOK(g), call'[g] = call[g], pc'[g] = pc[g]
  PROVE  CallOK(g)'
BY DEF CallOK, RowsKeep, Rows

\* A statement of Orders run by one handler leaves the others where they are.
LEMMA OrderStepOfOne ==
  ASSUME TypeOK, NEW h \in Handler,
         \/ Step(h) \/ ErrorDropped(h) \/ Fault(h)
         \/ \E r \in Request : CreateFindHit(h, r) \/ CreateFindMiss(h, r)
         \/ \E o \in Order : PaidFind(h, o) \/ CancelFind(h, o)
  PROVE  \A g \in Handler \ {h} : pc'[g] = pc[g] /\ cur'[g] = cur[g]
BY DEF Step, ErrorDropped, Fault, CreateFindHit, CreateFindMiss, CreateFindFails,
   CreateGoOn, QuoteCoupon, QuoteCount, QuoteCountFails, CreateInsert, CreateConflict,
   PaidFind, PaidMark, PaidCoupon, PaidCouponFails, PaidApply, CancelFind, CancelWrite,
   Return, Goto, TypeOK, callVars

\* CreateOrder and CancelOrder do not come to HandlePaid, and its statements
\* stay with the order.
LEMMA OrderCallStaysOut ==
  ASSUME TypeOK, NEW h \in Handler, OrderCall(h), pc'[h] \in PaidStages
  PROVE  pc[h] \in PaidStages /\ cur'[h] = cur[h]
BY DEF OrderCall, Idle, Free, Step, Fault, CreateFindHit, CreateFindMiss, CreateFindFails,
   CreateGoOn, QuoteCoupon, QuoteCount, QuoteCountFails, CreateInsert, CreateConflict,
   PaidMark, PaidCoupon, PaidCouponFails, PaidApply, CancelFind, CancelWrite,
   Return, Goto, TypeOK, callVars, PaidStages

\* HandlePaid goes on or returns.
LEMMA BillingStages ==
  ASSUME TypeOK, NEW h \in Handler, pc[h] \in PaidStages, Step(h) \/ PaidCouponFails(h)
  PROVE  pc'[h] \in PaidStages \/ pc'[h] = "idle"
BY DEF Step, QuoteCoupon, QuoteCount, CreateInsert, CreateConflict, PaidMark, PaidCoupon,
   PaidCouponFails, PaidApply, CancelWrite, Return, Goto, TypeOK, PaidStages

\* When one handler moves and is in order afterwards, all calls are.
LEMMA OneCallMoves ==
  ASSUME TablesOK, CallsOK, RowsKeep, charged \subseteq charged', NEW h \in Handler,
         call' \in [Handler -> CallType], Others(h),
         \A g \in Handler \ {h} : pc'[g] = pc[g],
         CallOK(h)', acked' \subseteq charged',
         pool' \in [Address -> {"free", "allocated", "used"}]
  PROVE  CallsOK'
<1>1. \A g \in Handler \ {h} : CallOK(g)'
  BY OtherCall DEF TablesOK, CallsOK, Others
<1>2. QED
  BY <1>1 DEF CallsOK

\* A handler that hangs up is in order, whether or not it acknowledges.
LEMMA HungUp ==
  ASSUME NEW h \in Handler, call'[h] = NoCall
  PROVE  CallOK(h)'
BY DEF CallOK, NoCall, NotifyStages

\* Every step of a handler on a payment leaves all calls in order.
LEMMA CallsStep ==
  ASSUME PayInv, [PayNext]_allVars
  PROVE  CallsOK'
<1>0. TypeOK /\ TablesOK /\ CallsOK
  BY PayInvParts
<1>a. TablesOK' /\ RowsKeep /\ charged \subseteq charged'
  BY TablesStep
<1>b. call \in [Handler -> CallType] /\ pool \in [Address -> {"free", "allocated", "used"}]
  BY <1>0 DEF CallsOK
<1>1. ASSUME NEW h \in Handler, OrderCall(h)
      PROVE  CallsOK'
  <2>1. /\ call' = call /\ pool' = pool /\ acked' = acked /\ charged' = charged
        /\ call[h].at = "idle"
    BY <1>1 DEF OrderCall, payVars, worldVars
  <2>2. \A g \in Handler \ {h} : pc'[g] = pc[g]
    BY <1>0, <1>1, OrderStepOfOne DEF OrderCall, ErrorDropped
  <2>3. CallOK(h)'
    BY <2>1 DEF CallOK, NotifyStages
  <2>4. QED
    BY <1>0, <1>a, <1>b, <2>1, <2>2, <2>3, OneCallMoves DEF CallsOK, Others
<1>2. ASSUME NEW h \in Handler, NEW o \in Order, NEW c \in Channel, PayFind(h, o, c)
      PROVE  CallsOK'
  <2> DEFINE r == [NoCall EXCEPT !.at = "create", !.order = o, !.chan = c]
  <2>1. r \in CallType /\ r.at = "create" /\ r.order = o /\ r.chan = c
    BY DEF NoCall, CallType
  <2>2. /\ call' = [call EXCEPT ![h] = r] /\ pc[h] = "idle"
        /\ pc' = pc /\ pool' = pool /\ acked' = acked
    BY <1>2 DEF PayFind, Idle, Free, vars, callVars
  <2> HIDE DEF r
  <2>3. call' \in [Handler -> CallType] /\ Others(h) /\ call'[h] = r
    BY <1>b, <2>1, <2>2, CallSet
  <2>4. CallOK(h)'
    BY <2>1, <2>2, <2>3 DEF CallOK, NotifyStages, PaidStages
  <2>5. QED
    BY <1>0, <1>a, <1>b, <2>2, <2>3, <2>4, OneCallMoves DEF CallsOK
<1>3. ASSUME NEW h \in Handler, NEW c \in Pay, HandleNotify(h, c) \/ USDTReceived(h, c)
      PROVE  CallsOK'
  <2>1. PICK o \in Order : c \in charged /\ Receive(h, c, o)
    <3>1. CASE HandleNotify(h, c)
      BY <1>0, <3>1 DEF HandleNotify, TablesOK
    <3>2. CASE USDTReceived(h, c)
      <4> DEFINE S == Awaiting(payment[c].addr)
      <4>1. S # {} /\ S \subseteq Rows /\ Receive(h, c, payment[Newest(S)].order)
        BY <3>2 DEF USDTReceived, Awaiting
      <4>2. Newest(S) \in S
        BY <1>0, <4>1, NewestIsLast
      <4>3. payment[Newest(S)].order \in Order
        BY <1>0, <4>1, <4>2 DEF TablesOK
      <4>4. QED
        BY <3>2, <4>1, <4>3 DEF USDTReceived
    <3>3. QED
      BY <1>3, <3>1, <3>2
  <2> DEFINE r == [NoCall EXCEPT !.at = "lookup", !.order = o,
                                 !.chan = payment[c].chan, !.note = c]
  <2>2. payment[c].chan \in Channel /\ c \in Rows
    BY <1>0, <2>1 DEF TablesOK
  <2>3. /\ r \in CallType /\ r.at = "lookup" /\ r.order = o
        /\ r.chan = payment[c].chan /\ r.note = c
    BY <2>2 DEF NoCall, CallType, NotifyStages
  <2>4. /\ call' = [call EXCEPT ![h] = r] /\ pc[h] = "idle"
        /\ pc' = pc /\ pool' = pool /\ acked' = acked /\ payment' = payment
    BY <2>1 DEF Receive, Idle, Free, vars, callVars
  <2> HIDE DEF r
  <2>5. call' \in [Handler -> CallType] /\ Others(h) /\ call'[h] = r
    BY <1>b, <2>3, <2>4, CallSet
  <2>6. CallOK(h)'
    BY <1>a, <2>1, <2>2, <2>3, <2>4, <2>5 DEF CallOK, NotifyStages, PaidStages
  <2>7. QED
    BY <1>0, <1>a, <1>b, <2>4, <2>5, <2>6, OneCallMoves DEF CallsOK
<1>4. ASSUME NEW h \in Handler, ProviderCreate(h)
      PROVE  CallsOK'
  <2>1. pc' = pc /\ acked' = acked /\ pc[h] = "idle" /\ call[h].at = "create"
    BY <1>0, <1>4 DEF ProviderCreate, CallsOK, CallOK, vars, callVars
  <2>2. CASE GoOn(h, "insert") /\ UNCHANGED pool
    <3>1. CallOK(h)'
      BY <1>0, <1>b, <2>1, <2>2, GoOnMoves DEF CallsOK, CallOK, Keeps, NotifyStages, PaidStages
    <3>2. QED
      BY <1>0, <1>a, <1>b, <2>1, <2>2, <3>1, GoOnMoves, OneCallMoves DEF CallsOK
  <2>3. ASSUME NEW a \in Address, pool' = [pool EXCEPT ![a] = "allocated"],
               call' = [call EXCEPT ![h].at = "insert", ![h].addr = a]
        PROVE  CallsOK'
    <3>1. CallOK(h)'
      BY <1>0, <1>b, <2>1, <2>3, ClaimMoves DEF CallsOK, CallOK, Keeps, NotifyStages, PaidStages
    <3>2. pool' \in [Address -> {"free", "allocated", "used"}]
      BY <1>b, <2>3
    <3>3. QED
      BY <1>0, <1>a, <1>b, <2>1, <2>3, <3>1, <3>2, ClaimMoves, OneCallMoves DEF CallsOK
  <2>4. CASE HangUp(h) /\ UNCHANGED pool
    <3>1. CallOK(h)'
      BY <1>b, <2>1, <2>4, HangUpMoves, HungUp DEF PaidStages
    <3>2. QED
      BY <1>0, <1>a, <1>b, <2>1, <2>4, <3>1, HangUpMoves, OneCallMoves DEF CallsOK
  <2>5. QED
    BY <1>4, <2>2, <2>3, <2>4 DEF ProviderCreate
<1>5. ASSUME NEW h \in Handler, PayInsert(h)
      PROVE  CallsOK'
  <2>1. /\ pc' = pc /\ acked' = acked /\ pool' = pool /\ pc[h] = "idle" /\ HangUp(h)
    BY <1>0, <1>5 DEF PayInsert, CallsOK, CallOK, vars, callVars
  <2>2. CallOK(h)'
    BY <1>b, <2>1, HangUpMoves, HungUp DEF PaidStages
  <2>3. QED
    BY <1>0, <1>a, <1>b, <2>1, <2>2, HangUpMoves, OneCallMoves DEF CallsOK
<1>6. ASSUME NEW h \in Handler, pc' = pc, pc[h] = "idle", pool' = pool,
             call[h].at \in NotifyStages, HangUp(h), acked' = acked \/ Acknowledge(h)
      PROVE  CallsOK'
  <2>1. acked' \subseteq charged'
    BY <1>0, <1>a, <1>6 DEF CallsOK, CallOK, Acknowledge
  <2>2. CallOK(h)'
    BY <1>b, <1>6, HangUpMoves, HungUp DEF PaidStages
  <2>3. QED
    BY <1>0, <1>a, <1>b, <1>6, <2>1, <2>2, HangUpMoves, OneCallMoves
<1>7. ASSUME NEW h \in Handler, pc' = pc, pc[h] = "idle", pool' \in [Address -> {"free", "allocated", "used"}],
             acked' = acked, call[h].at \in NotifyStages,
             NEW s \in {"fallback", "mark", "used", "bill"}, GoOn(h, s),
             s # "fallback" => call[h].pay \in Rows
      PROVE  CallsOK'
  <2>1. CallOK(h)'
    <3>1. /\ call'[h].at = s /\ Keeps(h) /\ call'[h].pay = call[h].pay
      BY <1>b, <1>7, GoOnMoves
    <3>2. call[h].note \in Rows /\ call[h].note \in charged'
      BY <1>0, <1>a, <1>7 DEF CallsOK, CallOK, TablesOK
    <3>3. QED
      BY <1>0, <1>a, <1>7, <3>1, <3>2
         DEF CallsOK, CallOK, Keeps, RowsKeep, NotifyStages, PaidStages
  <2>2. QED
    BY <1>0, <1>a, <1>b, <1>7, <2>1, GoOnMoves, OneCallMoves DEF CallsOK
<1>8. ASSUME NEW h \in Handler, pc' = pc, pc[h] = "idle", pool' = pool, acked' = acked,
             call[h].at \in NotifyStages, NEW s \in {"mark", "settrade"}, NEW p \in Rows,
             call' = [call EXCEPT ![h].at = s, ![h].pay = p]
      PROVE  CallsOK'
  <2>0. p \in Pay
    BY DEF Rows
  <2>1. /\ call' \in [Handler -> CallType] /\ Others(h) /\ call'[h].at = s
        /\ Keeps(h) /\ call'[h].pay = p
    BY <1>b, <1>8, <2>0, WorkMoves
  <2>2. call[h].note \in Rows /\ call[h].note \in charged' /\ p \in Rows'
    BY <1>0, <1>a, <1>8 DEF CallsOK, CallOK, TablesOK, RowsKeep
  <2>3. CallOK(h)'
    BY <1>0, <1>a, <1>8, <2>1, <2>2
       DEF CallsOK, CallOK, Keeps, RowsKeep, NotifyStages, PaidStages
  <2>4. QED
    BY <1>0, <1>a, <1>b, <1>8, <2>1, <2>3, OneCallMoves DEF CallsOK
<1>9. ASSUME NEW h \in Handler,
             Lookup(h) \/ Fallback(h) \/ SetTradeNo(h) \/ MarkPaid(h) \/ MarkUsed(h)
      PROVE  CallsOK'
  <2>1. /\ pc' = pc /\ call[h].at \in {"lookup", "fallback", "settrade", "mark", "used"}
        /\ call[h].at \in {"settrade", "mark", "used"} => call[h].pay \in Rows
    BY <1>0, <1>9 DEF Lookup, Fallback, SetTradeNo, MarkPaid, MarkUsed, vars, callVars,
       CallsOK, CallOK
  <2>2. pc[h] = "idle" /\ call[h].at \in NotifyStages
    BY <1>0, <2>1 DEF CallsOK, CallOK, NotifyStages
  <2>3. CASE Lookup(h)
    <3> DEFINE found == WithTrade(TradeOf(call[h].note), call[h].chan)
    <3>1. found \subseteq Rows /\ pool' = pool
      BY <2>3 DEF WithTrade, Lookup
    <3>2. \/ Acknowledge(h)
          \/ \E p \in found : call' = [call EXCEPT ![h].at = "mark", ![h].pay = p]
                               /\ acked' = acked
          \/ GoOn(h, "fallback") /\ acked' = acked
      BY <2>3 DEF Lookup
    <3> HIDE DEF found
    <3>3. QED
      BY <2>1, <2>2, <3>1, <3>2, <1>6, <1>7, <1>8, <1>b DEF Acknowledge
  <2>4. CASE Fallback(h)
    <3> DEFINE active == Active(call[h].order, call[h].chan)
    <3>1. active \subseteq Rows /\ pool' = pool /\ acked' = acked
      BY <2>4 DEF Active, Fallback
    <3>2. \/ HangUp(h)
          \/ active # {} /\ call' = [call EXCEPT ![h].at = "settrade",
                                                 ![h].pay = Newest(active)]
      BY <2>4 DEF Fallback
    <3>3. active # {} => Newest(active) \in Rows
      BY <1>0, <3>1, NewestIsLast
    <3> HIDE DEF active
    <3>4. QED
      BY <2>1, <2>2, <3>1, <3>2, <3>3, <1>6, <1>8
  <2>5. CASE SetTradeNo(h)
    BY <2>1, <2>2, <2>5, <1>7, <1>b DEF SetTradeNo
  <2>6. CASE MarkPaid(h)
    <3>1. /\ pool' = pool /\ acked' = acked
          /\ HangUp(h) \/ GoOn(h, "bill") \/ GoOn(h, "used")
      BY <2>6 DEF MarkPaid
    <3>2. call[h].pay \in Rows
      BY <2>1, <2>6 DEF MarkPaid
    <3>3. QED
      BY <2>1, <2>2, <3>1, <3>2, <1>6, <1>7, <1>b
  <2>7. CASE MarkUsed(h)
    <3>1. pool' \in [Address -> {"free", "allocated", "used"}] /\ acked' = acked
      BY <1>b, <2>7 DEF MarkUsed
    <3>2. GoOn(h, "bill") /\ call[h].pay \in Rows
      BY <2>1, <2>7 DEF MarkUsed
    <3>3. QED
      BY <2>1, <2>2, <3>1, <3>2, <1>7
  <2>8. QED
    BY <1>9, <2>3, <2>4, <2>5, <2>6, <2>7
<1>10. ASSUME NEW h \in Handler, Bill(h)
       PROVE  CallsOK'
  <2> DEFINE o == payment[call[h].pay].order
  <2>1. /\ pc[h] = "idle" /\ call[h].at = "bill" /\ call[h].pay \in Rows
        /\ call[h].at \in NotifyStages /\ pool' = pool
    BY <1>0, <1>10 DEF Bill, CallsOK, CallOK, NotifyStages
  <2>2. CASE PaidFind(h, o) /\ GoOn(h, "billing") /\ UNCHANGED acked
    <3>1. /\ call' \in [Handler -> CallType] /\ Others(h) /\ call'[h].at = "billing"
          /\ Keeps(h)
      BY <1>b, <2>2, GoOnMoves
    <3>2. pc' = [pc EXCEPT ![h] = "mark"]
      BY <2>2 DEF PaidFind
    <3>3. pc'[h] = "mark" /\ \A g \in Handler \ {h} : pc'[g] = pc[g]
      BY <1>0, <3>2 DEF TypeOK
    <3>4. call[h].note \in Rows /\ call[h].note \in charged'
      BY <1>0, <1>a, <2>1 DEF CallsOK, CallOK, TablesOK
    <3>5. CallOK(h)'
      BY <1>0, <1>a, <2>1, <3>1, <3>3, <3>4
         DEF CallsOK, CallOK, Keeps, RowsKeep, NotifyStages, PaidStages
    <3>6. acked' \subseteq charged' /\ pool' \in [Address -> {"free", "allocated", "used"}]
      BY <1>0, <1>a, <1>b, <2>1, <2>2 DEF CallsOK
    <3>7. QED
      BY <1>0, <1>a, <3>1, <3>3, <3>5, <3>6, OneCallMoves
  <2>3. CASE UNCHANGED vars /\ (Acknowledge(h) \/ (HangUp(h) /\ acked' = acked))
    BY <2>1, <2>3, <1>6 DEF vars, callVars, Acknowledge
  <2>4. \/ PaidFind(h, o) /\ GoOn(h, "billing") /\ UNCHANGED acked
        \/ UNCHANGED vars /\ (Acknowledge(h) \/ (HangUp(h) /\ acked' = acked))
    BY <1>10 DEF Bill, vars, callVars
  <2> HIDE DEF o
  <2>5. QED
    BY <2>2, <2>3, <2>4
<1>11. ASSUME NEW h \in Handler, Billing(h)
       PROVE  CallsOK'
  <2>1. /\ pc[h] \in PaidStages /\ call[h].at = "billing" /\ call[h].note \in charged
        /\ pool' = pool
    BY <1>0, <1>11 DEF Billing, CallsOK, CallOK, NotifyStages
  <2>2. /\ pc'[h] \in PaidStages \/ pc'[h] = "idle"
        /\ \A g \in Handler \ {h} : pc'[g] = pc[g]
    BY <1>0, <1>11, <2>1, BillingStages, OrderStepOfOne DEF Billing, ErrorDropped
  <2>3. CASE pc'[h] = "idle"
    <3>1. Acknowledge(h)
      BY <1>11, <2>3 DEF Billing
    <3>2. acked' \subseteq charged'
      BY <1>0, <1>a, <2>1, <3>1 DEF CallsOK, Acknowledge
    <3>3. CallOK(h)'
      BY <1>b, <2>3, <3>1, HangUpMoves, HungUp DEF PaidStages, Acknowledge
    <3>4. QED
      BY <1>0, <1>a, <1>b, <2>1, <2>2, <3>1, <3>2, <3>3, HangUpMoves, OneCallMoves
         DEF Acknowledge
  <2>4. CASE pc'[h] # "idle"
    <3>1. call' = call /\ acked' = acked /\ payment' = payment
      BY <1>11, <2>4 DEF Billing
    <3>2. CallOK(h)'
      BY <1>0, <1>a, <2>1, <2>2, <2>4, <3>1 DEF CallsOK, CallOK, NotifyStages
    <3>3. QED
      BY <1>0, <1>a, <1>b, <2>1, <2>2, <3>1, <3>2, OneCallMoves DEF CallsOK, Others
  <2>5. QED
    BY <2>3, <2>4
<1>12. ASSUME NEW h \in Handler, PayFault(h)
       PROVE  CallsOK'
  <2>1. pool' = pool /\ acked' = acked /\ HangUp(h) /\ call[h].at # "idle"
    BY <1>12 DEF PayFault
  <2>2. pc'[h] = "idle" /\ \A g \in Handler \ {h} : pc'[g] = pc[g]
    <3>1. CASE call[h].at = "billing"
      <4>1. Fault(h)
        BY <1>12, <3>1 DEF PayFault
      <4>2. QED
        BY <1>0, <4>1, OrderStepOfOne DEF Fault, Return, TypeOK
    <3>2. CASE call[h].at # "billing"
      BY <1>0, <1>12, <2>1, <3>2 DEF PayFault, CallsOK, CallOK, vars, callVars
    <3>3. QED
      BY <3>1, <3>2
  <2>3. CallOK(h)'
    BY <1>b, <2>1, <2>2, HangUpMoves, HungUp DEF PaidStages
  <2>4. QED
    BY <1>0, <1>a, <1>b, <2>1, <2>2, <2>3, HangUpMoves, OneCallMoves DEF CallsOK
<1>13. CASE UNCHANGED <<pc, pool, acked, call>>
  <2>1. \A h \in Handler : CallOK(h)'
    BY <1>0, <1>a, <1>13, OtherCall DEF CallsOK, TablesOK
  <2>2. QED
    BY <1>0, <1>a, <1>13, <2>1 DEF CallsOK
<1>14. CASE Background \/ ExpireOldPending \/ \E p \in Pay : Charge(p) \/ PayElapse(p)
  BY <1>13, <1>14 DEF Background, ExpirePending, Elapse, ExpireOldPending, Charge, PayElapse,
     payVars, vars, callVars
<1>15. CASE UNCHANGED allVars
  BY <1>13, <1>15 DEF allVars, payVars, vars, callVars
<1>16. ASSUME NEW h \in Handler, NEW o \in Order, MockPay(h, o)
       PROVE  CallsOK'
  <2>1. /\ call' = call /\ pool' = pool /\ acked' = acked /\ charged' = charged
        /\ call[h].at = "idle" /\ PaidFind(h, o)
    BY <1>16 DEF MockPay, Idle, Free
  <2>2. \A g \in Handler \ {h} : pc'[g] = pc[g]
    BY <1>0, <2>1, OrderStepOfOne
  <2>3. CallOK(h)'
    BY <2>1 DEF CallOK, NotifyStages
  <2>4. QED
    BY <1>0, <1>a, <1>b, <2>1, <2>2, <2>3, OneCallMoves DEF CallsOK, Others
<1>17. QED
  BY <1>1, <1>2, <1>3, <1>4, <1>5, <1>9, <1>10, <1>11, <1>12, <1>14, <1>15, <1>16
     DEF PayNext, PayStep

\* The types and links hold of every behaviour.
LEMMA PayInvariant == PaySpec => []PayInv
<1>1. PayInit => PayInv
  <2> SUFFICES ASSUME PayInit PROVE PayInv
    OBVIOUS
  <2>1. TypeOK
    BY OrdersAssumption DEF PayInit, Init, TypeOK, Statuses, Phases, Stages, CreateStages,
       PaidStages, WriteStages, OrdersAssumption
  <2>2. Rows = {} /\ charged = {} /\ acked = {}
    BY DEF PayInit, Rows, NoRow
  <2>3. TablesOK
    <3>1. payment \in [Pay -> PaymentType]
      BY DEF PayInit, NoRow, PaymentType
    <3>2. {} = 1..0 /\ 0 \in 0..MaxPayments
      BY PaymentsAssumption DEF PaymentsAssumption
    <3>3. QED
      BY <2>2, <3>1, <3>2 DEF TablesOK
  <2>4. CallsOK
    BY <2>2 DEF PayInit, Init, NoCall, CallType, CallsOK, CallOK, NotifyStages, PaidStages
  <2>5. WorldOK
    BY DEF PayInit, WorldOK
  <2>6. QED
    BY <2>1, <2>3, <2>4, <2>5, PayInvParts
<1>2. PayInv /\ [PayNext]_allVars => PayInv'
  <2> SUFFICES ASSUME PayInv, [PayNext]_allVars PROVE PayInv'
    OBVIOUS
  <2>1. TypeOK'
    BY StepIsOrderStep, TypeStep DEF PayInv
  <2>2. TablesOK' /\ CallsOK' /\ WorldOK'
    BY TablesStep, CallsStep, WorldStep
  <2>3. QED
    BY <2>1, <2>2 DEF PayInv, PayTypeOK, LinksOK, TablesOK, CallsOK, CallOK, WorldOK, Rows
<1>3. QED
  BY <1>1, <1>2, PTL DEF PaySpec

\* Every variable of the payment part keeps its type, and what a handler's stage
\* says of its stack holds.
THEOREM PayTypeCorrect == PaySpec => []PayTypeOK
<1>1. PayInv => PayTypeOK
  BY DEF PayInv
<1>2. QED
  BY <1>1, PayInvariant, PTL

\* Payments implement Orders: what is proved of Orders holds below the payments.
THEOREM PaymentsRefineOrders == PaySpec => RefinesOrders
<1>1. PayInit => Init
  BY DEF PayInit
<1>2. QED
  BY <1>1, StepIsOrderStep, PayInvariant, PTL DEF PaySpec, Spec, RefinesOrders

-----------------------------------------------------------------------------
(* Addresses.                                                              *)

\* An address in use left the pool, and a USDT attempt always has one.
AddrInv ==
    /\ AddressesUsedOnce
    /\ \A h \in Handler : call[h].addr # NoAddress => pool[call[h].addr] # "free"
    /\ \A p \in Rows : payment[p].chan = "usdt" => payment[p].addr # NoAddress
    /\ \A h \in Handler : call[h].at = "insert" /\ call[h].chan = "usdt"
                             => call[h].addr # NoAddress

\* Only an INSERT adds a row.
LEMMA RowsSame ==
  ASSUME PayInv, [PayNext]_allVars, \A h \in Handler : ~PayInsert(h)
  PROVE  Rows' = Rows
<1>0. TablesOK
  BY PayInvParts
<1>1. ASSUME NEW h \in Handler, SetTradeNo(h) \/ MarkPaid(h)
      PROVE  Rows' = Rows
  <2>1. call[h].pay \in Rows
    BY <1>1 DEF SetTradeNo, MarkPaid, PayInv, PayTypeOK
  <2>2. \A p \in Pay : payment'[p].status = "absent" <=> payment[p].status = "absent"
    BY <1>0, <1>1, <2>1 DEF SetTradeNo, MarkPaid, TablesOK, PaymentType, Rows
  <2>3. QED
    BY <2>2 DEF Rows
<1>2. CASE ExpireOldPending \/ \E p \in Pay : PayElapse(p)
  <2>1. \A p \in Pay : payment'[p].status = "absent" <=> payment[p].status = "absent"
    BY <1>0, <1>2 DEF ExpireOldPending, OldPending, PayElapse, TablesOK, PaymentType, Rows
  <2>2. QED
    BY <2>1 DEF Rows
<1>3. CASE UNCHANGED payment
  BY <1>3 DEF Rows
<1>4. QED
  BY <1>1, <1>2, <1>3 DEF PayNext, PayStep, OrderCall, MockPay, PayFind, Charge,
     HandleNotify, USDTReceived, Receive, PayFault, Background, ProviderCreate, Lookup,
     Fallback, MarkUsed, Bill, Billing, allVars, payVars, worldVars

\* A step that adds no row and no claim keeps the addresses apart.
LEMMA AddrQuiet ==
  ASSUME PayInv, AddrInv, RowsKeep, Rows' = Rows,
         \A h \in Handler : call'[h].addr = call[h].addr \/ call'[h].addr = NoAddress,
         \A h \in Handler : call'[h].at = "insert" =>
             \/ call'[h] = call[h]
             \/ call'[h].chan # "usdt",
         \A a \in Address : pool[a] # "free" => pool'[a] # "free"
  PROVE  AddrInv'
<1>1. \A p \in Rows : payment[p].addr \in Address \cup {NoAddress}
  BY DEF PayInv, PayTypeOK, PaymentType, Rows
<1>2. \A h \in Handler : call[h].addr \in Address \cup {NoAddress}
  BY DEF PayInv, PayTypeOK, CallType
<1>3. AddressesUsedOnce'
  BY <1>1 DEF AddrInv, AddressesUsedOnce, RowsKeep
<1>4. QED
  BY <1>1, <1>2, <1>3 DEF AddrInv, RowsKeep

\* Every step keeps the addresses apart.
LEMMA AddrStep ==
  ASSUME PayInv, AddrInv, [PayNext]_allVars
  PROVE  AddrInv'
<1>0. TablesOK /\ CallsOK /\ RowsKeep
  BY PayInvParts, TablesStep
<1>a. call \in [Handler -> CallType] /\ pool \in [Address -> {"free", "allocated", "used"}]
  BY <1>0 DEF CallsOK
<1>1. ASSUME NEW h \in Handler, PayInsert(h)
      PROVE  AddrInv'
  <2> DEFINE p == Cardinality(Rows) + 1
             t == IF call[h].chan = "mock" THEN <<"mock", p>> ELSE NoTrade
             r == [status |-> "pending", order |-> call[h].order, chan |-> call[h].chan,
                   trade |-> t, addr |-> call[h].addr, live |-> TRUE]
  <2>1. pool' = pool /\ Others(h) /\ call'[h] = NoCall
    BY <1>1, <1>a, HangUpMoves DEF PayInsert
  <2>2. call'[h].addr = NoAddress /\ call'[h].at = "idle"
    BY <2>1 DEF NoCall
  <2>3. CASE payment' = payment
    <3>1. Rows' = Rows
      BY <2>3 DEF Rows
    <3>2. QED
      BY <1>0, <2>1, <2>2, <3>1, AddrQuiet DEF Others
  <2>4. CASE payment' = [payment EXCEPT ![p] = r] /\ p \in Pay
    <3>1. p \notin Rows
      BY <1>0, NextRow
    <3>2. r.addr = call[h].addr /\ r.chan = call[h].chan /\ r.status = "pending"
      OBVIOUS
    <3>3. call[h].at = "insert"
      BY <1>1 DEF PayInsert
    <3> HIDE DEF p, r
    <3>4. \A q \in Pay : payment'[q] = IF q = p THEN r ELSE payment[q]
      BY <1>0, <2>4 DEF TablesOK
    <3>5. Rows' = Rows \cup {p}
      BY <2>4, <3>2, <3>4 DEF Rows
    <3>6. AddressesUsedOnce'
      BY <2>1, <2>2, <2>4, <3>1, <3>2, <3>4, <3>5 DEF AddrInv, AddressesUsedOnce, Others, Rows
    <3>7. QED
      BY <2>1, <2>2, <2>4, <3>2, <3>3, <3>4, <3>5, <3>6 DEF AddrInv, Others, Rows
  <2>5. payment' = payment \/ payment' = [payment EXCEPT ![p] = r]
    BY <1>1 DEF PayInsert
  <2>6. CASE payment' = [payment EXCEPT ![p] = r] /\ p \notin Pay
    <3> HIDE DEF p, r
    <3>1. payment' = payment
      BY <1>0, <2>6 DEF TablesOK
    <3>2. QED
      BY <2>3, <3>1
  <2>7. QED
    BY <2>3, <2>4, <2>5, <2>6
<1>2. ASSUME NEW h \in Handler, ProviderCreate(h)
      PROVE  AddrInv'
  <2>1. payment' = payment /\ Rows' = Rows
    BY <1>2 DEF ProviderCreate, Rows
  <2>2. ASSUME NEW a \in Address, pool[a] = "free", pool' = [pool EXCEPT ![a] = "allocated"],
               call' = [call EXCEPT ![h].at = "insert", ![h].addr = a]
        PROVE  AddrInv'
    <3>1. Others(h) /\ call'[h].addr = a /\ a # NoAddress
      BY <1>a, <2>2, ClaimMoves, PaymentsAssumption DEF PaymentsAssumption
    <3>2. \A b \in Address : pool'[b] = IF b = a THEN "allocated" ELSE pool[b]
      BY <1>a, <2>2
    <3>3. /\ \A p \in Rows : payment[p].addr # a
          /\ \A g \in Handler : call[g].addr # a
      BY <2>2, <3>1 DEF AddrInv, AddressesUsedOnce
    <3>4. \A p \in Rows : payment[p].addr \in Address \cup {NoAddress}
      BY DEF PayInv, PayTypeOK, PaymentType, Rows
    <3>5. \A g \in Handler : call[g].addr \in Address \cup {NoAddress}
      BY <1>a DEF CallType
    <3>6. AddressesUsedOnce'
      BY <2>1, <3>1, <3>2, <3>3, <3>4 DEF AddrInv, AddressesUsedOnce, Others
    <3>7. QED
      BY <2>1, <3>1, <3>2, <3>4, <3>5, <3>6 DEF AddrInv, Others
  <2>3. CASE GoOn(h, "insert") /\ UNCHANGED pool /\ call[h].chan # "usdt"
    <3>1. Others(h) /\ call'[h].addr = call[h].addr /\ call'[h].chan # "usdt"
      BY <1>a, <2>3, GoOnMoves DEF Keeps
    <3>2. QED
      BY <1>0, <2>1, <2>3, <3>1, AddrQuiet DEF Others
  <2>4. CASE HangUp(h) /\ UNCHANGED pool
    <3>1. Others(h) /\ call'[h].addr = NoAddress /\ call'[h].at = "idle"
      BY <1>a, <2>4, HangUpMoves DEF NoCall
    <3>2. QED
      BY <1>0, <2>1, <2>4, <3>1, AddrQuiet DEF Others
  <2>5. QED
    BY <1>2, <2>2, <2>3, <2>4 DEF ProviderCreate
<1>3. ASSUME \A h \in Handler : ~PayInsert(h) /\ ~ProviderCreate(h)
      PROVE  AddrInv'
  <2>1. Rows' = Rows
    BY <1>3, RowsSame
  <2>2. \A a \in Address : pool[a] # "free" => pool'[a] # "free"
    <3>1. CASE \E h \in Handler : MarkUsed(h)
      BY <1>a, <3>1 DEF MarkUsed
    <3>2. CASE pool' = pool
      BY <3>2
    <3>3. QED
      BY <1>3, <3>1, <3>2 DEF PayNext, PayStep, OrderCall, MockPay, PayFind, Charge, SetTradeNo,
         MarkPaid, HandleNotify, USDTReceived, Receive, PayFault, Background, Lookup,
         Fallback, Bill, Billing, allVars, payVars, worldVars, PayElapse, ExpireOldPending
  <2> DEFINE Quiet(g) == /\ call'[g].addr = call[g].addr \/ call'[g].addr = NoAddress
                         /\ call'[g].at = "insert" => call'[g] = call[g]
  <2>3. ASSUME NEW g \in Handler
        PROVE  Quiet(g)
    <3>1. CASE call'[g] = call[g]
      BY <3>1
    <3>2. ASSUME NEW r, call' = [call EXCEPT ![g] = r], r.addr = NoAddress, r.at # "insert"
          PROVE  Quiet(g)
      BY <1>a, <3>2
    <3>3. ASSUME NEW o \in Order, NEW c \in Channel, PayFind(g, o, c)
          PROVE  Quiet(g)
      BY <1>a, <3>3 DEF PayFind, NoCall
    <3>4. ASSUME NEW c \in Pay, NEW o, Receive(g, c, o)
          PROVE  Quiet(g)
      BY <1>a, <3>4 DEF Receive, NoCall
    <3>5. CASE HangUp(g)
      BY <1>a, <3>5, HangUpMoves DEF NoCall
    <3>6. ASSUME NEW s \in {"fallback", "mark", "used", "bill", "billing"}, GoOn(g, s)
          PROVE  Quiet(g)
      BY <1>a, <3>6, GoOnMoves
    <3>7. ASSUME NEW s \in {"mark", "settrade"}, NEW p \in Pay,
                 call' = [call EXCEPT ![g].at = s, ![g].pay = p]
          PROVE  Quiet(g)
      BY <1>a, <3>7, WorkMoves
    <3> HIDE DEF Quiet
    <3>8. CASE Fallback(g)
      <4>1. Active(call[g].order, call[g].chan) # {} =>
              Newest(Active(call[g].order, call[g].chan)) \in Pay
        BY <1>0, NewestIsLast DEF Active, Rows
      <4>2. QED
        BY <3>5, <3>7, <3>8, <4>1 DEF Fallback
    <3>9. CASE Lookup(g)
      <4>1. WithTrade(TradeOf(call[g].note), call[g].chan) \subseteq Pay
        BY DEF WithTrade, Rows
      <4>2. QED
        BY <3>5, <3>6, <3>7, <3>9, <4>1 DEF Lookup, Acknowledge
    <3>10. CASE SetTradeNo(g) \/ MarkPaid(g) \/ MarkUsed(g) \/ Bill(g) \/ Billing(g) \/ PayFault(g)
      BY <3>1, <3>5, <3>6, <3>10 DEF SetTradeNo, MarkPaid, MarkUsed, Bill, Billing, PayFault,
         Acknowledge
    <3>11. CASE \E c \in Pay : HandleNotify(g, c) \/ USDTReceived(g, c)
      BY <3>4, <3>11 DEF HandleNotify, USDTReceived
    <3>12. CASE \E h \in Handler : OrderCall(h)
      BY <3>1, <3>12 DEF OrderCall, payVars
    <3>13. ASSUME NEW h \in Handler \ {g},
                  PayStep(h) \/ PayFault(h) \/ (\E c \in Pay : HandleNotify(h, c) \/ USDTReceived(h, c))
                    \/ (\E o \in Order, c \in Channel : PayFind(h, o, c))
           PROVE  Quiet(g)
      <4>1. call'[g] = call[g]
        BY <1>a, <3>13 DEF PayStep, PayFault, HandleNotify, USDTReceived, PayFind, Receive,
           ProviderCreate, PayInsert, Lookup, Fallback, SetTradeNo, MarkPaid, MarkUsed, Bill,
           Billing, GoOn, HangUp, Acknowledge
      <4>2. QED
        BY <3>1, <4>1
    <3>14. CASE UNCHANGED call
      BY <3>1, <3>14
    <3>15. QED
      BY <1>3, <3>3, <3>8, <3>9, <3>10, <3>11, <3>12, <3>13, <3>14
         DEF PayNext, PayStep, MockPay, Charge, PayElapse, ExpireOldPending, Background, allVars, payVars, worldVars
  <2>4. QED
    BY <1>0, <2>1, <2>2, <2>3, AddrQuiet
<1>4. QED
  BY <1>1, <1>2, <1>3

\* The addresses stay apart in every behaviour.
LEMMA AddrInvariant == PaySpec => []AddrInv
<1>1. PayInit => AddrInv
  BY DEF PayInit, AddrInv, AddressesUsedOnce, NoCall, NoRow, Rows
<1>2. QED
  BY <1>1, AddrStep, PayInvariant, PTL DEF PaySpec

\* No USDT address is ever shared by two attempts, or by an attempt and a claim
\* under way, or free again after one had it, whatever INSERTs are refused,
\* whatever processes die and whatever the sweep expires.
THEOREM AddressesOnce == PaySpec => []AddressesUsedOnce
<1>1. AddrInv => AddressesUsedOnce
  BY DEF AddrInv
<1>2. QED
  BY <1>1, AddrInvariant, PTL
-----------------------------------------------------------------------------
(* Trades.                                                                 *)

Matches(p, c) ==
    /\ payment[p].trade = TradeOf(c)
    /\ payment[p].order = payment[c].order
    /\ payment[p].chan = payment[c].chan

\* A row's trade number belongs to an attempt of the same order and channel, a
\* paid row's to one whose customer paid, and the mock provider's to the row.
TradesInv ==
    \A p \in Rows :
        /\ payment[p].trade # NoTrade => \E c \in Rows : Matches(p, c)
        /\ payment[p].status = "paid" => \E c \in charged : Matches(p, c)
        /\ payment[p].chan = "mock" => payment[p].trade = TradeOf(p)

\* A handler works for the order of the charge it was told about.
NoteOK(h) ==
    /\ call[h].at \in NotifyStages => call[h].order = payment[call[h].note].order
    /\ call[h].at \in {"settrade", "mark", "used", "bill"} =>
          /\ payment[call[h].pay].order = call[h].order
          /\ payment[call[h].pay].chan = call[h].chan
    /\ call[h].at = "billing" => cur[h] = call[h].order

NotesInv == \A h \in Handler : NoteOK(h)

\* Trade numbers never change.
LEMMA TradeKept ==
  ASSUME RowsKeep, NEW p \in Rows
  PROVE  TradeOf(p)' = TradeOf(p)
BY DEF RowsKeep, TradeOf

\* Attempts with one trade number are for one order through one channel.
LEMMA TradeNames ==
  ASSUME NEW c \in Rows, NEW d \in Rows, TradeOf(c) = TradeOf(d)
  PROVE  payment[c].chan = payment[d].chan /\ payment[c].order = payment[d].order
<1>1. payment[c].chan = payment[d].chan
  BY DEF TradeOf
<1>2. CASE payment[c].chan \in QRChannels
  BY <1>1, <1>2 DEF TradeOf
<1>3. CASE payment[c].chan \notin QRChannels
  BY <1>1, <1>3 DEF TradeOf
<1>4. QED
  BY <1>2, <1>3

\* What may happen to a row's trade number and status in a step.
Stays(p) ==
    /\ p \in Rows
    /\ payment'[p].trade = payment[p].trade
    /\ payment'[p].status = "paid" => payment[p].status = "paid"
Settled(p) ==
    /\ p \in Rows
    /\ \E c \in charged : /\ payment'[p].trade = TradeOf(c)
                          /\ payment[p].order = payment[c].order
                          /\ payment[p].chan = payment[c].chan
    /\ payment[p].chan = "mock" => payment'[p].trade = TradeOf(p)
Added(p) ==
    /\ payment'[p].status = "pending"
    /\ \/ payment'[p].trade = NoTrade /\ payment'[p].chan # "mock"
       \/ payment'[p].trade = TradeOf(p)'

\* Rows that stay, are settled or are added keep the trades in order.
LEMMA TradesMove ==
  ASSUME PayInv, TradesInv, RowsKeep, charged \subseteq charged',
         \A p \in Rows' : Stays(p) \/ Settled(p) \/ Added(p)
  PROVE  TradesInv'
<1>0. charged \subseteq Rows
  BY DEF PayInv, LinksOK
<1> SUFFICES ASSUME NEW p \in Rows'
             PROVE  /\ (payment[p].trade # NoTrade)' => \E c \in Rows' : Matches(p, c)'
                    /\ (payment[p].status = "paid")' => \E c \in charged' : Matches(p, c)'
                    /\ (payment[p].chan = "mock")' => (payment[p].trade = TradeOf(p))'
  BY DEF TradesInv
<1>1. CASE Stays(p)
  <2>1. ASSUME NEW c \in Rows, Matches(p, c)
        PROVE  c \in Rows' /\ Matches(p, c)'
    BY <1>1, <2>1, TradeKept DEF Stays, Matches, RowsKeep
  <2>2. payment'[p].chan = payment[p].chan /\ TradeOf(p)' = TradeOf(p)
    BY <1>1, TradeKept DEF Stays, RowsKeep
  <2>3. QED
    BY <1>0, <1>1, <2>1, <2>2 DEF Stays, TradesInv
<1>2. CASE Settled(p)
  <2>1. PICK c \in charged : /\ payment'[p].trade = TradeOf(c)
                             /\ payment[p].order = payment[c].order
                             /\ payment[p].chan = payment[c].chan
    BY <1>2 DEF Settled
  <2>2. c \in Rows' /\ c \in charged' /\ Matches(p, c)'
    BY <1>0, <1>2, <2>1, TradeKept DEF Settled, Matches, RowsKeep
  <2>3. payment'[p].chan = payment[p].chan /\ TradeOf(p)' = TradeOf(p)
    BY <1>2, TradeKept DEF Settled, RowsKeep
  <2>4. QED
    BY <1>2, <2>2, <2>3 DEF Settled
<1>3. CASE Added(p)
  BY <1>3 DEF Added, Matches
<1>4. QED
  BY <1>1, <1>2, <1>3

\* The only step that adds a row leaves the others alone.
LEMMA InsertAdds ==
  ASSUME PayInv, NEW h \in Handler, PayInsert(h), NEW q \in Rows'
  PROVE  Stays(q) \/ Added(q)
<1> DEFINE p == Cardinality(Rows) + 1
           t == IF call[h].chan = "mock" THEN <<"mock", p>> ELSE NoTrade
           r == [status |-> "pending", order |-> call[h].order, chan |-> call[h].chan,
                 trade |-> t, addr |-> call[h].addr, live |-> TRUE]
<1>0. TablesOK /\ q \in Pay
  BY PayInvParts DEF Rows
<1>1. payment' = payment \/ payment' = [payment EXCEPT ![p] = r]
  BY DEF PayInsert
<1>2. CASE payment'[q] = payment[q]
  BY <1>2 DEF Stays, Rows
<1>3. CASE payment'[q] = r /\ q = p
  BY <1>3 DEF Added, TradeOf, QRChannels
<1> HIDE DEF p, r
<1>4. payment'[q] = payment[q] \/ (payment'[q] = r /\ q = p)
  BY <1>0, <1>1 DEF TablesOK
<1>5. QED
  BY <1>2, <1>3, <1>4

\* UpdateTradeNo and MarkPaid settle the row they work on, and no other.
LEMMA WorkSettles ==
  ASSUME PayInv, TradesInv, NotesInv, NEW h \in Handler,
         SetTradeNo(h) \/ MarkPaid(h), NEW q \in Rows'
  PROVE  Stays(q) \/ Settled(q)
<1> DEFINE p == call[h].pay  t == TradeOf(call[h].note)
<1>0. TablesOK /\ CallsOK /\ q \in Pay
  BY PayInvParts DEF Rows
<1>1. /\ p \in Rows /\ p \in Pay /\ call[h].note \in charged /\ call[h].note \in Rows
      /\ call[h].chan = payment[call[h].note].chan
      /\ payment[p].order = payment[call[h].note].order
      /\ payment[p].chan = payment[call[h].note].chan
  BY <1>0 DEF SetTradeNo, MarkPaid, CallsOK, CallOK, TablesOK, NotesInv, NoteOK,
     NotifyStages, Rows
<1>2. \/ payment' = payment
      \/ /\ payment' \in {[payment EXCEPT ![p].trade = t],
                          [payment EXCEPT ![p].status = "paid", ![p].trade = t]}
         /\ WithTrade(t, call[h].chan) \subseteq {p}
  BY DEF SetTradeNo, MarkPaid
<1> HIDE DEF p, t
<1>3. CASE payment'[q] = payment[q]
  BY <1>3 DEF Stays, Rows
<1>4. CASE /\ q = p /\ payment'[q].trade = t
           /\ WithTrade(t, call[h].chan) \subseteq {p}
  <2>1. payment[p].chan = "mock" => t = TradeOf(p)
    <3> SUFFICES ASSUME payment[p].chan = "mock" PROVE t = TradeOf(p)
      OBVIOUS
    <3>1. call[h].note \in WithTrade(t, call[h].chan)
      BY <1>1 DEF WithTrade, TradesInv, t
    <3>2. call[h].note = p
      BY <1>4, <3>1
    <3>3. QED
      BY <3>2 DEF t
  <2>2. QED
    BY <1>1, <1>4, <2>1 DEF Settled, t
<1>5. payment'[q] = payment[q] \/ (q = p /\ payment'[q].trade = t)
  BY <1>0, <1>1, <1>2 DEF TablesOK, PaymentType
<1>6. QED
  BY <1>2, <1>3, <1>4, <1>5

\* Every step keeps the trades in order.
LEMMA TradesStep ==
  ASSUME PayInv, TradesInv, NotesInv, [PayNext]_allVars
  PROVE  TradesInv'
<1>0. TablesOK /\ RowsKeep /\ charged \subseteq charged'
  BY PayInvParts, TablesStep
<1>1. ASSUME NEW q \in Rows'
      PROVE  Stays(q) \/ Settled(q) \/ Added(q)
  <2>1. CASE \E h \in Handler : PayInsert(h)
    BY <2>1, InsertAdds
  <2>2. CASE \E h \in Handler : SetTradeNo(h) \/ MarkPaid(h)
    BY <2>2, WorkSettles
  <2>3. CASE ExpireOldPending \/ \E p \in Pay : PayElapse(p)
    BY <1>0, <2>3 DEF ExpireOldPending, OldPending, PayElapse, TablesOK, PaymentType, Rows, Stays
  <2>4. CASE UNCHANGED payment
    BY <2>4 DEF Stays, Rows
  <2>5. QED
    BY <2>1, <2>2, <2>3, <2>4 DEF PayNext, PayStep, OrderCall, MockPay, PayFind, Charge,
       HandleNotify, USDTReceived, Receive, PayFault, Background, ProviderCreate, Lookup,
       Fallback, MarkUsed, Bill, Billing, allVars, payVars, worldVars
<1>2. QED
  BY <1>0, <1>1, TradesMove
-----------------------------------------------------------------------------
(* Notifications.                                                          *)

\* A handler that takes no step goes on working for the same order.
LEMMA OtherNote ==
  ASSUME PayInv, RowsKeep, NEW g \in Handler, NoteOK(g), call'[g] = call[g],
         call[g].at = "billing" => cur'[g] = cur[g]
  PROVE  NoteOK(g)'
<1>1. /\ call[g].at \in NotifyStages => call[g].note \in Rows
      /\ call[g].at \in {"settrade", "mark", "used", "bill"} => call[g].pay \in Rows
  BY DEF PayInv, PayTypeOK, LinksOK
<1>2. QED
  BY <1>1 DEF NoteOK, RowsKeep

\* A handler that goes on works for the same order and the same payment.
LEMMA NoteGoesOn ==
  ASSUME PayInv, RowsKeep, NEW h \in Handler, NoteOK(h),
         call[h].at \in {"settrade", "mark", "used", "bill"},
         NEW s \in {"mark", "used", "bill"}, GoOn(h, s)
  PROVE  NoteOK(h)'
<1>1. call'[h].at = s /\ Keeps(h) /\ call'[h].pay = call[h].pay
  BY GoOnMoves DEF PayInv, PayTypeOK
<1>2. call[h].note \in Rows /\ call[h].pay \in Rows
  BY DEF PayInv, PayTypeOK, LinksOK, NotifyStages
<1>3. QED
  BY <1>1, <1>2 DEF NoteOK, RowsKeep, Keeps, NotifyStages

\* Every step leaves the handlers working for the orders they were told about.
LEMMA NotesStep ==
  ASSUME PayInv, AddrInv, TradesInv, NotesInv, [PayNext]_allVars
  PROVE  NotesInv'
<1>0. TypeOK /\ TablesOK /\ CallsOK /\ RowsKeep
  BY PayInvParts, TablesStep
<1>a. call \in [Handler -> CallType]
  BY <1>0 DEF CallsOK
<1>1. ASSUME NEW h \in Handler, Others(h), NoteOK(h)',
             \A g \in Handler \ {h} : cur'[g] = cur[g]
      PROVE  NotesInv'
  BY <1>0, <1>1, OtherNote DEF NotesInv, Others
<1>2. ASSUME NEW h \in Handler, call'[h] = NoCall
      PROVE  NoteOK(h)'
  BY <1>2 DEF NoteOK, NoCall, NotifyStages
<1>3. ASSUME NEW h \in Handler, OrderCall(h)
      PROVE  NotesInv'
  <2>1. call' = call /\ call[h].at = "idle"
    BY <1>3 DEF OrderCall, payVars
  <2>2. \A g \in Handler \ {h} : cur'[g] = cur[g]
    BY <1>0, <1>3, OrderStepOfOne DEF OrderCall, ErrorDropped
  <2>3. NoteOK(h)'
    BY <2>1 DEF NoteOK, NotifyStages
  <2>4. QED
    BY <1>1, <2>1, <2>2, <2>3 DEF Others
<1>4. ASSUME NEW h \in Handler, NEW o \in Order, NEW c \in Channel, PayFind(h, o, c)
      PROVE  NotesInv'
  <2>1. cur' = cur /\ Others(h) /\ call'[h].at = "create"
    BY <1>a, <1>4 DEF PayFind, vars, callVars, Others, NoCall
  <2>2. QED
    BY <1>1, <2>1 DEF NoteOK, NotifyStages
<1>5. ASSUME NEW h \in Handler, NEW c \in Pay, HandleNotify(h, c) \/ USDTReceived(h, c)
      PROVE  NotesInv'
  <2>1. Receive(h, c, payment[c].order)
    <3>1. CASE HandleNotify(h, c)
      BY <3>1 DEF HandleNotify
    <3>2. CASE USDTReceived(h, c)
      <4> DEFINE S == Awaiting(payment[c].addr)
      <4>1. /\ S # {} /\ S \subseteq Rows /\ c \in Rows /\ payment[c].chan = "usdt"
            /\ Receive(h, c, payment[Newest(S)].order)
        BY <1>0, <3>2 DEF USDTReceived, Awaiting, TablesOK
      <4>2. Newest(S) \in S
        BY <1>0, <4>1, NewestIsLast
      <4>3. Newest(S) \in Rows /\ payment[Newest(S)].addr = payment[c].addr
        BY <4>2 DEF Awaiting
      <4> HIDE DEF S
      <4>4. payment[c].addr # NoAddress
        BY <4>1 DEF AddrInv
      <4>5. Newest(S) = c
        BY <4>1, <4>3, <4>4 DEF AddrInv, AddressesUsedOnce
      <4>6. QED
        BY <4>1, <4>5
    <3>3. QED
      BY <1>5, <3>1, <3>2
  <2>2. /\ cur' = cur /\ Others(h) /\ payment' = payment
        /\ call'[h].at = "lookup" /\ call'[h].note = c
        /\ call'[h].order = payment[c].order
    BY <1>a, <2>1 DEF Receive, vars, callVars, Others, NoCall
  <2>3. NoteOK(h)'
    BY <2>2 DEF NoteOK
  <2>4. QED
    BY <1>1, <2>2, <2>3
<1>6. ASSUME NEW h \in Handler, ProviderCreate(h) \/ PayInsert(h)
      PROVE  NotesInv'
  <2>1. cur' = cur
    BY <1>6 DEF ProviderCreate, PayInsert, vars, callVars
  <2>2. Others(h) /\ call'[h].at \in {"insert", "idle"}
    <3>1. \/ GoOn(h, "insert") \/ HangUp(h)
          \/ \E a \in Address : call' = [call EXCEPT ![h].at = "insert", ![h].addr = a]
      BY <1>6 DEF ProviderCreate, PayInsert
    <3>2. QED
      BY <1>a, <3>1, GoOnMoves, HangUpMoves, ClaimMoves DEF NoCall
  <2>3. NoteOK(h)'
    BY <2>2 DEF NoteOK, NotifyStages
  <2>4. QED
    BY <1>1, <2>1, <2>2, <2>3
<1>7. ASSUME NEW h \in Handler, HangUp(h), \A g \in Handler \ {h} : cur'[g] = cur[g]
      PROVE  NotesInv'
  BY <1>a, <1>1, <1>2, <1>7, HangUpMoves
<1>8. ASSUME NEW h \in Handler, cur' = cur, NEW s \in {"mark", "used", "bill"}, GoOn(h, s),
             call[h].at \in {"settrade", "mark", "used", "bill"}
      PROVE  NotesInv'
  BY <1>0, <1>a, <1>1, <1>8, NoteGoesOn, GoOnMoves DEF NotesInv
<1>9. ASSUME NEW h \in Handler, cur' = cur, call[h].at \in {"lookup", "fallback"},
             NEW s \in {"mark", "settrade"}, NEW p \in Rows,
             payment[p].order = call[h].order, payment[p].chan = call[h].chan,
             call' = [call EXCEPT ![h].at = s, ![h].pay = p]
      PROVE  NotesInv'
  <2>1. p \in Pay /\ call[h].note \in Rows
    BY <1>0, <1>9 DEF Rows, CallsOK, CallOK, TablesOK, NotifyStages
  <2>2. Others(h) /\ call'[h].at = s /\ Keeps(h) /\ call'[h].pay = p
    BY <1>a, <1>9, <2>1, WorkMoves
  <2>3. NoteOK(h)'
    BY <1>0, <1>9, <2>1, <2>2 DEF NotesInv, NoteOK, RowsKeep, Keeps, NotifyStages
  <2>4. QED
    BY <1>1, <1>9, <2>2, <2>3
<1>10. ASSUME NEW h \in Handler, Lookup(h)
       PROVE  NotesInv'
  <2>1. cur' = cur /\ call[h].at = "lookup" /\ call[h].note \in Rows
        /\ call[h].chan = payment[call[h].note].chan
        /\ call[h].order = payment[call[h].note].order
    BY <1>0, <1>10 DEF Lookup, vars, callVars, CallsOK, CallOK, TablesOK, NotifyStages,
       NotesInv, NoteOK
  <2>2. CASE HangUp(h)
    BY <1>7, <2>1, <2>2
  <2>3. CASE GoOn(h, "fallback")
    <3>1. Others(h) /\ call'[h].at = "fallback" /\ Keeps(h)
      BY <1>a, <2>3, GoOnMoves
    <3>2. NoteOK(h)'
      BY <1>0, <2>1, <3>1 DEF NoteOK, Keeps, RowsKeep, NotifyStages
    <3>3. QED
      BY <1>1, <2>1, <3>1, <3>2
  <2>4. ASSUME NEW p \in WithTrade(TradeOf(call[h].note), call[h].chan),
               call' = [call EXCEPT ![h].at = "mark", ![h].pay = p]
        PROVE  NotesInv'
    <3>1. /\ p \in Rows /\ payment[p].chan = call[h].chan
          /\ payment[p].trade = TradeOf(call[h].note)
      BY DEF WithTrade
    <3>2. payment[p].trade # NoTrade
      BY <1>0, <2>1, <3>1, TradeTyped, PaymentsAssumption DEF PaymentsAssumption, Trade
    <3>3. PICK c \in Rows : Matches(p, c)
      BY <3>1, <3>2 DEF TradesInv
    <3>4. payment[p].order = call[h].order
      BY <2>1, <3>1, <3>3, TradeNames DEF Matches
    <3>5. QED
      BY <1>9, <2>1, <2>4, <3>1, <3>4
  <2>5. QED
    BY <1>10, <2>2, <2>3, <2>4 DEF Lookup, Acknowledge
<1>11. ASSUME NEW h \in Handler, Fallback(h)
       PROVE  NotesInv'
  <2> DEFINE active == Active(call[h].order, call[h].chan)
  <2>1. cur' = cur /\ call[h].at = "fallback" /\ active \subseteq Rows
    BY <1>11 DEF Fallback, vars, callVars, Active
  <2>2. \/ HangUp(h)
        \/ active # {} /\ call' = [call EXCEPT ![h].at = "settrade", ![h].pay = Newest(active)]
    BY <1>11 DEF Fallback
  <2>3. active # {} => Newest(active) \in active
    BY <1>0, <2>1, NewestIsLast
  <2>4. active # {} => /\ Newest(active) \in Rows
                       /\ payment[Newest(active)].order = call[h].order
                       /\ payment[Newest(active)].chan = call[h].chan
    BY <2>3 DEF Active
  <2> HIDE DEF active
  <2>5. QED
    BY <1>7, <1>9, <2>1, <2>2, <2>4
<1>12. ASSUME NEW h \in Handler, SetTradeNo(h) \/ MarkPaid(h) \/ MarkUsed(h)
       PROVE  NotesInv'
  <2>1. cur' = cur /\ call[h].at \in {"settrade", "mark", "used", "bill"}
        /\ (HangUp(h) \/ GoOn(h, "mark") \/ GoOn(h, "used") \/ GoOn(h, "bill"))
    BY <1>12 DEF SetTradeNo, MarkPaid, MarkUsed, vars, callVars
  <2>2. QED
    BY <1>7, <1>8, <2>1
<1>13. ASSUME NEW h \in Handler, Bill(h)
       PROVE  NotesInv'
  <2> DEFINE o == payment[call[h].pay].order
  <2>1. /\ o = call[h].order /\ call[h].note \in Rows /\ payment' = payment
        /\ call[h].order = payment[call[h].note].order
    BY <1>0, <1>13 DEF Bill, NotesInv, NoteOK, NotifyStages, CallsOK, CallOK, TablesOK
  <2>2. CASE PaidFind(h, o) /\ GoOn(h, "billing")
    <3>1. Others(h) /\ call'[h].at = "billing" /\ Keeps(h)
      BY <1>a, <2>2, GoOnMoves
    <3>2. cur'[h] = o /\ \A g \in Handler \ {h} : cur'[g] = cur[g]
      BY <1>0, <2>2 DEF PaidFind, TypeOK
    <3>3. NoteOK(h)'
      BY <2>1, <3>1, <3>2 DEF NoteOK, Keeps
    <3>4. QED
      BY <1>1, <3>1, <3>2, <3>3
  <2>3. CASE HangUp(h) /\ UNCHANGED vars
    BY <1>7, <2>3 DEF vars, callVars
  <2>4. \/ PaidFind(h, o) /\ GoOn(h, "billing")
        \/ HangUp(h) /\ UNCHANGED vars
    BY <1>13 DEF Bill, Acknowledge, vars, callVars
  <2> HIDE DEF o
  <2>5. QED
    BY <2>2, <2>3, <2>4
<1>14. ASSUME NEW h \in Handler, Billing(h)
       PROVE  NotesInv'
  <2>1. pc[h] \in PaidStages /\ call[h].at = "billing" /\ call[h].note \in Rows
        /\ payment' = payment
    BY <1>0, <1>14 DEF Billing, CallsOK, CallOK, TablesOK, NotifyStages
  <2>2. \A g \in Handler \ {h} : cur'[g] = cur[g]
    BY <1>0, <1>14, OrderStepOfOne DEF Billing, ErrorDropped
  <2>3. CASE pc'[h] = "idle"
    BY <1>7, <1>14, <2>2, <2>3 DEF Billing, Acknowledge
  <2>4. CASE pc'[h] # "idle"
    <3>1. cur'[h] = cur[h]
      BY <1>0, <1>14, <2>1, <2>4 DEF Billing, Step, QuoteCoupon, QuoteCount, CreateInsert,
         CreateConflict, PaidMark, PaidCoupon, PaidCouponFails, PaidApply, CancelWrite,
         Return, Goto, TypeOK, PaidStages
    <3>2. call' = call
      BY <1>14, <2>4 DEF Billing
    <3>3. NoteOK(h)'
      BY <1>0, <3>1, <3>2, OtherNote DEF NotesInv
    <3>4. QED
      BY <1>1, <2>2, <3>2, <3>3 DEF Others
  <2>5. QED
    BY <2>3, <2>4
<1>15. ASSUME NEW h \in Handler, PayFault(h)
       PROVE  NotesInv'
  <2>1. HangUp(h) /\ (Fault(h) \/ UNCHANGED vars)
    BY <1>15 DEF PayFault
  <2>2. \A g \in Handler \ {h} : cur'[g] = cur[g]
    BY <1>0, <2>1, OrderStepOfOne DEF vars, callVars
  <2>3. QED
    BY <1>7, <2>1, <2>2
<1>16. CASE UNCHANGED <<call, cur>>
  BY <1>0, <1>16, OtherNote DEF NotesInv
<1>17. CASE Background \/ ExpireOldPending \/ \E p \in Pay : Charge(p) \/ PayElapse(p)
  BY <1>16, <1>17 DEF Background, ExpirePending, Elapse, ExpireOldPending, Charge, PayElapse,
     payVars, vars, callVars
<1>18. CASE UNCHANGED allVars
  BY <1>16, <1>18 DEF allVars, payVars, worldVars, vars, callVars
<1>19. ASSUME NEW h \in Handler, NEW o \in Order, MockPay(h, o)
       PROVE  NotesInv'
  <2>1. call' = call /\ call[h].at = "idle" /\ PaidFind(h, o)
    BY <1>19 DEF MockPay, Idle, Free
  <2>2. \A g \in Handler \ {h} : cur'[g] = cur[g]
    BY <1>0, <2>1, OrderStepOfOne
  <2>3. NoteOK(h)'
    BY <2>1 DEF NoteOK, NotifyStages
  <2>4. QED
    BY <1>1, <2>1, <2>2, <2>3 DEF Others
<1>20. QED
  BY <1>3, <1>4, <1>5, <1>6, <1>10, <1>11, <1>12, <1>13, <1>14, <1>15, <1>17, <1>18, <1>19
     DEF PayNext, PayStep

\* Trades and notifications agree in every behaviour.
LEMMA NotesInvariant == PaySpec => [](TradesInv /\ NotesInv)
<1>1. PayInit => TradesInv /\ NotesInv
  BY DEF PayInit, TradesInv, NotesInv, NoteOK, NoCall, NoRow, Rows, NotifyStages
<1>2. PayInv /\ AddrInv /\ TradesInv /\ NotesInv /\ [PayNext]_allVars
        => (TradesInv /\ NotesInv)'
  BY TradesStep, NotesStep
<1>3. QED
  BY <1>1, <1>2, PayInvariant, AddrInvariant, PTL DEF PaySpec

\* No payment is ever settled with somebody else's money, nor with another
\* order's, however late callbacks and transfers arrive.
THEOREM MoneyIsPayers == PaySpec => []MoneyGoesToPayer
<1>1. TradesInv => MoneyGoesToPayer
  BY DEF TradesInv, MoneyGoesToPayer, Matches
<1>2. QED
  BY <1>1, NotesInvariant, PTL

\* HandlePaid runs for a payment, or for an order that mock-pay was called for.
MockInv ==
    \A h \in Handler : pc[h] \in PaidStages =>
        call[h].at = "billing" \/ cur[h] \in mocked

\* Every step keeps to that.
LEMMA MockStep ==
  ASSUME PayInv, MockInv, [PayNext]_allVars
  PROVE  MockInv'
<1>0. TypeOK /\ CallsOK /\ mocked \subseteq mocked'
  BY PayInvParts, WorldStep
<1>a. call \in [Handler -> CallType]
  BY <1>0 DEF CallsOK
<1> DEFINE Good(h) == pc[h] \in PaidStages => call[h].at = "billing" \/ cur[h] \in mocked
<1>1. ASSUME NEW h \in Handler, pc'[h] = pc[h], cur'[h] = cur[h],
             call'[h] = call[h] \/ pc[h] = "idle"
      PROVE  Good(h)'
  BY <1>0, <1>1 DEF MockInv, PaidStages
<1> HIDE DEF Good
<1>2. ASSUME NEW h \in Handler, Others(h), Good(h)',
             \A g \in Handler \ {h} : pc'[g] = pc[g] /\ cur'[g] = cur[g]
      PROVE  MockInv'
  <2>1. \A g \in Handler \ {h} : Good(g)'
    BY <1>1, <1>2 DEF Others
  <2>2. QED
    BY <1>2, <2>1 DEF MockInv, Good
<1>3. ASSUME NEW h \in Handler, OrderCall(h)
      PROVE  MockInv'
  <2>1. call' = call /\ call[h].at = "idle"
    BY <1>3 DEF OrderCall, payVars
  <2>2. \A g \in Handler \ {h} : pc'[g] = pc[g] /\ cur'[g] = cur[g]
    BY <1>0, <1>3, OrderStepOfOne DEF OrderCall, ErrorDropped
  <2>3. Good(h)'
    BY <1>0, <1>3, <2>1, OrderCallStaysOut DEF Good, MockInv
  <2>4. QED
    BY <1>2, <2>1, <2>2, <2>3 DEF Others
<1>4. ASSUME NEW h \in Handler, NEW o \in Order, MockPay(h, o)
      PROVE  MockInv'
  <2>1. call' = call /\ mocked' = mocked \cup {o} /\ PaidFind(h, o)
    BY <1>4 DEF MockPay
  <2>2. \A g \in Handler \ {h} : pc'[g] = pc[g] /\ cur'[g] = cur[g]
    BY <1>0, <2>1, OrderStepOfOne
  <2>3. Good(h)'
    BY <1>0, <2>1 DEF Good, PaidFind, TypeOK
  <2>4. QED
    BY <1>2, <2>1, <2>2, <2>3 DEF Others
<1>5. ASSUME NEW h \in Handler, Bill(h)
      PROVE  MockInv'
  <2> DEFINE o == payment[call[h].pay].order
  <2>1. CASE PaidFind(h, o) /\ GoOn(h, "billing")
    <3>1. Others(h) /\ call'[h].at = "billing"
      BY <1>a, <2>1, GoOnMoves
    <3>2. \A g \in Handler \ {h} : pc'[g] = pc[g] /\ cur'[g] = cur[g]
      BY <1>0, <2>1 DEF PaidFind, TypeOK
    <3>3. QED
      BY <1>2, <3>1, <3>2 DEF Good
  <2>2. CASE HangUp(h) /\ UNCHANGED vars
    <3>1. pc' = pc /\ cur' = cur /\ Others(h) /\ pc[h] = "idle"
      BY <1>0, <1>5, <1>a, <2>2, HangUpMoves DEF vars, callVars, Bill, CallsOK, CallOK
    <3>2. QED
      BY <1>1, <1>2, <3>1
  <2>3. QED
    BY <1>5, <2>1, <2>2 DEF Bill, Acknowledge, vars, callVars
<1>6. ASSUME NEW h \in Handler, Billing(h) \/ (PayFault(h) /\ call[h].at = "billing")
      PROVE  MockInv'
  <2>1. Step(h) \/ PaidCouponFails(h) \/ Fault(h)
    BY <1>6 DEF Billing, PayFault
  <2>2. \A g \in Handler \ {h} : pc'[g] = pc[g] /\ cur'[g] = cur[g]
    BY <1>0, <2>1, OrderStepOfOne DEF ErrorDropped
  <2>3. Others(h) /\ Good(h)'
    <3>1. CASE pc'[h] = "idle"
      <4>1. HangUp(h)
        BY <1>6, <3>1 DEF Billing, PayFault, Acknowledge
      <4>2. QED
        BY <1>a, <3>1, <4>1, HangUpMoves DEF Good, PaidStages
    <3>2. CASE pc'[h] # "idle"
      <4>1. ~Fault(h)
        BY <1>0, <3>2 DEF Fault, Return, TypeOK
      <4>2. call' = call /\ call[h].at = "billing"
        BY <1>6, <2>1, <3>2, <4>1 DEF Billing, PayFault
      <4>3. QED
        BY <4>2 DEF Others, Good
    <3>3. QED
      BY <3>1, <3>2
  <2>4. QED
    BY <1>2, <2>2, <2>3
<1>7. ASSUME NEW h \in Handler, UNCHANGED <<pc, cur>>, Others(h),
             pc[h] = "idle"
      PROVE  MockInv'
  BY <1>1, <1>2, <1>7
<1>8. ASSUME NEW h \in Handler,
             \/ ProviderCreate(h) \/ PayInsert(h) \/ Lookup(h) \/ Fallback(h)
             \/ SetTradeNo(h) \/ MarkPaid(h) \/ MarkUsed(h)
             \/ \E o \in Order, c \in Channel : PayFind(h, o, c)
             \/ \E c \in Pay : HandleNotify(h, c) \/ USDTReceived(h, c)
             \/ PayFault(h) /\ call[h].at # "billing"
      PROVE  MockInv'
  <2>1. UNCHANGED <<pc, cur>>
    BY <1>8 DEF ProviderCreate, PayInsert, Lookup, Fallback, SetTradeNo, MarkPaid, MarkUsed,
       PayFind, HandleNotify, USDTReceived, Receive, PayFault, vars, callVars
  <2>2. pc[h] = "idle"
    BY <1>0, <1>8 DEF ProviderCreate, PayInsert, Lookup, Fallback, SetTradeNo, MarkPaid,
       MarkUsed, PayFind, HandleNotify, USDTReceived, Receive, PayFault, Idle, Free,
       CallsOK, CallOK
  <2>3. Others(h)
    BY <1>a, <1>8 DEF Others, ProviderCreate, PayInsert, Lookup, Fallback, SetTradeNo, MarkPaid,
       MarkUsed, PayFind, HandleNotify, USDTReceived, Receive, PayFault, GoOn, HangUp,
       Acknowledge
  <2>4. QED
    BY <1>7, <2>1, <2>2, <2>3
<1>9. CASE UNCHANGED <<pc, cur, call>>
  BY <1>1, <1>9 DEF MockInv, Good
<1>10. CASE Background \/ ExpireOldPending \/ \E p \in Pay : Charge(p) \/ PayElapse(p)
  BY <1>9, <1>10 DEF Background, ExpirePending, Elapse, ExpireOldPending, Charge, PayElapse,
     payVars, vars, callVars
<1>11. CASE UNCHANGED allVars
  BY <1>9, <1>11 DEF allVars, payVars, vars, callVars
<1>12. QED
  BY <1>3, <1>4, <1>5, <1>6, <1>8, <1>10, <1>11 DEF PayNext, PayStep

\* In every behaviour HandlePaid runs only for one of the two.
LEMMA MockInvariant == PaySpec => []MockInv
<1>1. PayInit => MockInv
  BY DEF PayInit, Init, MockInv, PaidStages
<1>2. QED
  BY <1>1, MockStep, PayInvariant, PTL DEF PaySpec

\* Only a handler that was told about a charge, or to mock one, marks an order
\* as paid.
LEMMA PaidAtMoves ==
  ASSUME PayInv, MockInv, [PayNext]_allVars, NEW o \in Order
  PROVE  /\ paidAt[o] => paidAt'[o]
         /\ paidAt'[o] => \/ paidAt[o]
                          \/ o \in mocked
                          \/ \E h \in Handler : call[h].at = "billing" /\ cur[h] = o
<1>0. TypeOK /\ CallsOK
  BY PayInvParts
<1>1. ASSUME NEW h \in Handler, PaidMark(h)
      PROVE  /\ paidAt[o] => paidAt'[o]
             /\ paidAt'[o] => paidAt[o] \/ cur[h] = o
             /\ call[h].at = "billing" \/ cur[h] \in mocked
  BY <1>0, <1>1 DEF PaidMark, TypeOK, MockInv, PaidStages
<1>2. CASE paidAt' = paidAt
  BY <1>2
<1>3. ASSUME NEW h \in Handler, Step(h) \/ Fault(h) \/ ErrorDropped(h) \/ PaidCouponFails(h)
      PROVE  PaidMark(h) \/ paidAt' = paidAt
  BY <1>3 DEF Step, Fault, ErrorDropped, CreateFindFails, CreateGoOn, QuoteCoupon, QuoteCount,
     QuoteCountFails, CreateInsert, CreateConflict, PaidCoupon, PaidCouponFails, PaidApply,
     CancelWrite, rowVars
<1>4. ASSUME NEW h \in Handler, OrderCall(h)
      PROVE  PaidMark(h) \/ paidAt' = paidAt
  BY <1>3, <1>4 DEF OrderCall, ErrorDropped, CreateFindHit, CreateFindMiss, CreateGoOn,
     CancelFind, rowVars
<1>5. ASSUME NEW h \in Handler,
             Bill(h) \/ Billing(h) \/ PayFault(h) \/ \E p \in Order : MockPay(h, p)
      PROVE  PaidMark(h) \/ paidAt' = paidAt
  BY <1>3, <1>5 DEF Bill, Billing, PayFault, MockPay, PaidFind, rowVars, vars
<1>6. CASE UNCHANGED vars
  BY <1>2, <1>6 DEF vars, rowVars
<1>7. CASE Background
  BY <1>2, <1>7 DEF Background, ExpirePending, Elapse
<1>8. QED
  BY <1>1, <1>2, <1>4, <1>5, <1>6, <1>7 DEF PayNext, PayStep, PayFind, Charge, PayElapse,
     ExpireOldPending, HandleNotify, USDTReceived, Receive, ProviderCreate, PayInsert, Lookup,
     Fallback, SetTradeNo, MarkPaid, MarkUsed, allVars

\* An order never counts as paid unless a customer paid for that very order,
\* through whichever channel and attempt, or mock-pay was called for it.
THEOREM OrdersArePaidFor == PaySpec => []OrdersPaidByMoney
<1>1. PayInit => OrdersPaidByMoney
  BY DEF PayInit, Init, OrdersPaidByMoney
<1>2. PayInv /\ MockInv /\ NotesInv /\ OrdersPaidByMoney /\ [PayNext]_allVars
        => OrdersPaidByMoney'
  <2> SUFFICES ASSUME PayInv, MockInv, NotesInv, OrdersPaidByMoney, [PayNext]_allVars,
                      NEW o \in Order, paidAt'[o]
               PROVE  o \in mocked' \/ \E c \in charged' : payment'[c].order = o
    BY DEF OrdersPaidByMoney
  <2>0. CallsOK /\ RowsKeep /\ charged \subseteq charged' /\ charged \subseteq Rows
        /\ mocked \subseteq mocked'
    BY PayInvParts, TablesStep, WorldStep DEF TablesOK
  <2>1. CASE paidAt[o]
    BY <2>0, <2>1 DEF OrdersPaidByMoney, RowsKeep
  <2>2. ASSUME NEW h \in Handler, call[h].at = "billing", cur[h] = o
        PROVE  \E c \in charged' : payment'[c].order = o
    <3>1. call[h].note \in charged /\ payment[call[h].note].order = o
      BY <2>0, <2>2 DEF CallsOK, CallOK, NotesInv, NoteOK, NotifyStages
    <3>2. QED
      BY <2>0, <3>1 DEF RowsKeep
  <2>3. QED
    BY <2>0, <2>1, <2>2, PaidAtMoves
<1>3. QED
  BY <1>1, <1>2, PayInvariant, MockInvariant, NotesInvariant, PTL DEF PaySpec

-----------------------------------------------------------------------------
(* What a paid payment keeps.                                              *)

\* Only the fallback, which reads a pending row, leads to UpdateTradeNo.
LEMMA ToSetTrade ==
  ASSUME PayInv, [PayNext]_allVars, NEW h \in Handler, call'[h].at = "settrade"
  PROVE  \/ call'[h] = call[h]
         \/ /\ payment' = payment
            /\ payment[call'[h].pay].status = "pending"
<1>0. TablesOK /\ CallsOK
  BY PayInvParts
<1>a. call \in [Handler -> CallType]
  BY <1>0 DEF CallsOK
<1>1. CASE Fallback(h)
  <2> DEFINE active == Active(call[h].order, call[h].chan)
  <2>1. active \subseteq Rows /\ payment' = payment
    BY <1>1 DEF Active, Fallback
  <2>2. \/ HangUp(h)
        \/ active # {} /\ call' = [call EXCEPT ![h].at = "settrade", ![h].pay = Newest(active)]
    BY <1>1 DEF Fallback
  <2>3. active # {} => Newest(active) \in active
    BY <1>0, <2>1, NewestIsLast
  <2>4. active # {} => Newest(active) \in Pay /\ payment[Newest(active)].status = "pending"
    BY <2>3 DEF Active, Rows
  <2> HIDE DEF active
  <2>5. CASE HangUp(h)
    BY <1>a, <2>5, HangUpMoves DEF NoCall
  <2>6. QED
    BY <1>a, <2>1, <2>2, <2>4, <2>5, WorkMoves
<1>2. ASSUME ~Fallback(h)
      PROVE  call'[h] = call[h]
  <2>1. ASSUME HangUp(h)
        PROVE  FALSE
    BY <1>a, <2>1, HangUpMoves DEF NoCall
  <2>2. ASSUME NEW s \in {"insert", "fallback", "mark", "used", "bill", "billing"}, GoOn(h, s)
        PROVE  FALSE
    BY <1>a, <2>2, GoOnMoves
  <2>3. ASSUME NEW p \in Pay, call' = [call EXCEPT ![h].at = "mark", ![h].pay = p]
        PROVE  FALSE
    BY <1>a, <2>3, WorkMoves
  <2>4. ASSUME Lookup(h)
        PROVE  FALSE
    <3>1. WithTrade(TradeOf(call[h].note), call[h].chan) \subseteq Pay
      BY DEF WithTrade, Rows
    <3>2. QED
      BY <2>1, <2>2, <2>3, <2>4, <3>1 DEF Lookup, Acknowledge
  <2>5. ASSUME \/ \E o \in Order, c \in Channel : PayFind(h, o, c)
               \/ \E c \in Pay : HandleNotify(h, c) \/ USDTReceived(h, c)
        PROVE  FALSE
    <3>1. ASSUME NEW o \in Order, NEW c \in Channel, PayFind(h, o, c)
          PROVE  FALSE
      BY <1>a, <3>1 DEF PayFind, NoCall
    <3>2. ASSUME NEW c \in Pay, NEW o, Receive(h, c, o)
          PROVE  FALSE
      BY <1>a, <3>2 DEF Receive, NoCall
    <3>3. QED
      BY <2>5, <3>1, <3>2 DEF HandleNotify, USDTReceived
  <2>6. ASSUME ProviderCreate(h) \/ PayInsert(h)
        PROVE  FALSE
    <3>1. \/ GoOn(h, "insert") \/ HangUp(h)
          \/ \E a \in Address : call' = [call EXCEPT ![h].at = "insert", ![h].addr = a]
      BY <2>6 DEF ProviderCreate, PayInsert
    <3>2. QED
      BY <1>a, <2>1, <2>2, <3>1, ClaimMoves
  <2>7. ASSUME SetTradeNo(h) \/ MarkPaid(h) \/ MarkUsed(h) \/ Bill(h) \/ PayFault(h)
        PROVE  FALSE
    BY <2>1, <2>2, <2>7 DEF SetTradeNo, MarkPaid, MarkUsed, Bill, PayFault, Acknowledge
  <2>8. CASE Billing(h)
    BY <2>1, <2>8 DEF Billing, Acknowledge
  <2>9. ASSUME NEW g \in Handler \ {h},
               \/ PayStep(g) \/ PayFault(g)
               \/ \E c \in Pay : HandleNotify(g, c) \/ USDTReceived(g, c)
               \/ \E o \in Order, c \in Channel : PayFind(g, o, c)
        PROVE  call'[h] = call[h]
    BY <1>a, <2>9 DEF PayStep, PayFault, HandleNotify, USDTReceived, PayFind, Receive,
       ProviderCreate, PayInsert, Lookup, Fallback, SetTradeNo, MarkPaid, MarkUsed, Bill,
       Billing, GoOn, HangUp, Acknowledge
  <2>10. QED
    BY <1>2, <2>4, <2>5, <2>6, <2>7, <2>8, <2>9
       DEF PayNext, PayStep, MockPay, Charge, PayElapse, ExpireOldPending, OrderCall, Background,
       allVars, payVars, worldVars
<1>3. QED
  BY <1>1, <1>2

\* But on chain, the trade number that UpdateTradeNo writes to a paid row is the
\* row's own.
LEMMA SameTradeAgain ==
  ASSUME PayInv, TradesInv, NotesInv, NEW h \in Handler, SetTradeNo(h),
         payment[call[h].pay].status = "paid", payment[call[h].pay].chan # "usdt"
  PROVE  payment' = payment
<1> DEFINE p == call[h].pay  c == call[h].note  t == TradeOf(c)
<1>0. TablesOK /\ CallsOK
  BY PayInvParts
<1>1. /\ p \in Rows /\ p \in Pay /\ c \in Rows /\ call[h].at = "settrade"
      /\ call[h].chan = payment[c].chan
      /\ payment[p].order = payment[c].order /\ payment[p].chan = payment[c].chan
  BY <1>0 DEF SetTradeNo, CallsOK, CallOK, TablesOK, NotesInv, NoteOK, NotifyStages, Rows
<1>2. SUFFICES ASSUME payment' = [payment EXCEPT ![p].trade = t],
                      WithTrade(t, call[h].chan) \subseteq {p}
               PROVE  payment' = payment
  BY DEF SetTradeNo
<1>3. PICK d \in Rows : Matches(p, d)
  BY <1>0, <1>1 DEF TradesInv, TablesOK
<1>4. CASE payment[p].chan \in QRChannels
  <2>1. payment[p].trade = t
    BY <1>1, <1>3, <1>4 DEF Matches, TradeOf
  <2>2. QED
    BY <1>0, <1>1, <1>2, <2>1 DEF TablesOK, PaymentType
<1>5. CASE payment[p].chan = "mock"
  <2>1. c \in WithTrade(t, call[h].chan)
    BY <1>1, <1>5 DEF WithTrade, TradesInv
  <2>2. payment[p].trade = t
    BY <1>1, <1>2, <1>5, <2>1 DEF TradesInv
  <2>3. QED
    BY <1>0, <1>1, <1>2, <2>2 DEF TablesOK, PaymentType
<1>6. QED
  BY <1>0, <1>1, <1>4, <1>5, PaymentsAssumption DEF PaymentsAssumption, TablesOK

\* What a step leaves of row p: all but whether its window is open and, on chain,
\* the hash, which only a handler on its way from UpdateTradeNo to MarkPaid changes.
Keeping(p) ==
    /\ [payment'[p] EXCEPT !.live = TRUE, !.trade = NoTrade]
         = [payment[p] EXCEPT !.live = TRUE, !.trade = NoTrade]
    /\ payment'[p].trade # payment[p].trade =>
         /\ payment[p].chan = "usdt"
         /\ \E h \in Handler : /\ Renaming(h, p)
                               /\ ~Renaming(h, p)'
                               /\ payment'[p].trade = TradeOf(call[h].note)

\* A paid row is kept by every step.
LEMMA PaidStays ==
  ASSUME PayInv, TradesInv, NotesInv, [PayNext]_allVars,
         NEW p \in Pay, payment[p].status = "paid"
  PROVE  Keeping(p) /\ payment'[p].status = "paid"
<1> DEFINE Kept == Keeping(p) /\ payment'[p].status = "paid"
<1> SUFFICES Kept
  OBVIOUS
<1>0. TablesOK /\ CallsOK
  BY PayInvParts
<1>1. CASE payment'[p] = payment[p]
  BY <1>1 DEF Keeping
<1>2. ASSUME NEW h \in Handler, SetTradeNo(h)
      PROVE  Kept
  <2>1. CASE call[h].pay = p /\ payment[p].chan = "usdt"
    <3>1. call'[h].at = "mark" /\ Renaming(h, p)
      BY <1>0, <1>2, <2>1, GoOnMoves DEF SetTradeNo, Renaming, CallsOK
    <3>2. ~Renaming(h, p)'
      BY <3>1 DEF Renaming
    <3> DEFINE t == TradeOf(call[h].note)
    <3>3. payment' = payment \/ payment' = [payment EXCEPT ![p].trade = t]
      BY <1>2, <2>1 DEF SetTradeNo
    <3> HIDE DEF t
    <3>4. payment[p] \in PaymentType
      BY <1>0 DEF TablesOK
    <3>5. CASE payment' = [payment EXCEPT ![p].trade = t]
      <4>1. payment'[p] = [payment[p] EXCEPT !.trade = t]
        BY <1>0, <3>5 DEF TablesOK
      <4>2. payment'[p].trade = t /\ payment'[p].status = "paid"
        BY <3>4, <4>1 DEF PaymentType
      <4>3. [payment'[p] EXCEPT !.live = TRUE, !.trade = NoTrade]
              = [payment[p] EXCEPT !.live = TRUE, !.trade = NoTrade]
        BY <3>4, <4>1 DEF PaymentType
      <4>4. QED
        BY <2>1, <3>1, <3>2, <4>2, <4>3 DEF Keeping, t
    <3>6. QED
      BY <1>1, <3>3, <3>5
  <2>2. CASE call[h].pay = p /\ payment[p].chan # "usdt"
    BY <1>1, <1>2, <2>2, SameTradeAgain
  <2>3. CASE call[h].pay # p
    BY <1>0, <1>1, <1>2, <2>3 DEF SetTradeNo, TablesOK
  <2>4. QED
    BY <2>1, <2>2, <2>3
<1>3. ASSUME NEW h \in Handler, MarkPaid(h)
      PROVE  payment'[p] = payment[p]
  BY <1>0, <1>3 DEF MarkPaid, TablesOK
<1>4. ASSUME NEW h \in Handler, PayInsert(h)
      PROVE  payment'[p] = payment[p]
  <2> DEFINE n == Cardinality(Rows) + 1
  <2>1. n # p
    BY <1>0, NextRow DEF Rows
  <2>2. payment' = payment \/ \E r : payment' = [payment EXCEPT ![n] = r]
    BY <1>4 DEF PayInsert
  <2> HIDE DEF n
  <2>3. QED
    BY <1>0, <2>1, <2>2 DEF TablesOK
<1>5. CASE ExpireOldPending
  BY <1>0, <1>1, <1>5 DEF ExpireOldPending, OldPending
<1>6. ASSUME NEW q \in Pay, PayElapse(q)
      PROVE  Kept
  BY <1>0, <1>6 DEF PayElapse, TablesOK, PaymentType, Keeping
<1>7. CASE UNCHANGED payment
  BY <1>1, <1>7
<1> HIDE DEF Kept
<1>8. QED
  BY <1>1, <1>2, <1>3, <1>4, <1>5, <1>6, <1>7 DEF PayNext, PayStep, OrderCall, MockPay, PayFind,
     Charge, HandleNotify, USDTReceived, Receive, PayFault, Background, ProviderCreate, Lookup,
     Fallback, MarkUsed, Bill, Billing, allVars, payVars, worldVars

\* UpdateTradeNo, MarkPaid and the sweep, acting on what they read before, leave
\* what a paid row records, but for the hash of a USDT payment that a handler
\* picked while it was pending; nobody picks one that is paid.
THEOREM PaidPaymentsAreKept == PaySpec => PaidPaymentIsKept
<1>1. PayInv /\ TradesInv /\ NotesInv /\ [PayNext]_allVars
        => [\A p \in Pay : payment[p].status = "paid" =>
              /\ [payment'[p] EXCEPT !.live = TRUE, !.trade = NoTrade]
                   = [payment[p] EXCEPT !.live = TRUE, !.trade = NoTrade]
              /\ \A h \in Handler : Renaming(h, p)' => Renaming(h, p)
              /\ payment'[p].trade # payment[p].trade =>
                   /\ payment[p].chan = "usdt"
                   /\ \E h \in Handler :
                         /\ Renaming(h, p)
                         /\ ~Renaming(h, p)'
                         /\ payment'[p].trade = TradeOf(call[h].note)]_allVars
  <2> SUFFICES ASSUME PayInv, TradesInv, NotesInv, [PayNext]_allVars,
                      NEW p \in Pay, payment[p].status = "paid"
               PROVE  /\ Keeping(p)
                      /\ \A h \in Handler : Renaming(h, p)' => Renaming(h, p)
    BY DEF Keeping
  <2>1. ASSUME NEW h \in Handler, Renaming(h, p)'
        PROVE  Renaming(h, p)
    BY <2>1, ToSetTrade DEF Renaming
  <2>2. QED
    BY <2>1, PaidStays
<1>2. QED
  BY <1>1, PayInvariant, NotesInvariant, PTL DEF PaySpec, PaidPaymentIsKept
-----------------------------------------------------------------------------
(* What was acknowledged is on record.                                     *)

Recorded(c) ==
    \/ paidAt[payment[c].order]
    \/ \E p \in Rows : /\ payment[p].status = "paid"
                       /\ payment[p].order = payment[c].order
                       /\ payment[p].chan = payment[c].chan

\* What is on record stays on record.
LEMMA RecordKept ==
  ASSUME PayInv, MockInv, TradesInv, NotesInv, [PayNext]_allVars,
         NEW c \in Rows, Recorded(c)
  PROVE  Recorded(c)'
<1>0. TablesOK /\ RowsKeep
  BY PayInvParts, TablesStep
<1>1. payment'[c].order = payment[c].order /\ payment'[c].chan = payment[c].chan
      /\ payment[c].order \in Order
  BY <1>0 DEF RowsKeep, TablesOK
<1>2. CASE paidAt[payment[c].order]
  BY <1>1, <1>2, PaidAtMoves DEF Recorded
<1>3. ASSUME NEW p \in Rows, payment[p].status = "paid",
             payment[p].order = payment[c].order, payment[p].chan = payment[c].chan
      PROVE  Recorded(c)'
  <2>1. p \in Rows' /\ p \in Pay /\ payment'[p].chan = payment[p].chan
        /\ payment'[p].order = payment[p].order
    BY <1>0 DEF RowsKeep, Rows
  <2>2. payment'[p].status = "paid"
    BY <1>3, <2>1, PaidStays
  <2>3. QED
    BY <1>1, <1>3, <2>1, <2>2 DEF Recorded
<1>4. QED
  BY <1>2, <1>3 DEF Recorded

\* A handler answers success only when the charge it was told about is on record.
LEMMA AckRecords ==
  ASSUME PayInv, TradesInv, NotesInv, RowsInv, [PayNext]_allVars,
         NEW c \in acked', c \notin acked
  PROVE  c \in Rows /\ Recorded(c)
<1>0. TypeOK /\ TablesOK /\ CallsOK
  BY PayInvParts
<1>1. ASSUME NEW h \in Handler, Acknowledge(h)
      PROVE  c = call[h].note
  BY <1>1 DEF Acknowledge
<1>2. ASSUME NEW h \in Handler, c = call[h].note, call[h].at \in NotifyStages
      PROVE  c \in Rows /\ call[h].chan = payment[c].chan /\ call[h].order = payment[c].order
  BY <1>0, <1>2 DEF CallsOK, CallOK, TablesOK, NotesInv, NoteOK
<1>3. ASSUME NEW h \in Handler, Lookup(h)
      PROVE  c \in Rows /\ Recorded(c)
  <2>1. /\ Acknowledge(h)
        /\ \E p \in WithTrade(TradeOf(call[h].note), call[h].chan) : payment[p].status = "paid"
    BY <1>3 DEF Lookup
  <2>2. call[h].at \in NotifyStages
    BY <1>3 DEF Lookup, NotifyStages
  <2>3. c = call[h].note /\ c \in Rows /\ call[h].chan = payment[c].chan
    BY <1>1, <1>2, <2>1, <2>2
  <2>4. PICK p \in Rows : /\ payment[p].chan = payment[c].chan
                          /\ payment[p].trade = TradeOf(c)
                          /\ payment[p].status = "paid"
    BY <2>1, <2>3 DEF WithTrade
  <2>5. payment[p].trade # NoTrade
    BY <1>0, <2>3, <2>4, TradeTyped, PaymentsAssumption DEF PaymentsAssumption, Trade
  <2>6. PICK d \in Rows : Matches(p, d)
    BY <2>5 DEF TradesInv
  <2>7. payment[p].order = payment[c].order
    BY <2>3, <2>4, <2>6, TradeNames DEF Matches
  <2>8. QED
    BY <2>3, <2>4, <2>7 DEF Recorded
<1>4. ASSUME NEW h \in Handler, Bill(h)
      PROVE  c \in Rows /\ Recorded(c)
  <2> DEFINE o == payment[call[h].pay].order
  <2>1. Acknowledge(h) /\ status[o] = "paid"
    BY <1>4 DEF Bill
  <2>2. call[h].at \in NotifyStages /\ call[h].pay \in Rows /\ o = call[h].order
    BY <1>0, <1>4 DEF Bill, NotifyStages, CallsOK, CallOK, NotesInv, NoteOK
  <2>3. o \in Order
    BY <1>0, <2>2 DEF TablesOK
  <2> HIDE DEF o
  <2>4. paidAt[o]
    BY <2>1, <2>3 DEF RowsInv, RowsAgree
  <2>5. QED
    BY <1>1, <1>2, <2>1, <2>2, <2>4 DEF Recorded
<1>5. ASSUME NEW h \in Handler, Billing(h)
      PROVE  c \in Rows /\ Recorded(c)
  <2>1. /\ pc[h] \in PaidStages /\ call[h].at = "billing" /\ call[h].at \in NotifyStages
        /\ cur[h] = call[h].order
    BY <1>0, <1>5 DEF Billing, CallsOK, CallOK, NotifyStages, NotesInv, NoteOK
  <2>2. Acknowledge(h) /\ pc'[h] = "idle"
    BY <1>5 DEF Billing
  <2>3. pc[h] = "apply"
    <3>1. PaidMark(h) => pc'[h] = "coupon" \/ pc'[h] = "apply"
      BY <1>0 DEF PaidMark, Goto, TypeOK
    <3>2. PaidCoupon(h) \/ PaidCouponFails(h) => pc'[h] = "apply"
      BY <1>0 DEF PaidCoupon, PaidCouponFails, Goto, TypeOK
    <3>3. PaidMark(h) \/ PaidCoupon(h) \/ PaidCouponFails(h) \/ PaidApply(h)
      BY <1>5, <2>1 DEF Billing, Step, QuoteCoupon, QuoteCount, CreateInsert,
         CreateConflict, CancelWrite, PaidStages
    <3>4. QED
      BY <2>2, <3>1, <3>2, <3>3 DEF PaidApply
  <2>4. paidAt[cur[h]]
    BY <2>3 DEF RowsInv, CallsAgree
  <2>5. QED
    BY <1>1, <1>2, <2>1, <2>2, <2>4 DEF Recorded
<1>6. CASE UNCHANGED acked
  BY <1>6
<1>7. QED
  BY <1>3, <1>4, <1>5, <1>6 DEF PayNext, PayStep, OrderCall, MockPay, PayFind, Charge,
     HandleNotify, USDTReceived, Receive, PayFault, Background, ProviderCreate, PayInsert,
     Fallback, SetTradeNo, MarkPaid, MarkUsed, PayElapse, ExpireOldPending, allVars, payVars, worldVars

\* Money that a provider was told we have is never known to nobody: the order is
\* on record as paid, or one of its attempts on that channel is.
THEOREM AcksAreRecorded == PaySpec => []AckMeansRecorded
<1>1. PayInit => AckMeansRecorded
  BY DEF PayInit, AckMeansRecorded
<1>2. PayInv /\ MockInv /\ TradesInv /\ NotesInv /\ RowsInv /\ AckMeansRecorded
        /\ [PayNext]_allVars => AckMeansRecorded'
  <2> SUFFICES ASSUME PayInv, MockInv, TradesInv, NotesInv, RowsInv, AckMeansRecorded,
                      [PayNext]_allVars, NEW c \in acked'
               PROVE  Recorded(c)'
    BY DEF AckMeansRecorded, Recorded
  <2>1. acked \subseteq Rows
    BY PayInvParts DEF CallsOK, TablesOK
  <2>2. c \in acked => c \in Rows /\ Recorded(c)
    BY <2>1 DEF AckMeansRecorded, Recorded
  <2>3. QED
    BY <2>2, AckRecords, RecordKept
<1>3. PaySpec => []RowsInv
  BY PaymentsRefineOrders, RowsInvariant DEF RefinesOrders
<1>4. QED
  BY <1>1, <1>2, <1>3, PayInvariant, MockInvariant, NotesInvariant, PTL DEF PaySpec

\* The bound on double delivery holds with payments and mock-pay as the ways to
\* be paid.
THEOREM PaymentsKeepBudget == PaySpec => []EffectBudget
BY PaymentsRefineOrders, EffectsBounded DEF RefinesOrders
=============================================================================
