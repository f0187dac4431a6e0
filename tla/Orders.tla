------------------------------- MODULE Orders -------------------------------
(***************************************************************************)
(* The order life cycle of internal/billing: CreateOrder, CancelOrder,     *)
(* HandlePaid (reached by MockPay and by every payment provider) and the   *)
(* sweep that expires unpaid orders, over the orders and coupons tables.   *)
(*                                                                         *)
(* A request is served by a handler (a goroutine).  The service opens no   *)
(* transaction across its repository calls, so every SQL statement is a    *)
(* step of its own and other handlers run in between; what a handler read  *)
(* stays in its stack (pc, cur, req).                                      *)
(*                                                                         *)
(* Time is kept per order as the phase of its 15-minute window: "live"     *)
(* (now < expire_at), "due" (now = expire_at) and "past" (now > expire_at),*)
(* the three cases that IsPayable and ExpirePending tell apart.            *)
(***************************************************************************)
EXTENDS Naturals, FiniteSets

CONSTANTS
    Order,          \* order numbers genOrderNo can mint (bound of the model)
    User,           \* user ids
    Key,            \* idempotency keys
    Request,        \* the CreateOrder calls clients make
    Handler,        \* requests the processes serve at one time
    TotalQuota,     \* coupons.total_quota, 0 = unlimited
    PerUserLimit,   \* coupons.per_user_limit, 0 = unlimited
    MaxFaults,      \* bound: handlers lost to a crash or a failed statement
    NoOrder,        \* a handler that holds no order
    NoRequest       \* a handler that serves no CreateOrder

RequestType == [user : User, key : Key, coupon : BOOLEAN]

ASSUME OrdersAssumption ==
    /\ IsFiniteSet(Order)
    /\ IsFiniteSet(Handler)
    /\ Request \subseteq RequestType
    /\ TotalQuota \in Nat
    /\ PerUserLimit \in Nat
    /\ MaxFaults \in Nat
    /\ NoOrder \notin Order
    /\ NoRequest \notin RequestType

VARIABLES
    status,     \* orders.status, "absent" before the row is inserted
    req,        \* orders.(user_id, idempotency_key, coupon_code) of a row
    life,       \* where now stands relative to orders.expire_at
    paidAt,     \* orders.paid_at is set
    paidCNY,    \* orders.paid_cny: "zero" or the net amount, "final"
    applied,    \* how often the order's effects reached the user's row
    couponUsed, \* coupons.used_count
    answered,   \* the orders CreateOrder returned for a (user, key)
    pc,         \* the statement a handler executes next
    cur,        \* the order a handler read
    want,       \* the CreateOrder request a handler serves
    faults      \* handlers lost so far

rowVars  == <<status, req, life, paidAt, paidCNY>>
userVars == <<applied, couponUsed, answered>>
callVars == <<pc, cur, want>>
vars     == <<rowVars, userVars, callVars, faults>>

-----------------------------------------------------------------------------
(* The state space.                                                        *)

Final    == {"paid", "cancelled", "expired"}
Statuses == {"absent", "pending"} \cup Final
Phases   == {"live", "due", "past"}

\* The stages of CreateOrder, of HandlePaid and of CancelOrder.
CreateStages == {"quote", "count", "insert"}
PaidStages   == {"mark", "coupon", "apply"}
WriteStages  == PaidStages \cup {"cancel"}
Stages       == {"idle"} \cup CreateStages \cup WriteStages

TypeOK ==
    /\ status \in [Order -> Statuses]
    /\ req \in [Order -> RequestType \cup {NoRequest}]
    /\ life \in [Order -> Phases]
    /\ paidAt \in [Order -> BOOLEAN]
    /\ paidCNY \in [Order -> {"zero", "final"}]
    /\ applied \in [Order -> Nat]
    /\ couponUsed \in Nat
    /\ answered \in [User \X Key -> SUBSET Order]
    /\ pc \in [Handler -> Stages]
    /\ cur \in [Handler -> Order \cup {NoOrder}]
    /\ want \in [Handler -> RequestType \cup {NoRequest}]
    /\ \A h \in Handler :
        /\ pc[h] \in CreateStages => want[h] \in Request
        /\ pc[h] \in WriteStages => cur[h] \in Order
    /\ faults \in 0..MaxFaults

Init ==
    /\ status = [o \in Order |-> "absent"]
    /\ req = [o \in Order |-> NoRequest]
    /\ life = [o \in Order |-> "live"]
    /\ paidAt = [o \in Order |-> FALSE]
    /\ paidCNY = [o \in Order |-> "zero"]
    /\ applied = [o \in Order |-> 0]
    /\ couponUsed = 0
    /\ answered = [uk \in User \X Key |-> {}]
    /\ pc = [h \in Handler |-> "idle"]
    /\ cur = [h \in Handler |-> NoOrder]
    /\ want = [h \in Handler |-> NoRequest]
    /\ faults = 0

Exists(o) == status[o] # "absent"

\* FindByIdempotency: the rows with the unique (user_id, idempotency_key).
Matching(r) ==
    {o \in Order : Exists(o) /\ req[o].user = r.user /\ req[o].key = r.key}

\* Mutant of Payable: the status is not looked at.
PayableAnyStatus(o) == Exists(o) /\ life[o] = "live"

\* Order.IsPayable, on the row as it is read now.
Payable(o) == status[o] = "pending" /\ life[o] = "live"

\* IncrementUsage's WHERE clause, and QuoteCoupon's test of the same columns.
QuotaLeft == TotalQuota = 0 \/ couponUsed < TotalQuota

\* CountUsedByUser: the user's orders with the coupon that are paid now.
PaidUses(u) ==
    {o \in Order : status[o] = "paid" /\ req[o].coupon /\ req[o].user = u}

\* Return from a handler: its stack frame is gone.
Return(h) ==
    /\ pc' = [pc EXCEPT ![h] = "idle"]
    /\ cur' = [cur EXCEPT ![h] = NoOrder]
    /\ want' = [want EXCEPT ![h] = NoRequest]

Goto(h, stage) ==
    /\ pc' = [pc EXCEPT ![h] = stage]
    /\ UNCHANGED <<cur, want>>

Answer(r, o) ==
    answered' = [answered EXCEPT ![<<r.user, r.key>>] = @ \cup {o}]

-----------------------------------------------------------------------------
(* CreateOrder.  The catalogue read and the price are immutable inputs of  *)
(* the request here: a request that names no active plan returns at once.  *)

\* The first statement: an order with the same key, whatever its status, is
\* the answer.
CreateFindHit(h, r) ==
    /\ pc[h] = "idle"
    /\ \E o \in Matching(r) : Answer(r, o)
    /\ UNCHANGED <<rowVars, applied, couponUsed, callVars, faults>>

CreateGoOn(h, r) ==
    /\ pc[h] = "idle"
    /\ pc' = [pc EXCEPT ![h] = IF r.coupon THEN "quote" ELSE "insert"]
    /\ want' = [want EXCEPT ![h] = r]
    /\ UNCHANGED <<rowVars, userVars, cur>>

CreateFindMiss(h, r) ==
    /\ Matching(r) = {}
    /\ \E o \in Order : ~Exists(o)
    /\ CreateGoOn(h, r)
    /\ UNCHANGED faults

\* The look-up fails: the error is dropped and the call goes on as if no
\* order had the key.
CreateFindFails(h, r) ==
    /\ Matching(r) # {}
    /\ faults < MaxFaults
    /\ faults' = faults + 1
    /\ CreateGoOn(h, r)

\* QuoteCoupon reads the coupon's row and tests used_count.
QuoteCoupon(h) ==
    /\ pc[h] = "quote"
    /\ IF QuotaLeft THEN Goto(h, "count") ELSE Return(h)
    /\ UNCHANGED <<rowVars, userVars, faults>>

\* QuoteCoupon counts the user's paid orders with the coupon.
QuoteCount(h) ==
    /\ pc[h] = "count"
    /\ IF PerUserLimit = 0 \/ Cardinality(PaidUses(want[h].user)) < PerUserLimit
       THEN Goto(h, "insert")
       ELSE Return(h)
    /\ UNCHANGED <<rowVars, userVars, faults>>

\* The count fails: its error is dropped and the user counts as having no use.
QuoteCountFails(h) ==
    /\ pc[h] = "count"
    /\ faults < MaxFaults
    /\ faults' = faults + 1
    /\ Goto(h, "insert")
    /\ UNCHANGED <<rowVars, userVars>>

\* Mutant of CreateInsert: the table has no unique (user_id, idempotency_key).
CreateInsertNoIndex(h) ==
    /\ pc[h] = "insert"
    /\ \E o \in Order :
        /\ ~Exists(o)
        /\ status' = [status EXCEPT ![o] = "pending"]
        /\ req' = [req EXCEPT ![o] = want[h]]
        /\ Answer(want[h], o)
    /\ Return(h)
    /\ UNCHANGED <<life, paidAt, paidCNY, applied, couponUsed, faults>>

\* The INSERT, accepted by uk_orders_user_idem.
CreateInsert(h) ==
    /\ pc[h] = "insert"
    /\ Matching(want[h]) = {}
    /\ \E o \in Order :
        /\ ~Exists(o)
        /\ status' = [status EXCEPT ![o] = "pending"]
        /\ req' = [req EXCEPT ![o] = want[h]]
        /\ Answer(want[h], o)
    /\ Return(h)
    /\ UNCHANGED <<life, paidAt, paidCNY, applied, couponUsed, faults>>

\* The INSERT refused by the unique index: the row that won is fetched.  The
\* key of a row never changes and rows are never deleted, so the INSERT and
\* the second look-up are one step.
CreateConflict(h) ==
    /\ pc[h] = "insert"
    /\ \E o \in Matching(want[h]) : Answer(want[h], o)
    /\ Return(h)
    /\ UNCHANGED <<rowVars, applied, couponUsed, faults>>

-----------------------------------------------------------------------------
(* HandlePaid.  A call that finds the order paid returns nil and one that  *)
(* finds it not payable returns ErrOrderNotPayable; neither changes state. *)

PaidFind(h, o) ==
    /\ pc[h] = "idle"
    /\ Payable(o)
    /\ pc' = [pc EXCEPT ![h] = "mark"]
    /\ cur' = [cur EXCEPT ![h] = o]
    /\ UNCHANGED <<rowVars, userVars, want, faults>>

\* Mutants of PaidMark: the coupon is not counted; the effects are not applied.
PaidMarkTo(h, stage) ==
    /\ pc[h] = "mark"
    /\ status' = [status EXCEPT ![cur[h]] = "paid"]
    /\ paidAt' = [paidAt EXCEPT ![cur[h]] = TRUE]
    /\ paidCNY' = [paidCNY EXCEPT ![cur[h]] = "final"]
    /\ Goto(h, stage)
    /\ UNCHANGED <<req, life, userVars, faults>>
PaidMarkSkipsCoupon(h) == PaidMarkTo(h, "apply")
PaidMarkStops(h) == PaidMarkTo(h, "idle")

\* UpdateStatus(paid): WHERE order_no = ? only.
PaidMark(h) ==
    /\ pc[h] = "mark"
    /\ status' = [status EXCEPT ![cur[h]] = "paid"]
    /\ paidAt' = [paidAt EXCEPT ![cur[h]] = TRUE]
    /\ paidCNY' = [paidCNY EXCEPT ![cur[h]] = "final"]
    /\ Goto(h, IF req[cur[h]].coupon THEN "coupon" ELSE "apply")
    /\ UNCHANGED <<req, life, userVars, faults>>

\* IncrementUsage; its refusal is ignored.
PaidCoupon(h) ==
    /\ pc[h] = "coupon"
    /\ couponUsed' = IF QuotaLeft THEN couponUsed + 1 ELSE couponUsed
    /\ Goto(h, "apply")
    /\ UNCHANGED <<rowVars, applied, answered, faults>>

\* FindByCode or IncrementUsage fails: the error is ignored as well.
PaidCouponFails(h) ==
    /\ pc[h] = "coupon"
    /\ faults < MaxFaults
    /\ faults' = faults + 1
    /\ Goto(h, "apply")
    /\ UNCHANGED <<rowVars, userVars>>

\* ApplyPlan, ApplyPack and ApplyTopup: each adds to the user's row and
\* commits once, without a mark that says for which order.
Deliver(o) == applied' = [applied EXCEPT ![o] = @ + 1]

\* applyOrderEffects.
PaidApply(h) ==
    /\ pc[h] = "apply"
    /\ Deliver(cur[h])
    /\ Return(h)
    /\ UNCHANGED <<rowVars, couponUsed, answered, faults>>

-----------------------------------------------------------------------------
(* CancelOrder, the sweep, time and faults.                                *)

\* Mutants of CancelFind: any status will do; the order read is not kept.
CancelFindAnyStatus(h, o) ==
    /\ pc[h] = "idle"
    /\ Exists(o)
    /\ pc' = [pc EXCEPT ![h] = "cancel"]
    /\ cur' = [cur EXCEPT ![h] = o]
    /\ UNCHANGED <<rowVars, userVars, want, faults>>
CancelFindForgets(h, o) ==
    /\ status[o] = "pending"
    /\ pc[h] = "idle"
    /\ pc' = [pc EXCEPT ![h] = "cancel"]
    /\ UNCHANGED <<rowVars, userVars, cur, want, faults>>

\* FindByOrderNo, the owner's test and the test of the status.
CancelFind(h, o) ==
    /\ pc[h] = "idle"
    /\ status[o] = "pending"
    /\ pc' = [pc EXCEPT ![h] = "cancel"]
    /\ cur' = [cur EXCEPT ![h] = o]
    /\ UNCHANGED <<rowVars, userVars, want, faults>>

\* UpdateStatus(cancelled) with the paid_cny that was read while pending.
CancelWrite(h) ==
    /\ pc[h] = "cancel"
    /\ status' = [status EXCEPT ![cur[h]] = "cancelled"]
    /\ paidCNY' = [paidCNY EXCEPT ![cur[h]] = "zero"]
    /\ Return(h)
    /\ UNCHANGED <<req, life, paidAt, userVars, faults>>

\* Mutant of Overdue: the comparison is off by one.
OverdueExactly == {o \in Order : status[o] = "pending" /\ life[o] = "due"}

\* One UPDATE over every row that is pending with expire_at < now; the api
\* process and the worker both run it every minute.
Overdue == {o \in Order : status[o] = "pending" /\ life[o] = "past"}

ExpirePending ==
    /\ Overdue # {}
    /\ status' = [o \in Order |-> IF o \in Overdue THEN "expired" ELSE status[o]]
    /\ UNCHANGED <<req, life, paidAt, paidCNY, userVars, callVars, faults>>

\* The clock reaches, then passes, the order's expire_at.
Elapse(o) ==
    /\ Exists(o)
    /\ life[o] # "past"
    /\ life' = [life EXCEPT ![o] = IF @ = "live" THEN "due" ELSE "past"]
    /\ UNCHANGED <<status, req, paidAt, paidCNY, userVars, callVars, faults>>

\* A process dies, or a statement fails and the handler returns its error.
Fault(h) ==
    /\ pc[h] # "idle"
    /\ faults < MaxFaults
    /\ faults' = faults + 1
    /\ Return(h)
    /\ UNCHANGED <<rowVars, userVars>>

-----------------------------------------------------------------------------
Step(h) ==
    \/ QuoteCoupon(h)
    \/ QuoteCount(h)
    \/ CreateInsert(h)
    \/ CreateConflict(h)
    \/ PaidMark(h)
    \/ PaidCoupon(h)
    \/ PaidApply(h)
    \/ CancelWrite(h)

\* Failed statements whose error the code drops.
ErrorDropped(h) ==
    \/ \E r \in Request : CreateFindFails(h, r)
    \/ QuoteCountFails(h)
    \/ PaidCouponFails(h)

Call(h) ==
    \/ \E r \in Request : CreateFindHit(h, r) \/ CreateFindMiss(h, r)
    \/ \E o \in Order : PaidFind(h, o) \/ CancelFind(h, o)

Next ==
    \/ \E h \in Handler : Call(h) \/ Step(h) \/ ErrorDropped(h) \/ Fault(h)
    \/ \E o \in Order : Elapse(o)
    \/ ExpirePending

Spec == Init /\ [][Next]_vars

\* A running handler goes on (the Go scheduler), the minute ticker fires and
\* time passes.  Clients owe nothing.
Fairness ==
    /\ \A h \in Handler : WF_vars(Step(h))
    /\ \A o \in Order : WF_vars(Elapse(o))
    /\ WF_vars(ExpirePending)

FairSpec == Spec /\ Fairness

-----------------------------------------------------------------------------
(* Properties.                                                             *)

\* The HandlePaid calls that found the order payable and have not applied
\* its effects yet, and all the calls that may still write its row.
InFlight(o) == {h \in Handler : pc[h] \in PaidStages /\ cur[h] = o}
Writers(o)  == {h \in Handler : pc[h] \in WriteStages /\ cur[h] = o}

\* The order life cycle that the statements implement: whatever the handlers
\* read before and however they fail, the rows change only as OrderLife says.
Life == INSTANCE OrderLife WITH
            stage     <- status,
            delivered <- applied,
            holders   <- [o \in Order |-> Writers(o)]

ImplementsLife == Life!LifeSpec

\* An order that is absent, pending or expired was never paid for, shows no
\* money and delivered nothing; one that shows as paid has paid_at and its
\* price.  Concerns the order of the writes in HandlePaid against the sweep.
RowsAgree ==
    \A o \in Order :
        /\ status[o] \in {"absent", "pending", "expired"} =>
              ~paidAt[o] /\ paidCNY[o] = "zero" /\ applied[o] = 0
        /\ status[o] = "paid" => paidAt[o] /\ paidCNY[o] = "final"
        /\ applied[o] > 0 => paidAt[o]

\* What a running call may rely on: its order's row exists, and once it has
\* marked the order paid, the row is paid or a late CancelOrder overwrote it.
CallsAgree ==
    \A h \in Handler :
        /\ pc[h] \in WriteStages => Exists(cur[h])
        /\ pc[h] \in {"coupon", "apply"} =>
              paidAt[cur[h]] /\ status[cur[h]] \in {"paid", "cancelled"}

\* However the calls interleave and crash, an order's effects are applied at
\* most once for each handler that can run at one time: HandlePaid's check
\* bounds double delivery by the concurrency of the processes.
EffectBudget ==
    \A o \in Order : applied[o] + Cardinality(InFlight(o)) <= Cardinality(Handler)

\* HandlePaid is idempotent: an order's effects are applied at most once.
AppliedAtMostOnce == \A o \in Order : applied[o] <= 1

\* CreateOrder is idempotent over (user, key) also when calls race: all of
\* them are answered with one and the same order, which is the caller's.
IdempotentCreate ==
    \A u \in User, k \in Key :
        /\ Cardinality(answered[<<u, k>>]) <= 1
        /\ \A o \in answered[<<u, k>>] : req[o].user = u /\ req[o].key = k

\* used_count stays within total_quota although QuoteCoupon's test of it and
\* HandlePaid's increment are minutes apart.
CouponWithinQuota == TotalQuota > 0 => couponUsed <= TotalQuota

\* Without faults, each order paid with the coupon is counted in used_count
\* (or is about to be) until the quota is full.
CouponUsesCounted ==
    faults = 0 =>
        \/ TotalQuota > 0 /\ couponUsed = TotalQuota
        \/ couponUsed + Cardinality({h \in Handler : pc[h] = "coupon"})
             >= Cardinality({o \in Order : paidAt[o] /\ req[o].coupon})

\* An order that reached a final status and that no running call has read
\* while it was pending never changes again: not its status, not its money,
\* not what it delivered.
ClosedIsFinal ==
    [][\A o \in Order :
          status[o] \in Final /\ Writers(o) = {} =>
              /\ status'[o] = status[o]
              /\ paidCNY'[o] = paidCNY[o]
              /\ applied'[o] = applied[o]
              /\ Writers(o)' = {}]_vars

\* Every order that waits for payment ends: paid, cancelled or expired.
PendingEnds == \A o \in Order : status[o] = "pending" ~> status[o] \in Final

\* While no handler was lost, an order that was paid delivers its effects.
PaidDelivers == \A o \in Order : paidAt[o] ~> applied[o] > 0 \/ faults > 0

\* CancelOrder cancels a pending order before payment: what is cancelled was
\* not delivered.
CancelledBeforePayment ==
    \A o \in Order : status[o] = "cancelled" => applied[o] = 0
=============================================================================
