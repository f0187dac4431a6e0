------------------------------ MODULE Payments ------------------------------
(***************************************************************************)
(* internal/payment on top of the order life cycle: CreatePayment, the     *)
(* webhook and the on-chain observation that settle a payment, the USDT    *)
(* address pool, and the sweep of old payments.  A settled payment calls   *)
(* HandlePaid, whose statements are those of Orders, run by the same       *)
(* handler (call.at = "billing" while pc is at work).                      *)
(*                                                                         *)
(* Trade numbers are named by what fixes them: alipay and wechat have one  *)
(* trade per out_trade_no, which is our order number, and tell it in the   *)
(* callback; the mock provider mints one per attempt, at once; a USDT      *)
(* transfer's hash belongs to the attempt whose address the customer saw.  *)
(* Prices are those of the order throughout, so the amounts agree.         *)
(***************************************************************************)
EXTENDS Orders

CONSTANTS
    MaxPayments,  \* bound: rows of the payments table, ids in insertion order
    Channel,      \* the channels with a configured provider
    Address,      \* the seeded USDT addresses
    Loads,        \* bound: what the behaviours of an instance take on
    NoTrade,      \* channel_trade_no = ''
    NoAddress,    \* address = ''
    NoPayment     \* a call that holds no payment

Pay == 1..MaxPayments

QRChannels == {"alipay", "wechat"}

\* orders: how many there are; calls: how many run at one time; channels: those
\* that customers choose; faults: whether statements fail and processes die.
Load == [orders : Nat, calls : Nat, channels : SUBSET Channel, faults : BOOLEAN]

ASSUME PaymentsAssumption ==
    /\ MaxPayments \in Nat
    /\ Channel \subseteq QRChannels \cup {"usdt", "mock"}
    /\ Loads \subseteq Load
    /\ NoPayment \notin Pay
    /\ NoAddress \notin Address
    /\ NoTrade \notin Channel \X (Order \cup Pay)

VARIABLES
    payment,   \* the payments table
    pool,      \* payment_addresses.status
    charged,   \* attempts whose customer paid at the provider or on chain
    acked,     \* charged attempts whose notification we answered with success
    mocked,    \* orders that a call of mock-pay found payable
    load,      \* what this behaviour takes on (never changes)
    call       \* what a handler is doing for this part

\* Customers, and the instance.
worldVars == <<charged, mocked, load>>
payVars == <<payment, pool, acked, worldVars, call>>
allVars == <<vars, payVars>>

Trade == Channel \X (Order \cup Pay)

PaymentType ==
    [status : {"absent", "pending", "paid", "expired"},
     order  : Order \cup {NoOrder},
     chan   : Channel \cup {"none"},
     trade  : Trade \cup {NoTrade},
     addr   : Address \cup {NoAddress},
     live   : BOOLEAN]          \* now < expired_at

NotifyStages == {"lookup", "fallback", "settrade", "mark", "used", "bill", "billing"}

CallType ==
    [at    : {"idle", "create", "insert"} \cup NotifyStages,
     order : Order \cup {NoOrder},
     chan  : Channel \cup {"none"},
     addr  : Address \cup {NoAddress},   \* the address allocated for an INSERT
     pay   : Pay \cup {NoPayment},       \* the row applyVerified works on
     note  : Pay \cup {NoPayment}]       \* the charge it was told about

NoRow  == [status |-> "absent", order |-> NoOrder, chan |-> "none",
           trade |-> NoTrade, addr |-> NoAddress, live |-> TRUE]
NoCall == [at |-> "idle", order |-> NoOrder, chan |-> "none",
           addr |-> NoAddress, pay |-> NoPayment, note |-> NoPayment]

Rows == {p \in Pay : payment[p].status # "absent"}

PayTypeOK ==
    /\ payment \in [Pay -> PaymentType]
    /\ pool \in [Address -> {"free", "allocated", "used"}]
    /\ charged \subseteq Pay
    /\ acked \subseteq charged
    /\ mocked \subseteq Order
    /\ load \in Loads
    /\ call \in [Handler -> CallType]
    /\ \A h \in Handler :
        /\ call[h].at # "idle" => call[h].order \in Order /\ call[h].chan \in Channel
        /\ call[h].at \in NotifyStages => call[h].note \in charged
        /\ call[h].at \in {"settrade", "mark", "used", "bill"} => call[h].pay \in Rows
        /\ call[h].at = "billing" => pc[h] \in PaidStages
        /\ call[h].at \notin {"idle", "billing"} => pc[h] = "idle"

PayInit ==
    /\ Init
    /\ payment = [p \in Pay |-> NoRow]
    /\ pool = [a \in Address |-> "free"]
    /\ charged = {}
    /\ acked = {}
    /\ mocked = {}
    /\ load \in Loads
    /\ call = [h \in Handler |-> NoCall]

-----------------------------------------------------------------------------
(* Queries.                                                                *)

Newest(S) == CHOOSE p \in S : \A q \in S : q <= p

\* The trade number of the customer's payment for attempt p.
TradeOf(p) ==
    <<payment[p].chan, IF payment[p].chan \in QRChannels THEN payment[p].order ELSE p>>

\* Mutant of Active: the status is not looked at.
ActiveAnyStatus(o, c) ==
    {p \in Rows : payment[p].order = o /\ payment[p].chan = c /\ payment[p].live}

\* FindActiveByOrder's WHERE clause.
Active(o, c) ==
    {p \in Rows : /\ payment[p].order = o
                  /\ payment[p].chan = c
                  /\ payment[p].status = "pending"
                  /\ payment[p].live}

\* FindByChannelTradeNo's WHERE clause, also the unique index.
WithTrade(t, c) == {p \in Rows : payment[p].chan = c /\ payment[p].trade = t}

\* FindByAddress's WHERE clause.
Awaiting(a) ==
    {p \in Rows : payment[p].addr = a /\ payment[p].status = "pending"}

Free(h) == pc[h] = "idle" /\ call[h].at = "idle"

\* A handler that takes a call, within the load.
Idle(h) == Free(h) /\ Cardinality({g \in Handler : ~Free(g)}) < load.calls

OrderRoom ==
    Cardinality({o \in Order : Exists(o)})
      + Cardinality({g \in Handler : pc[g] \in CreateStages}) < load.orders

GoOn(h, stage) == call' = [call EXCEPT ![h].at = stage]
HangUp(h) == call' = [call EXCEPT ![h] = NoCall]

\* The handler answers its notification with success.
Acknowledge(h) ==
    /\ acked' = acked \cup {call[h].note}
    /\ HangUp(h)

-----------------------------------------------------------------------------
(* CreatePayment.  When an active attempt is found it is the answer and    *)
(* nothing changes.  The order's status plays no part.                     *)

\* FindActiveByOrder finds none; its error counts as none.
PayFind(h, o, c) ==
    /\ Idle(h)
    /\ Exists(o)
    /\ c \in load.channels
    /\ Active(o, c) = {} \/ load.faults
    /\ Cardinality(Rows)
         + Cardinality({g \in Handler : call[g].at \in {"create", "insert"}}) < MaxPayments
    /\ call' = [call EXCEPT ![h] =
                  [NoCall EXCEPT !.at = "create", !.order = o, !.chan = c]]
    /\ UNCHANGED <<vars, payment, pool, acked, worldVars>>

\* Mutant of ProviderCreate: the address is read and not claimed.
ProviderCreateShares(h) ==
    /\ call[h].at = "create"
    /\ IF call[h].chan # "usdt" THEN GoOn(h, "insert")
       ELSE \E a \in Address :
              /\ pool[a] = "free"
              /\ call' = [call EXCEPT ![h].at = "insert", ![h].addr = a]
    /\ UNCHANGED <<vars, payment, pool, acked, worldVars>>

\* The provider's Create: USDT claims a free address (FOR UPDATE SKIP LOCKED),
\* the others talk to their gateway.  Without a free address it is an error.
ProviderCreate(h) ==
    /\ call[h].at = "create"
    /\ IF call[h].chan # "usdt" THEN GoOn(h, "insert") /\ UNCHANGED pool
       ELSE \/ \E a \in Address :
                 /\ pool[a] = "free"
                 /\ pool' = [pool EXCEPT ![a] = "allocated"]
                 /\ call' = [call EXCEPT ![h].at = "insert", ![h].addr = a]
            \/ /\ \A a \in Address : pool[a] # "free"
               /\ HangUp(h)
               /\ UNCHANGED pool
    /\ UNCHANGED <<vars, payment, acked, worldVars>>

\* The INSERT; the unique (channel, channel_trade_no) covers '' as well, and
\* an address that was claimed stays claimed when the row is refused.
PayInsert(h) ==
    /\ call[h].at = "insert"
    /\ LET p == Cardinality(Rows) + 1
           t == IF call[h].chan = "mock" THEN <<"mock", p>> ELSE NoTrade
       IN  payment' =
             IF WithTrade(t, call[h].chan) # {} THEN payment
             ELSE [payment EXCEPT ![p] =
                     [status |-> "pending", order |-> call[h].order,
                      chan |-> call[h].chan, trade |-> t,
                      addr |-> call[h].addr, live |-> TRUE]]
    /\ HangUp(h)
    /\ UNCHANGED <<vars, pool, acked, worldVars>>

-----------------------------------------------------------------------------
(* HandleNotify, USDTReceived and applyVerified.                           *)

\* The customer pays, within the attempt's window or after it.  A gateway
\* takes money once for one out_trade_no.
Charge(p) ==
    /\ p \in Rows \ charged
    /\ \A q \in charged : TradeOf(q) # TradeOf(p)
    /\ charged' = charged \cup {p}
    /\ UNCHANGED <<vars, payment, pool, acked, mocked, load, call>>

Receive(h, c, o) ==
    /\ Idle(h)
    /\ call' = [call EXCEPT ![h] =
                  [NoCall EXCEPT !.at = "lookup", !.order = o,
                                 !.chan = payment[c].chan, !.note = c]]
    /\ UNCHANGED <<vars, payment, pool, acked, worldVars>>

\* Mutant of HandleNotify: a callback that is not a success goes on.
HandleNotifyAnyState(h, c) ==
    /\ c \in Rows
    /\ payment[c].chan # "usdt"
    /\ Receive(h, c, payment[c].order)

\* A verified webhook with a success status; gateways repeat it at will.
HandleNotify(h, c) ==
    /\ c \in charged
    /\ payment[c].chan # "usdt"
    /\ Receive(h, c, payment[c].order)

\* A Step of the scanner saw the transfer: FindByAddress names the order.  The
\* queue runs Steps side by side, and a later one may see the transfer again.
USDTReceived(h, c) ==
    /\ c \in charged
    /\ payment[c].chan = "usdt"
    /\ Awaiting(payment[c].addr) # {}
    /\ Receive(h, c, payment[Newest(Awaiting(payment[c].addr))].order)

\* Mutants of Lookup: whatever row has the trade, the callback is a repeat; a
\* paid row is worked on again.
LookupAnyStatus(h) ==
    /\ call[h].at = "lookup"
    /\ IF WithTrade(TradeOf(call[h].note), call[h].chan) # {}
       THEN Acknowledge(h)
       ELSE GoOn(h, "fallback") /\ UNCHANGED acked
    /\ UNCHANGED <<vars, payment, pool, worldVars>>
LookupRepeats(h) ==
    /\ call[h].at = "lookup"
    /\ LET found == WithTrade(TradeOf(call[h].note), call[h].chan)
       IN IF found = {} THEN GoOn(h, "fallback")
          ELSE \E p \in found : call' = [call EXCEPT ![h].at = "mark", ![h].pay = p]
    /\ UNCHANGED <<vars, payment, pool, acked, worldVars>>

\* FindByChannelTradeNo; an error counts as not found.
Lookup(h) ==
    /\ call[h].at = "lookup"
    /\ LET found == WithTrade(TradeOf(call[h].note), call[h].chan)
       IN \/ \E p \in found :
               IF payment[p].status = "paid" THEN Acknowledge(h)
               ELSE /\ call' = [call EXCEPT ![h].at = "mark", ![h].pay = p]
                    /\ UNCHANGED acked
          \/ /\ found = {} \/ load.faults
             /\ GoOn(h, "fallback")
             /\ UNCHANGED acked
    /\ UNCHANGED <<vars, payment, pool, worldVars>>

\* FindActiveByOrder; with none the trade number is unknown.
Fallback(h) ==
    /\ call[h].at = "fallback"
    /\ LET active == Active(call[h].order, call[h].chan)
       IN IF active = {} THEN HangUp(h)
          ELSE call' = [call EXCEPT ![h].at = "settrade", ![h].pay = Newest(active)]
    /\ UNCHANGED <<vars, payment, pool, acked, worldVars>>

\* UpdateTradeNo: WHERE id = ? only, and its error is dropped.
SetTradeNo(h) ==
    /\ call[h].at = "settrade"
    /\ LET t == TradeOf(call[h].note)
       IN \/ /\ WithTrade(t, call[h].chan) \subseteq {call[h].pay}
             /\ payment' = [payment EXCEPT ![call[h].pay].trade = t]
          \/ /\ WithTrade(t, call[h].chan) \ {call[h].pay} # {} \/ load.faults
             /\ UNCHANGED payment
    /\ GoOn(h, "mark")
    /\ UNCHANGED <<vars, pool, acked, worldVars>>

\* MarkPaid: WHERE id = ? AND status = pending.  No row is no error; another
\* row with the trade number is one.
MarkPaid(h) ==
    /\ call[h].at = "mark"
    /\ LET p == call[h].pay
           t == TradeOf(call[h].note)
           pending == payment[p].status = "pending"
       IN IF pending /\ WithTrade(t, call[h].chan) \ {p} # {}
          THEN HangUp(h) /\ UNCHANGED payment
          ELSE /\ payment' = IF pending
                             THEN [payment EXCEPT ![p].status = "paid", ![p].trade = t]
                             ELSE payment
               /\ GoOn(h, IF payment[p].addr = NoAddress THEN "bill" ELSE "used")
    /\ UNCHANGED <<vars, pool, acked, worldVars>>

\* MarkUsed; its error is dropped.
MarkUsed(h) ==
    /\ call[h].at = "used"
    /\ \/ pool' = [pool EXCEPT ![payment[call[h].pay].addr] = "used"]
       \/ load.faults /\ UNCHANGED pool
    /\ GoOn(h, "bill")
    /\ UNCHANGED <<vars, payment, acked, worldVars>>

\* Mutant of Bill: the order's status is not looked at.
BillUnchecked(h) ==
    /\ call[h].at = "bill"
    /\ pc' = [pc EXCEPT ![h] = "mark"]
    /\ cur' = [cur EXCEPT ![h] = payment[call[h].pay].order]
    /\ GoOn(h, "billing")
    /\ UNCHANGED <<rowVars, userVars, want, faults, payment, pool, acked, worldVars>>

\* HandlePaid is called: paid already is success, not payable an error, and
\* otherwise the handler goes through the statements of Orders.
Bill(h) ==
    /\ call[h].at = "bill"
    /\ LET o == payment[call[h].pay].order
       IN \/ /\ PaidFind(h, o)
             /\ GoOn(h, "billing")
             /\ UNCHANGED acked
          \/ /\ status[o] = "paid"
             /\ Acknowledge(h)
             /\ UNCHANGED vars
          \/ /\ ~Payable(o)
             /\ status[o] # "paid"
             /\ HangUp(h)
             /\ UNCHANGED <<vars, acked>>
    /\ UNCHANGED <<payment, pool, worldVars>>

\* The statements of HandlePaid; its return is the answer.
Billing(h) ==
    /\ call[h].at = "billing"
    /\ Step(h) \/ PaidCouponFails(h)
    /\ IF pc'[h] = "idle" THEN Acknowledge(h) ELSE UNCHANGED <<acked, call>>
    /\ UNCHANGED <<payment, pool, worldVars>>

-----------------------------------------------------------------------------
(* Time, the sweep, faults and the rest of Orders.                         *)

\* An attempt is created after its order and both windows are 15 minutes
\* long: the attempt's ends no earlier.
PayElapse(p) ==
    /\ p \in Rows
    /\ payment[p].live
    /\ life[payment[p].order] # "live"
    /\ payment' = [payment EXCEPT ![p].live = FALSE]
    /\ UNCHANGED <<vars, pool, acked, worldVars, call>>

\* Mutant of OldPending: the comparison is turned round.
YoungPending == {p \in Rows : payment[p].status = "pending" /\ payment[p].live}

\* ExpirePending's WHERE clause.
OldPending == {p \in Rows : payment[p].status = "pending" /\ ~payment[p].live}

\* Mutant of ExpireOldPending: it releases the addresses, as its comment says.
ExpireAndRelease ==
    /\ OldPending # {}
    /\ payment' = [p \in Pay |-> IF p \in OldPending
                                 THEN [payment[p] EXCEPT !.status = "expired"]
                                 ELSE payment[p]]
    /\ pool' = [a \in Address |-> IF \E p \in OldPending : payment[p].addr = a
                                  THEN "free" ELSE pool[a]]
    /\ UNCHANGED <<vars, acked, worldVars, call>>

\* One UPDATE; the address pool is left alone.
ExpireOldPending ==
    /\ OldPending # {}
    /\ payment' = [p \in Pay |-> IF p \in OldPending
                                 THEN [payment[p] EXCEPT !.status = "expired"]
                                 ELSE payment[p]]
    /\ UNCHANGED <<vars, pool, acked, worldVars, call>>

\* A statement fails and its error is returned, or the process dies.
PayFault(h) ==
    /\ load.faults
    /\ call[h].at # "idle"
    /\ IF call[h].at = "billing" THEN Fault(h) ELSE UNCHANGED vars
    /\ HangUp(h)
    /\ UNCHANGED <<payment, pool, acked, worldVars>>

PayStep(h) ==
    \/ ProviderCreate(h)
    \/ PayInsert(h)
    \/ Lookup(h)
    \/ Fallback(h)
    \/ SetTradeNo(h)
    \/ MarkPaid(h)
    \/ MarkUsed(h)
    \/ Bill(h)
    \/ Billing(h)

\* MockPay: HandlePaid for an order, without a payment.
MockPay(h, o) ==
    /\ Idle(h)
    /\ PaidFind(h, o)
    /\ mocked' = mocked \cup {o}
    /\ UNCHANGED <<payment, pool, acked, charged, load, call>>

\* CreateOrder, CancelOrder, and their statements and MockPay's.
OrderCall(h) ==
    /\ call[h].at = "idle"
    /\ \/ /\ Idle(h)
          /\ \/ \E r \in Request : CreateFindHit(h, r) \/ CreateFindFails(h, r)
             \/ OrderRoom /\ \E r \in Request : CreateFindMiss(h, r)
             \/ \E o \in Order : CancelFind(h, o)
       \/ Step(h) \/ QuoteCountFails(h) \/ PaidCouponFails(h) \/ Fault(h)
    /\ UNCHANGED payVars

Background ==
    /\ ExpirePending \/ \E o \in Order : Elapse(o)
    /\ UNCHANGED payVars

PayNext ==
    \/ \E h \in Handler :
        \/ OrderCall(h)
        \/ \E o \in Order : MockPay(h, o)
        \/ \E o \in Order, c \in Channel : PayFind(h, o, c)
        \/ \E c \in Pay : HandleNotify(h, c) \/ USDTReceived(h, c)
        \/ PayStep(h)
        \/ PayFault(h)
    \/ \E p \in Pay : Charge(p) \/ PayElapse(p)
    \/ ExpireOldPending
    \/ Background

PaySpec == PayInit /\ [][PayNext]_allVars

\* Handlers go on, a free goroutine always takes the gateway's next repeat of
\* a notification that was not answered with success, and the sweep runs.
\* Time need not pass.
PayFairness ==
    /\ \A h \in Handler : WF_allVars(PayStep(h)) /\ WF_allVars(OrderCall(h) /\ Step(h))
    /\ \A c \in Pay : SF_allVars(c \notin acked /\ \E h \in Handler : HandleNotify(h, c))
    /\ WF_allVars(ExpireOldPending)

FairPaySpec == PaySpec /\ PayFairness

-----------------------------------------------------------------------------
(* Properties.                                                             *)

\* Payments drive the orders only through the statements of Orders: what holds
\* of every behaviour of Orders holds below the payments.
RefinesOrders == Spec

\* A payment is paid with the trade of a customer who paid for the payment's
\* own order, also when attempts, addresses and callbacks come late.
MoneyGoesToPayer ==
    \A p \in Rows : payment[p].status = "paid" =>
        \E c \in charged : /\ payment[p].trade = TradeOf(c)
                           /\ payment[p].order = payment[c].order

\* An order is paid only if its customer paid at a provider or somebody called
\* mock-pay for it, whatever callbacks come for other orders and attempts.
OrdersPaidByMoney ==
    \A o \in Order : paidAt[o] =>
        o \in mocked \/ \E c \in charged : payment[c].order = o

\* A provider is told success only when the order is paid or one of its attempts
\* on that channel is on record as paid: money we accepted is never known to
\* nobody.  The record may be of another transfer of the same customer: see below.
AckMeansRecorded ==
    \A c \in acked : \/ paidAt[payment[c].order]
                     \/ \E p \in Rows : /\ payment[p].status = "paid"
                                        /\ payment[p].order = payment[c].order
                                        /\ payment[p].chan = payment[c].chan

\* An address serves one attempt for good: no two attempts and claims under way
\* ever hold the same one, and none that was claimed is free again, whether its
\* attempt was paid, expired or refused.  (ExpireOldPending's comment says that
\* it is released; then money that comes late would be the next customer's.)
AddressesUsedOnce ==
    /\ \A p, q \in Rows :
          payment[p].addr = payment[q].addr /\ payment[p].addr # NoAddress => p = q
    /\ \A h \in Handler : call[h].addr # NoAddress =>
          /\ \A p \in Rows : payment[p].addr # call[h].addr
          /\ \A g \in Handler \ {h} : call[g].addr # call[h].addr
    /\ \A p \in Rows : payment[p].addr # NoAddress => pool[payment[p].addr] # "free"

\* Handler h is about to write a trade number to row p.
Renaming(h, p) == call[h].at = "settrade" /\ call[h].pay = p

\* A paid payment keeps all it records but for one case: a handler that picked
\* a USDT attempt while it was pending may still write the hash of its own
\* transfer over that of the transfer that paid.  No handler comes to a row
\* that is paid already, and on the other channels nothing changes.
PaidPaymentIsKept ==
    [][\A p \in Pay : payment[p].status = "paid" =>
          /\ [payment'[p] EXCEPT !.live = TRUE, !.trade = NoTrade]
               = [payment[p] EXCEPT !.live = TRUE, !.trade = NoTrade]
          /\ \A h \in Handler : Renaming(h, p)' => Renaming(h, p)
          /\ payment'[p].trade # payment[p].trade =>
               /\ payment[p].chan = "usdt"
               /\ \E h \in Handler : /\ Renaming(h, p)
                                     /\ ~Renaming(h, p)'
                                     /\ payment'[p].trade = TradeOf(call[h].note)]_allVars

\* While an attempt's window is open, a customer's payment through a webhook
\* is in the end answered with success, however handlers interleave.
PaidInTimeIsAcked ==
    \A c \in Pay :
        (c \in charged /\ payment[c].chan # "usdt")
            ~> (c \in acked \/ ~payment[c].live)

\* A pending attempt whose window is over is settled by the sweep or a payment.
OldAttemptsEnd ==
    \A p \in Pay : (p \in OldPending) ~> payment[p].status \in {"paid", "expired"}

\* channel_trade_no is empty until the callback fills it in: a new attempt
\* through a QR channel is stored whatever other attempts are waiting.
NewAttemptIsStored ==
    \A h \in Handler : call[h].at = "insert" /\ call[h].chan \in QRChannels
                          => WithTrade(NoTrade, call[h].chan) = {}

\* Repeated notifications make up for a failure: a charge that was answered
\* with success is delivered or is being delivered.
AckMeansDelivered ==
    \A c \in acked : LET o == payment[c].order
                     IN  applied[o] > 0 \/ InFlight(o) # {}
=============================================================================
