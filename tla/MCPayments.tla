----------------------------- MODULE MCPayments -----------------------------
(* Instances of Payments for TLC.                                          *)
EXTENDS Payments, TLC

CONSTANTS o1, o2, h1, h2, u1, k1, k2, a1, a2

PlainRequests ==
    { [user |-> u1, key |-> k, coupon |-> FALSE] : k \in Key }

CouponRequest == { [user |-> u1, key |-> k1, coupon |-> TRUE] }

\* One order: two calls at a time on each channel, with failures, and attempts on
\* both channels; and two orders, a call at a time.
ChannelLoads ==
    { [orders |-> 1, calls |-> 2, channels |-> {"usdt"}, faults |-> TRUE],
      [orders |-> 1, calls |-> 2, channels |-> {"mock"}, faults |-> TRUE],
      [orders |-> 1, calls |-> 2, channels |-> {"mock", "usdt"}, faults |-> FALSE],
      [orders |-> 2, calls |-> 1, channels |-> {"usdt"}, faults |-> TRUE] }

WaitingLoad == { [orders |-> 1, calls |-> 2, channels |-> {"alipay"}, faults |-> FALSE] }

LostLoad == { [orders |-> 1, calls |-> 1, channels |-> {"alipay"}, faults |-> TRUE] }

RefusedLoad == { [orders |-> 2, calls |-> 1, channels |-> {"alipay"}, faults |-> FALSE] }

PaySymmetry == Permutations(Order) \cup Permutations(Handler)
                 \cup Permutations(Key) \cup Permutations(Address)
=============================================================================
