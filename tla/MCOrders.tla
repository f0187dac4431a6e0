------------------------------ MODULE MCOrders ------------------------------
(* Instances of Orders for TLC.                                            *)
EXTENDS Orders

CONSTANTS o1, o2, h1, h2, u1, k1, k2

\* One user sends two requests with the coupon, each as often as a retrying
\* client or a second tab may send it.
RacingRequests ==
    { [user |-> u1, key |-> k1, coupon |-> TRUE],
      [user |-> u1, key |-> k2, coupon |-> TRUE] }
=============================================================================
