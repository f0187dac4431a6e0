---------------------------- MODULE MCUsdtScanner ----------------------------
(* Instances of UsdtScanner for TLC.                                       *)
EXTENDS UsdtScanner, TLC

CONSTANTS t1, t2, w1, w2

\* A young chain, and one on which an earlier scanner got to block 1; each
\* also without a row.
FreshAndUsed == { [head |-> 0, cursor |-> 0], [head |-> 3, cursor |-> 0],
                  [head |-> 3, cursor |-> 1] }
=============================================================================
