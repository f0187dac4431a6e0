-------------------------------- MODULE MCSla --------------------------------
(* An instance of Sla for TLC.                                             *)
EXTENDS Sla, TLC

CONSTANTS h1, h2, s1, s2

Symmetric == Permutations({h1, h2}) \cup Permutations({s1, s2})

TwoTargets == <<"api", "admin">>
=============================================================================
