------------------------------ MODULE MCSignUp ------------------------------
(* Instances of SignUp for TLC.                                            *)
EXTENDS SignUp, TLC

CONSTANTS w1, w2, e1, e2, s1, s2, c1, c2

Symmetric == Permutations({w1, w2}) \cup Permutations({c1, c2})
=============================================================================
