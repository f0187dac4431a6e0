------------------------------ MODULE MCTraffic ------------------------------
(* Instances of Traffic for TLC.                                           *)
EXTENDS Traffic

CONSTANTS u1, u2, nobody

\* Two agents report at a time, one of them two items of one user.
TwoReports == << <<u1, nobody, u1>>, <<u1>> >>
=============================================================================
