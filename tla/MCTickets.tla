------------------------------ MODULE MCTickets ------------------------------
(* Instances of Tickets for TLC.                                           *)
EXTENDS Tickets, TLC

CONSTANTS w1, w2, u1, u2, s1

ReachableStatuses == {"resolved", "closed"}

\* One priority that counts and one that does not.
SomePriorities == {"high", "soon"}

\* Columns alone and together, and a priority that is ignored.
SomePatches == {[NoPatch EXCEPT !.status = "resolved"],
                [NoPatch EXCEPT !.status = "closed", !.assignee = s1],
                [NoPatch EXCEPT !.priority = "soon"]}

Symmetric == Permutations({w1, w2}) \cup Permutations({u1, u2})
=============================================================================
