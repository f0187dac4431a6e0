------------------------------ MODULE MCSessions ------------------------------
(* Instances of Sessions, with its clients, for TLC.                       *)
EXTENDS Client, TLC

CONSTANTS w1, w2, u1, c1, c2

Symmetric == Permutations({w1, w2}) \cup Permutations({c1, c2})

\* Guessing against the lockout, what ends sessions, the second factor, a
\* client that two goroutines use, and the command line tool.
FiveMixes == { {"guess"}, {"refresh", "logout", "change"}, {"totp"}, {"client"}, {"cli"} }

\* What the SDK expects, and what AuthRequired answers.
BothCodes == {40101, 4001}
=============================================================================
