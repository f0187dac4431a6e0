------------------------------- MODULE Lockout -------------------------------
(***************************************************************************)
(* The login lockout of internal/risk: a counter of failures and a lock in *)
(* Redis for each address.  Module Sessions calls it from Login.           *)
(*                                                                         *)
(* Keys expire on their own.  A key is kept with the time it has left, and *)
(* RedisTick lets one unit of time pass.  INCR and EXPIRE are two commands,*)
(* so a counter may be without an expiry: for a moment, or for good.       *)
(***************************************************************************)
EXTENDS Integers

CONSTANTS
    User,       \* accounts, each with its address
    Threshold,  \* LoginLockThreshold, 0 = never lock
    Duration,   \* LoginLockDuration, in units of time
    MaxCount    \* bound: a counter that reads more is kept at this

ASSUME LockoutAssumption ==
    /\ Threshold \in Nat
    /\ Duration \in Nat \ {0}
    /\ MaxCount \in Nat
    /\ MaxCount > Threshold

VARIABLES
    fail,  \* the counter: how far it counted and the time it has left
    lock   \* the time the lock has left, 0 = not locked

lockoutVars == <<fail, lock>>

\* A counter without an expiry.
Forever == -1

NoCount == [n |-> 0, left |-> Forever]

LockoutTypeOK ==
    /\ fail \in [User -> [n : 0 .. MaxCount, left : {Forever} \cup 1 .. Duration]]
    /\ \A u \in User : fail[u].n = 0 => fail[u] = NoCount
    /\ lock \in [User -> 0 .. Duration]

LockoutInit ==
    /\ fail = [u \in User |-> NoCount]
    /\ lock = [u \in User |-> 0]

\* PreLogin lets the login go on; IsLocked is one EXISTS.
PreLogin(u) == lock[u] = 0

\* What INCR makes the counter read, which its caller keeps.
Count(u) == IF fail[u].n < MaxCount THEN fail[u].n + 1 ELSE MaxCount

\* IncrFail's INCR.
IncrFail(u) == fail' = [fail EXCEPT ![u].n = Count(u)]

\* IncrFail's EXPIRE, which the first to count sends; nothing without the key.
ExpireFail(u) ==
    fail' = [fail EXCEPT ![u].left = IF fail[u].n = 0 THEN Forever ELSE Duration]

LateReaches(n) == Threshold > 0 /\ n > Threshold

\* RegisterLoginFailure locks on this count.
Reaches(n) == Threshold > 0 /\ n >= Threshold

Lock(u) == lock' = [lock EXCEPT ![u] = Duration]

\* RegisterLoginSuccess: DEL.
ResetFail(u) == fail' = [fail EXCEPT ![u] = NoCount]

\* One unit of time for the keys of Redis.
RedisTick ==
    /\ fail' = [u \in User |-> CASE fail[u].left = Forever -> fail[u]
                                 [] fail[u].left = 1       -> NoCount
                                 [] OTHER -> [fail[u] EXCEPT !.left = @ - 1]]
    /\ lock' = [u \in User |-> IF lock[u] = 0 THEN 0 ELSE lock[u] - 1]
=============================================================================
