------------------------------ MODULE Sessions ------------------------------
(***************************************************************************)
(* Logins and what follows them (internal/user): Login with its lockout,   *)
(* Refresh, Logout, ChangePassword, the middleware that checks an access   *)
(* token, and the second factor (TOTP).                                    *)
(*                                                                         *)
(* One action is one statement on MySQL or one command of Redis; what a    *)
(* request read before is in its record in call, and may be out of date.   *)
(* Passwords and secrets are numbers: the next one is a new one.           *)
(***************************************************************************)
EXTENDS Lockout, FiniteSets, Sequences

CONSTANTS
    Worker,       \* requests that may be under way at one time
    AccessTTL,    \* life of an access token, in units of time
    Skew,         \* AllowedClockSkew: how long a token is accepted after it
    Grace,        \* what Logout adds to the life of the blacklist entry: a minute
    LoginLimit,   \* LoginFailPerIPMin, 0 = any number
    Mixes,        \* bound: the operations beside logins that one behaviour mixes
    MaxSessions,  \* bound: rows of table refresh_tokens
    MaxPassword,  \* bound: passwords an account has had
    MaxSecret,    \* bound: TOTP secrets an account has had
    MaxFaults     \* bound: statements that fail

ASSUME SessionsAssumption ==
    /\ {AccessTTL, Skew, Grace, LoginLimit} \subseteq Nat
    /\ {MaxSessions, MaxSecret, MaxFaults} \subseteq Nat
    /\ MaxPassword \in Nat \ {0}
    /\ IsFiniteSet(Worker)
    /\ "nobody" \notin User

\* The default skew is half a minute.
ASSUME SkewWithinGrace == Skew <= Grace

\* client and cli: all requests come from module Client.
Operations == {"guess", "refresh", "logout", "change", "totp", "client", "cli"}

ASSUME MixesAssumption == Mixes \subseteq SUBSET Operations

VARIABLES
    mix,       \* the operations of this behaviour (never changes)
    user,      \* table users: password, TOTP secret (0 = none), whether it is on
    session,   \* by login: the refresh token's row, and the access token beside it
    tries,     \* logins counted against the caller's IP in this window
    call,      \* each request: its next statement and its locals
    guesses,   \* wrong passwords and codes tried since the last lock, reset or expiry
    proven,    \* secrets that a valid code was given for
    secrets,   \* TOTP secrets made so far
    dropped,   \* accounts whose sessions ChangePassword failed to revoke
    faults     \* statements that failed

sessionVars == <<mix, user, session, tries, proven, secrets, dropped>>
vars == <<fail, lock, mix, user, session, tries, call, guesses, proven, secrets, dropped, faults>>

Stages == {"idle", "rate", "find", "incr", "expire", "lock", "issue", "reset",
           "revokeOne", "revokeAll", "write", "totp"}

\* n: the count a failure reads, or whether the factor was on as a call read it;
\* crossed: a revocation of the account's sessions came while the call ran.
Call == [at : Stages \ {"idle"},
         op : {"login", "refresh", "logout", "change", "enroll", "verify", "disable"},
         user : User, password : 0 .. MaxPassword, code : 0 .. MaxSecret,
         session : Nat, n : Nat, crossed : BOOLEAN]

Idle == [at |-> "idle", op |-> "none", user |-> "nobody", password |-> 0, code |-> 0,
         session |-> 0, n |-> 0, crossed |-> FALSE]

\* password: the one the login behind the session was made with; left: the
\* time the access token has until its exp, below 0 after it; black: the
\* time its blacklist entry has; out: a logout with it wrote that entry.
Session == [user : User, password : 0 .. MaxPassword, live : BOOLEAN, crossed : BOOLEAN,
            left : Int, black : Nat, out : BOOLEAN]

TypeOK ==
    /\ LockoutTypeOK
    /\ mix \in Mixes
    /\ user \in [User -> [password : 1 .. MaxPassword, secret : 0 .. MaxSecret,
                          totp : BOOLEAN]]
    /\ session \in Seq(Session) /\ Len(session) <= MaxSessions + 1
    /\ tries \in Nat
    /\ call \in [Worker -> Call \cup {Idle}]
    /\ guesses \in [User -> Nat]
    /\ proven \in [User -> SUBSET (1 .. MaxSecret)]
    /\ secrets \in [User -> 0 .. MaxSecret]
    /\ dropped \subseteq User
    /\ faults \in 0 .. MaxFaults

Init ==
    /\ LockoutInit
    /\ mix \in Mixes
    /\ user = [u \in User |-> [password |-> 1, secret |-> 0, totp |-> FALSE]]
    /\ session = <<>>
    /\ tries = 0
    /\ call = [w \in Worker |-> Idle]
    /\ guesses = [u \in User |-> 0]
    /\ proven = [u \in User |-> {}]
    /\ secrets = [u \in User |-> 0]
    /\ dropped = {}
    /\ faults = 0

Go(w, stage) == call' = [call EXCEPT ![w].at = stage]

Done(w) == call' = [call EXCEPT ![w] = Idle]

-----------------------------------------------------------------------------
(* Login.                                                                  *)

Asked(u, password, code) ==
    [Idle EXCEPT !.at = "rate", !.op = "login", !.user = u, !.password = password,
                 !.code = code]

\* A login with a password and a TOTP code (0 = none); PreLogin may end it.
LoginStart(w, u, password, code) ==
    /\ call[w].at = "idle"
    /\ PreLogin(u)
    /\ call' = [call EXCEPT ![w] = Asked(u, password, code)]
    /\ UNCHANGED <<lockoutVars, sessionVars, guesses, faults>>

\* Limiter.Allow for the caller's IP counts every login, whatever its end.
LoginRate(w) ==
    /\ call[w].at = "rate"
    /\ IF LoginLimit = 0 THEN Go(w, "find") /\ UNCHANGED tries
       ELSE IF tries < LoginLimit THEN Go(w, "find") /\ tries' = tries + 1
       ELSE Done(w) /\ UNCHANGED tries
    /\ UNCHANGED <<lockoutVars, mix, user, session, proven, secrets, dropped, guesses, faults>>

CheckPassword(u, password) == password = user[u].password

\* ValidateTOTP.
ValidCode(u, code) == code > 0 /\ code = user[u].secret

\* FindByEmail and the checks on its row.  A missing code is refused without
\* being counted, a wrong one counts like a wrong password.
LoginFind(w) ==
    /\ call[w].at = "find"
    /\ LET u == call[w].user
           wrong == \/ ~CheckPassword(u, call[w].password)
                    \/ user[u].totp /\ call[w].code # 0 /\ ~ValidCode(u, call[w].code)
       IN /\ call' = [call EXCEPT ![w] =
                        IF wrong THEN [@ EXCEPT !.at = "incr"]
                        ELSE IF user[u].totp /\ call[w].code = 0 THEN Idle
                        ELSE [@ EXCEPT !.at = "issue"]]
          /\ guesses' = [guesses EXCEPT ![u] = IF wrong THEN @ + 1 ELSE @]
    /\ UNCHANGED <<lockoutVars, sessionVars, faults>>

\* RegisterLoginFailure, command by command.
LoginIncr(w) ==
    /\ call[w].at = "incr"
    /\ LET n == Count(call[w].user)
       IN call' = [call EXCEPT ![w] =
                     IF n = 1 THEN [@ EXCEPT !.at = "expire", !.n = n]
                     ELSE IF Reaches(n) THEN [@ EXCEPT !.at = "lock", !.n = n] ELSE Idle]
    /\ IncrFail(call[w].user)
    /\ UNCHANGED <<lock, sessionVars, guesses, faults>>

LoginExpire(w) ==
    /\ call[w].at = "expire"
    /\ ExpireFail(call[w].user)
    /\ IF Reaches(call[w].n) THEN Go(w, "lock") ELSE Done(w)
    /\ UNCHANGED <<lock, sessionVars, guesses, faults>>

LoginLock(w) ==
    /\ call[w].at = "lock"
    /\ Lock(call[w].user)
    /\ Done(w)
    /\ UNCHANGED <<fail, sessionVars, guesses, faults>>

\* A bound: rows of table refresh_tokens; one is enough for the second factor.
SessionRoom ==
    Len(session) < IF "totp" \in mix THEN 1
                   ELSE IF mix \cap {"client", "cli"} # {} THEN MaxSessions + 1
                   ELSE MaxSessions

\* What a login or a refresh makes: JWT.Issue's access token, with its life
\* before it, and the row of the refresh token beside it.
Issued(c) ==
    [user |-> c.user, password |-> c.password, live |-> TRUE, crossed |-> c.crossed,
     left |-> AccessTTL, black |-> 0, out |-> FALSE]

\* RefreshRepo.Create.
RefreshCreate(row) == session' = Append(session, row)

\* issueTokens.
Issue(w) ==
    /\ call[w].at = "issue"
    /\ SessionRoom
    /\ RefreshCreate(Issued(call[w]))
    /\ IF call[w].op = "login" THEN Go(w, "reset") ELSE Done(w)
    /\ UNCHANGED <<lockoutVars, mix, user, tries, proven, secrets, dropped, guesses, faults>>

\* RegisterLoginSuccess clears the counter; the lock is left to expire.
LoginReset(w) ==
    /\ call[w].at = "reset"
    /\ ResetFail(call[w].user)
    /\ guesses' = [guesses EXCEPT ![call[w].user] = 0]
    /\ Done(w)
    /\ UNCHANGED <<lock, sessionVars, faults>>

-----------------------------------------------------------------------------
(* Sessions.                                                               *)

\* IsActive of the row that was found.
IsActive(i) == session[i].live

\* Refresh with the token of a session.
RefreshFind(w, i) ==
    /\ call[w].at = "idle"
    /\ IsActive(i)
    /\ call' = [call EXCEPT ![w] =
                  [Idle EXCEPT !.at = "revokeOne", !.op = "refresh",
                               !.user = session[i].user, !.session = i,
                               !.password = session[i].password,
                               !.crossed = session[i].crossed]]
    /\ UNCHANGED <<lockoutVars, sessionVars, guesses, faults>>

\* A revocation that finds no row.
NotRevoked(i) == session

Revoked(i) == [session EXCEPT ![i].live = FALSE]

\* Revoke; that the row may be revoked already makes no difference.
RefreshRevoke(w) ==
    /\ call[w].at = "revokeOne"
    /\ session' = Revoked(call[w].session)
    /\ Go(w, "issue")
    /\ UNCHANGED <<lockoutVars, mix, user, tries, proven, secrets, dropped, guesses, faults>>

\* The signature is good, and the token not expired for longer than the skew.
Parse(i) == session[i].left > -Skew

IsRevoked(i) == session[i].black > 0

\* What AuthRequired lets pass while Redis answers.
Accepted(i) == Parse(i) /\ ~IsRevoked(i)

\* AuthRequired drops the error of the look-up: a token on the blacklist passes
\* when Redis fails.
AuthRequired(i) ==
    /\ Parse(i)
    /\ \/ ~IsRevoked(i) /\ UNCHANGED faults
       \/ IsRevoked(i) /\ faults < MaxFaults /\ faults' = faults + 1

BlackUntilExpiry(i) == IF session[i].left > 0 THEN session[i].left ELSE 0

\* The life of the blacklist entry of an access token.
BlackFor(i) == IF session[i].left + Grace > 0 THEN session[i].left + Grace ELSE 0

LoggingOut(i) ==
    [Idle EXCEPT !.at = "revokeAll", !.op = "logout", !.user = session[i].user]

\* Blacklist.Revoke: SET with that life, by the token's id.
Blacklisted(i) == [session EXCEPT ![i].black = BlackFor(i), ![i].out = TRUE]

\* Logout blacklists the access token it was called with.
LogoutBlacklist(w, i) ==
    /\ call[w].at = "idle"
    /\ AuthRequired(i)
    /\ session' = Blacklisted(i)
    /\ call' = [call EXCEPT ![w] = LoggingOut(i)]
    /\ UNCHANGED <<lockoutVars, mix, user, tries, proven, secrets, dropped, guesses>>

\* Logout goes on to the refresh tokens when that SET fails.
LogoutUnlisted(w, i) ==
    /\ call[w].at = "idle"
    /\ Parse(i)
    /\ faults' = faults + IF IsRevoked(i) THEN 2 ELSE 1
    /\ faults' <= MaxFaults
    /\ call' = [call EXCEPT ![w] = LoggingOut(i)]
    /\ UNCHANGED <<lockoutVars, sessionVars, guesses>>

RevokedNone(u) == session

\* RevokeAllForUser.
RevokedAll(u) ==
    [i \in DOMAIN session |-> IF session[i].user = u THEN [session[i] EXCEPT !.live = FALSE]
                              ELSE session[i]]

\* Calls of the account that go on after its sessions are revoked.
Crossing(w, u) ==
    [v \in Worker |-> IF v = w THEN Idle
                      ELSE IF call[v].user = u THEN [call[v] EXCEPT !.crossed = TRUE]
                      ELSE call[v]]

\* The last statement of Logout and of ChangePassword.
RevokeAll(w) ==
    /\ call[w].at = "revokeAll"
    /\ session' = RevokedAll(call[w].user)
    /\ call' = Crossing(w, call[w].user)
    /\ UNCHANGED <<lockoutVars, mix, user, tries, proven, secrets, dropped, guesses, faults>>

\* ChangePassword: the row, and the old password against it.
ChangeFind(w, i, old) ==
    /\ call[w].at = "idle"
    /\ AuthRequired(i)
    /\ CheckPassword(session[i].user, old)
    /\ call' = [call EXCEPT ![w] = [Idle EXCEPT !.at = "write", !.op = "change",
                                                !.user = session[i].user]]
    /\ UNCHANGED <<lockoutVars, sessionVars, guesses>>

ChangeWrite(w) ==
    /\ call[w].at = "write"
    /\ call[w].op = "change"
    /\ user[call[w].user].password < MaxPassword
    /\ user' = [user EXCEPT ![call[w].user].password = @ + 1]
    /\ Go(w, "revokeAll")
    /\ UNCHANGED <<lockoutVars, mix, session, tries, proven, secrets, dropped, guesses, faults>>

\* The refresh token of a session expires.
RefreshExpires ==
    /\ \E i \in DOMAIN session :
         /\ session[i].live
         /\ session' = Revoked(i)
    /\ UNCHANGED <<lockoutVars, mix, user, tries, proven, secrets, dropped, call, guesses, faults>>

-----------------------------------------------------------------------------
(* The second factor.                                                      *)

UpdateTOTP(u, secret, on) ==
    user' = [user EXCEPT ![u].secret = secret, ![u].totp = on]

\* What a call keeps of the row it found.
TotpCall(w, op, i, code) ==
    call' = [call EXCEPT ![w] = [Idle EXCEPT !.at = "totp", !.op = op, !.code = code,
                                 !.user = session[i].user,
                                 !.n = IF user[session[i].user].totp THEN 1 ELSE 0]]

EnrollFindAlways(w, i) ==
    /\ call[w].at = "idle"
    /\ AuthRequired(i)
    /\ TotpCall(w, "enroll", i, 0)
    /\ UNCHANGED <<lockoutVars, sessionVars, guesses>>

\* EnrollTOTP: refused while the factor is on.
EnrollFind(w, i) ==
    /\ call[w].at = "idle"
    /\ AuthRequired(i)
    /\ ~user[session[i].user].totp
    /\ TotpCall(w, "enroll", i, 0)
    /\ UNCHANGED <<lockoutVars, sessionVars, guesses>>

\* UpdateTOTP with a new secret, and off: on whatever row there is by now.
EnrollWrite(w) ==
    /\ call[w].at = "totp"
    /\ call[w].op = "enroll"
    /\ LET u == call[w].user
       IN /\ secrets[u] < MaxSecret
          /\ secrets' = [secrets EXCEPT ![u] = @ + 1]
          /\ UpdateTOTP(u, secrets[u] + 1, FALSE)
    /\ Done(w)
    /\ UNCHANGED <<lockoutVars, mix, session, tries, proven, dropped, guesses, faults>>

\* VerifyTOTP and DisableTOTP check a code against the row they read.
VerifyFind(w, i, code) ==
    /\ call[w].at = "idle"
    /\ AuthRequired(i)
    /\ ValidCode(session[i].user, code)
    /\ TotpCall(w, "verify", i, code)
    /\ proven' = [proven EXCEPT ![session[i].user] = @ \cup {code}]
    /\ UNCHANGED <<lockoutVars, mix, user, session, tries, secrets, dropped, guesses>>

VerifyFlag(w) ==
    /\ call[w].at = "totp"
    /\ call[w].op = "verify"
    /\ user' = [user EXCEPT ![call[w].user].totp = TRUE]
    /\ Done(w)
    /\ UNCHANGED <<lockoutVars, mix, session, tries, proven, secrets, dropped, guesses, faults>>

\* UpdateTOTP with the secret the code was valid for, and on.
VerifyWrite(w) ==
    /\ call[w].at = "totp"
    /\ call[w].op = "verify"
    /\ UpdateTOTP(call[w].user, call[w].code, TRUE)
    /\ Done(w)
    /\ UNCHANGED <<lockoutVars, mix, session, tries, proven, secrets, dropped, guesses, faults>>

DisableFind(w, i, code) ==
    /\ call[w].at = "idle"
    /\ AuthRequired(i)
    /\ user[session[i].user].totp
    /\ ValidCode(session[i].user, code)
    /\ TotpCall(w, "disable", i, code)
    /\ UNCHANGED <<lockoutVars, sessionVars, guesses>>

DisableWrite(w) ==
    /\ call[w].at = "totp"
    /\ call[w].op = "disable"
    /\ UpdateTOTP(call[w].user, 0, FALSE)
    /\ Done(w)
    /\ UNCHANGED <<lockoutVars, mix, session, tries, proven, secrets, dropped, guesses, faults>>

-----------------------------------------------------------------------------
(* Time and failure.                                                       *)

\* A unit of time: keys and tokens grow older, the IP's window ends.
Tick ==
    /\ RedisTick
    /\ guesses' = [u \in User |-> IF lock[u] = 1 \/ fail[u].left = 1 THEN 0 ELSE guesses[u]]
    /\ tries' = 0
    /\ session' = [i \in DOMAIN session |->
                     [session[i] EXCEPT
                        !.left = IF @ <= -Skew THEN @ ELSE @ - 1,
                        !.black = IF @ = 0 THEN 0 ELSE @ - 1]]
    /\ UNCHANGED <<mix, user, proven, secrets, dropped, call, faults>>

\* Where a request goes on after an error: Login ignores those of the limiter
\* and of the lockout, and takes a failing FindByEmail for an unknown address.
AfterError(c) ==
    CASE c.at = "rate"                    -> "find"
      [] c.at = "find"                    -> "incr"
      [] c.at = "expire" /\ Reaches(c.n)  -> "lock"
      [] OTHER                            -> "idle"

\* A statement fails or its process dies.
Fault(w) ==
    /\ call[w].at # "idle"
    /\ faults < MaxFaults
    /\ faults' = faults + 1
    /\ dropped' = IF call[w].at = "revokeAll" /\ call[w].op = "change"
                  THEN dropped \cup {call[w].user} ELSE dropped
    /\ \/ Done(w)
       \/ AfterError(call[w]) # "idle" /\ Go(w, AfterError(call[w]))
    /\ UNCHANGED <<lockoutVars, mix, user, session, tries, proven, secrets, guesses>>

\* Redis fails at the first command of a request: PreLogin lets the login pass.
FirstCommandFails(w) ==
    \/ /\ "guess" \in mix
       /\ call[w].at = "idle"
       /\ faults < MaxFaults
       /\ faults' = faults + 1
       /\ \E u \in User, p \in 1 .. MaxPassword :
            call' = [call EXCEPT ![w] = Asked(u, p, 0)]
       /\ UNCHANGED <<lockoutVars, sessionVars, guesses>>
    \/ "logout" \in mix /\ \E i \in DOMAIN session : LogoutUnlisted(w, i)

LoginStep(w) ==
    \/ LoginRate(w)
    \/ LoginFind(w)
    \/ LoginIncr(w)
    \/ LoginExpire(w)
    \/ LoginLock(w)
    \/ Issue(w)
    \/ LoginReset(w)

\* The HTTP handlers, with what a request may bring.

\* Any password, where guesses are in the mix.
login(w) ==
    \E u \in User, p \in 1 .. MaxPassword, c \in 0 .. MaxSecret :
      /\ "guess" \in mix \/ p = user[u].password
      /\ "totp" \in mix \/ c = 0
      /\ LoginStart(w, u, p, c)

refresh(w) == "refresh" \in mix /\ \E i \in DOMAIN session : RefreshFind(w, i)

logout(w) == "logout" \in mix /\ \E i \in DOMAIN session : LogoutBlacklist(w, i)

changePassword(w) ==
    /\ "change" \in mix
    /\ \E i \in DOMAIN session, old \in 1 .. MaxPassword : ChangeFind(w, i, old)

totpEnroll(w) == "totp" \in mix /\ \E i \in DOMAIN session : EnrollFind(w, i)

totpVerify(w) ==
    /\ "totp" \in mix
    /\ \E i \in DOMAIN session, code \in 1 .. MaxSecret : VerifyFind(w, i, code)

totpDisable(w) ==
    /\ "totp" \in mix
    /\ \E i \in DOMAIN session, code \in 1 .. MaxSecret : DisableFind(w, i, code)

Requests(w) ==
    \/ login(w) \/ refresh(w) \/ logout(w) \/ changePassword(w)
    \/ totpEnroll(w) \/ totpVerify(w) \/ totpDisable(w)

SessionStep(w) ==
    \/ RefreshRevoke(w)
    \/ RevokeAll(w)
    \/ ChangeWrite(w)
    \/ EnrollWrite(w)
    \/ VerifyWrite(w)
    \/ DisableWrite(w)

Next ==
    \/ \E w \in Worker : \/ Requests(w) \/ LoginStep(w) \/ SessionStep(w)
                       \/ Fault(w) \/ FirstCommandFails(w)
    \/ "refresh" \in mix /\ RefreshExpires
    \/ Tick

Spec == Init /\ [][Next]_vars

-----------------------------------------------------------------------------
(* Properties.                                                             *)

\* From one lock, reset or expiry of the counter to the next, an address takes
\* no more wrong passwords and codes than the threshold and the logins that
\* were past PreLogin together, plus one for each count that a failure lost
\* (PreLogin, the check and the count are separate steps of Login).
GuessesBounded ==
    Threshold > 0 =>
      \A u \in User : guesses[u] <= Threshold + Cardinality(Worker) - 1 + faults

\* A refresh token that goes back to an older password lives only while that
\* change of password has its sessions yet to revoke, or when the call that
\* issued it was under way as they were revoked, or when the revocation
\* failed, whose error ChangePassword ignores.
OldPasswordsSessionsEnd ==
    \A i \in DOMAIN session :
      session[i].live /\ session[i].password < user[session[i].user].password
      => \/ session[i].crossed
         \/ session[i].user \in dropped
         \/ \E w \in Worker : /\ call[w].op = "change"
                              /\ call[w].at = "revokeAll"
                              /\ call[w].user = session[i].user

\* While the second factor is on, its secret is one the account's owner gave a
\* valid code for, whatever enrolments ran beside the verification.
SecretInUseWasProven ==
    \A u \in User : user[u].totp => user[u].secret \in proven[u]

\* The second factor goes off by the last statement of a DisableTOTP that gave
\* a valid code, or of an EnrollTOTP that read the row while it was off: no
\* call of EnrollTOTP that begins while it is on can turn it off.  One that began
\* before a VerifyTOTP switched it on does so without a code, where the docs
\* ask for one.
FactorStaysOn ==
    [][\A u \in User : user[u].totp /\ ~user'[u].totp
         => \E w \in Worker :
              /\ call[w].at = "totp" /\ call[w].user = u /\ call'[w] = Idle
              /\ \/ call[w].op = "disable" /\ call[w].code \in proven[u]
                 \/ call[w].op = "enroll" /\ call[w].n = 0]_vars
=============================================================================
