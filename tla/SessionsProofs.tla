---------------------------- MODULE SessionsProofs ----------------------------
(***************************************************************************)
(* Proofs about Sessions and Client for every set of accounts, requests    *)
(* and goroutines, every threshold, life, skew and bound: what is proved   *)
(* of ClientSpec holds of the server by itself and with its clients.       *)
(***************************************************************************)
EXTENDS Client, FiniteSetTheorems, TLAPS

-----------------------------------------------------------------------------
(* The server's steps, whoever asks for them.                              *)

\* A request begins with whatever session, password and TOTP code.
Begins(w) ==
    \/ \E u \in User, p \in 1 .. MaxPassword, k \in 0 .. MaxSecret : LoginStart(w, u, p, k)
    \/ \E i \in DOMAIN session : RefreshFind(w, i)
    \/ \E i \in DOMAIN session : LogoutBlacklist(w, i)
    \/ \E i \in DOMAIN session, old \in 1 .. MaxPassword : ChangeFind(w, i, old)
    \/ \E i \in DOMAIN session : EnrollFind(w, i)
    \/ \E i \in DOMAIN session, k \in 1 .. MaxSecret : VerifyFind(w, i, k)
    \/ \E i \in DOMAIN session, k \in 1 .. MaxSecret : DisableFind(w, i, k)

\* A message between a client and the server is lost.
MessageLost ==
    /\ faults < MaxFaults
    /\ faults' = faults + 1
    /\ UNCHANGED <<lockoutVars, sessionVars, call, guesses>>

ServerMove ==
    \/ \E w \in Worker : \/ Begins(w) \/ LoginStep(w) \/ SessionStep(w)
                         \/ Fault(w) \/ FirstCommandFails(w)
    \/ RefreshExpires
    \/ Tick
    \/ MessageLost

-----------------------------------------------------------------------------
(* Types.                                                                  *)

Users == [password : 1 .. MaxPassword, secret : 0 .. MaxSecret, totp : BOOLEAN]

Turn(w, x) == call' = [call EXCEPT ![w] = x]

\* A request that is under way has all its fields.
LEMMA CallTyped ==
  ASSUME TypeOK, NEW w \in Worker
  PROVE  /\ call[w] \in Call \cup {Idle}
         /\ call[w].at # "idle" => call[w] \in Call
         /\ call[w].at = "idle" => call[w] = Idle
BY DEF TypeOK, Call, Idle

\* A session has all its fields.
LEMMA RowTyped ==
  ASSUME TypeOK, NEW i \in DOMAIN session
  PROVE  session[i] \in Session /\ i \in 1 .. Len(session)
BY DEF TypeOK

LEMMA TurnTyped ==
  ASSUME TypeOK, NEW w \in Worker, NEW x \in Call \cup {Idle}, Turn(w, x)
  PROVE  /\ call' \in [Worker -> Call \cup {Idle}]
         /\ call'[w] = x
         /\ \A v \in Worker : v # w => call'[v] = call[v]
BY DEF TypeOK, Turn

\* Going on, or ending, is a turn.
LEMMA GoTurn ==
  ASSUME TypeOK, NEW w \in Worker, call[w].at # "idle",
         NEW s \in Stages \ {"idle"}, Go(w, s)
  PROVE  /\ [call[w] EXCEPT !.at = s] \in Call
         /\ Turn(w, [call[w] EXCEPT !.at = s])
<1>1. call[w] \in Call
  BY CallTyped
<1>2. [call[w] EXCEPT !.at = s] \in Call
  BY <1>1 DEF Call
<1>3. QED
  BY <1>2 DEF Go, Turn, TypeOK

LEMMA DoneTurn ==
  ASSUME NEW w \in Worker, Done(w)
  PROVE  Turn(w, Idle) /\ Idle \in Call \cup {Idle}
BY DEF Done, Turn

LEMMA IdleTyped ==
  Idle \in [at : Stages,
            op : {"none", "login", "refresh", "logout", "change", "enroll", "verify", "disable"},
            user : User \cup {"nobody"}, password : 0 .. MaxPassword, code : 0 .. MaxSecret,
            session : Nat, n : Nat, crossed : BOOLEAN]
BY SessionsAssumption DEF SessionsAssumption, Idle, Stages

LEMMA Bounds ==
  /\ 0 \in 0 .. MaxPassword /\ 0 \in 0 .. MaxSecret /\ 0 \in Nat /\ 1 \in Nat
  /\ 1 .. MaxSecret \subseteq 0 .. MaxSecret /\ 1 .. MaxPassword \subseteq 0 .. MaxPassword
BY SessionsAssumption DEF SessionsAssumption

\* A login begins where PreLogin lets it or fails; another request, with what it
\* read of its session and its account.
BeginsAs(w, x) ==
    \/ x.at = "rate" /\ (PreLogin(x.user) \/ FirstCommandFails(w))
    \/ x.at \in {"revokeAll", "write"}
    \/ \E i \in DOMAIN session :
         \/ /\ x.at = "revokeOne" /\ RefreshFind(w, i)
            /\ x.user = session[i].user /\ x.password = session[i].password
            /\ x.crossed = session[i].crossed
         \/ /\ x.at = "totp" /\ x.user = session[i].user
            /\ \/ EnrollFind(w, i) /\ x.op = "enroll" /\ x.n = 0
               \/ VerifyFind(w, i, x.code) /\ x.op = "verify"
               \/ DisableFind(w, i, x.code) /\ x.op = "disable"

LEMMA AskedTyped ==
  ASSUME NEW u \in User, NEW p \in 1 .. MaxPassword, NEW k \in 0 .. MaxSecret
  PROVE  /\ Asked(u, p, k) \in Call
         /\ Asked(u, p, k).at = "rate" /\ Asked(u, p, k).user = u
<1>1. p \in 0 .. MaxPassword
  BY Bounds
<1>2. QED
  BY <1>1, IdleTyped DEF Asked, Call, Stages

LEMMA LoggingOutTyped ==
  ASSUME TypeOK, NEW i \in DOMAIN session
  PROVE  /\ session[i].user \in User
         /\ LoggingOut(i) \in Call /\ LoggingOut(i).at = "revokeAll"
BY RowTyped, IdleTyped DEF Session, LoggingOut, Call, Stages

LEMMA TotpTurn ==
  ASSUME TypeOK, NEW w \in Worker, NEW op \in {"enroll", "verify", "disable"},
         NEW i \in DOMAIN session, NEW k \in 0 .. MaxSecret, TotpCall(w, op, i, k)
  PROVE  \E x \in Call : /\ Turn(w, x)
                         /\ x.at = "totp" /\ x.op = op /\ x.code = k /\ x.user = session[i].user
                         /\ ~user[session[i].user].totp => x.n = 0
<1> DEFINE n == IF user[session[i].user].totp THEN 1 ELSE 0
           x == [Idle EXCEPT !.at = "totp", !.op = op, !.code = k,
                             !.user = session[i].user, !.n = n]
<1>1. Turn(w, x)
  BY DEF TotpCall, Turn
<1>2. n \in Nat /\ (~user[session[i].user].totp => n = 0)
  OBVIOUS
<1> HIDE DEF n
<1>3. /\ x \in Call /\ x.at = "totp" /\ x.op = op /\ x.code = k /\ x.user = session[i].user
      /\ x.n = n
  BY <1>2, LoggingOutTyped, IdleTyped DEF Call, Stages
<1> HIDE DEF x
<1>4. QED
  BY <1>1, <1>2, <1>3

\* A request begins in the turn of its worker.
LEMMA BeginTurn ==
  ASSUME TypeOK, NEW w \in Worker, Begins(w) \/ FirstCommandFails(w)
  PROVE  /\ call[w].at = "idle"
         /\ \E x \in Call : Turn(w, x) /\ BeginsAs(w, x)
<1> DEFINE Goal == \E x \in Call : Turn(w, x) /\ BeginsAs(w, x)
<1>1. ASSUME NEW i \in DOMAIN session, RefreshFind(w, i)
      PROVE  Goal
  <2> DEFINE row == session[i]
             x == [Idle EXCEPT !.at = "revokeOne", !.op = "refresh", !.user = row.user,
                               !.session = i, !.password = row.password,
                               !.crossed = row.crossed]
  <2>1. Turn(w, x)
    BY <1>1 DEF RefreshFind, Turn
  <2>2. row \in Session /\ i \in Nat
    BY RowTyped
  <2> HIDE DEF row
  <2>3. /\ x \in Call /\ x.at = "revokeOne" /\ x.user = row.user /\ x.password = row.password
        /\ x.crossed = row.crossed
    BY <2>2, IdleTyped DEF Call, Stages, Session
  <2> HIDE DEF x
  <2>4. BeginsAs(w, x)
    BY <1>1, <2>3 DEF BeginsAs, row
  <2>5. QED
    BY <2>1, <2>3, <2>4
<1>2. ASSUME NEW i \in DOMAIN session, NEW old \in 1 .. MaxPassword, ChangeFind(w, i, old)
      PROVE  Goal
  <2> DEFINE x == [Idle EXCEPT !.at = "write", !.op = "change", !.user = session[i].user]
  <2>1. Turn(w, x)
    BY <1>2 DEF ChangeFind, Turn
  <2>2. x \in Call /\ x.at = "write"
    BY LoggingOutTyped, IdleTyped DEF Call, Stages
  <2> HIDE DEF x
  <2>3. QED
    BY <2>1, <2>2 DEF BeginsAs
<1>3. ASSUME NEW i \in DOMAIN session, EnrollFind(w, i)
      PROVE  Goal
  <2>1. TotpCall(w, "enroll", i, 0) /\ ~user[session[i].user].totp
    BY <1>3 DEF EnrollFind
  <2>2. PICK x \in Call : /\ Turn(w, x) /\ x.at = "totp" /\ x.op = "enroll"
                          /\ x.user = session[i].user /\ x.n = 0
    BY <2>1, TotpTurn, Bounds
  <2>3. QED
    BY <1>3, <2>2 DEF BeginsAs
<1>4. ASSUME NEW i \in DOMAIN session, NEW k \in 1 .. MaxSecret,
             VerifyFind(w, i, k) \/ DisableFind(w, i, k)
      PROVE  Goal
  <2>1. PICK op \in {"verify", "disable"} :
          /\ TotpCall(w, op, i, k)
          /\ op = "verify" => VerifyFind(w, i, k)
          /\ op = "disable" => DisableFind(w, i, k)
    BY <1>4 DEF VerifyFind, DisableFind
  <2>2. PICK x \in Call : /\ Turn(w, x) /\ x.at = "totp" /\ x.op = op
                          /\ x.user = session[i].user /\ x.code = k
    BY <2>1, TotpTurn, Bounds
  <2>3. QED
    BY <2>1, <2>2 DEF BeginsAs
<1>5. ASSUME NEW u \in User, NEW p \in 1 .. MaxPassword, NEW k \in 0 .. MaxSecret,
             Turn(w, Asked(u, p, k)), PreLogin(u) \/ FirstCommandFails(w)
      PROVE  Goal
  BY <1>5, AskedTyped DEF BeginsAs
<1>6. ASSUME NEW i \in DOMAIN session, Turn(w, LoggingOut(i))
      PROVE  Goal
  BY <1>6, LoggingOutTyped DEF BeginsAs
<1>7. CASE Begins(w)
  <2>1. Goal
    BY <1>1, <1>2, <1>3, <1>4, <1>5, <1>6, <1>7 DEF Begins, LoginStart, LogoutBlacklist, Turn
  <2>2. call[w].at = "idle"
    BY <1>7 DEF Begins, LoginStart, RefreshFind, LogoutBlacklist, ChangeFind, EnrollFind,
       VerifyFind, DisableFind
  <2>3. QED
    BY <2>1, <2>2
<1>8. CASE FirstCommandFails(w)
  BY <1>5, <1>6, <1>8, Bounds DEF FirstCommandFails, LogoutUnlisted, Turn
<1>9. QED
  BY <1>7, <1>8

\* It keeps whose it is, of which operation, and what it brought; it issues
\* tokens after its password was checked or its session revoked, and revokes
\* all sessions after a change of password.
GoesOnAs(w, x) ==
    /\ x.op = call[w].op /\ x.user = call[w].user /\ x.code = call[w].code
    /\ x.password = call[w].password /\ x.session = call[w].session
    /\ x.crossed = call[w].crossed
    /\ x.at \notin {"rate", "revokeOne", "write", "totp"}
    /\ x.at = "issue" => \/ RefreshRevoke(w)
                         \/ LoginFind(w) /\ CheckPassword(call[w].user, call[w].password)
    /\ x.at = "revokeAll" => ChangeWrite(w)
    /\ x.at = "reset" => Issue(w)

\* A request that goes on does it in the turn of its worker.
LEMMA GoesOnTurn ==
  ASSUME TypeOK, NEW w \in Worker, LoginStep(w) \/ SessionStep(w) \/ Fault(w)
  PROVE  /\ call[w].at # "idle"
         /\ \/ RevokeAll(w)
            \/ \E x \in Call \cup {Idle} : Turn(w, x) /\ (x = Idle \/ GoesOnAs(w, x))
<1> DEFINE Goal == \E x \in Call \cup {Idle} : Turn(w, x) /\ (x = Idle \/ GoesOnAs(w, x))
<1>1. call[w].at # "idle"
  BY DEF LoginStep, SessionStep, Fault, LoginRate, LoginFind, LoginIncr, LoginExpire,
     LoginLock, Issue, LoginReset, RefreshRevoke, RevokeAll, ChangeWrite, EnrollWrite,
     VerifyWrite, DisableWrite
<1>2. call[w] \in Call
  BY <1>1, CallTyped
<1>3. ASSUME NEW x \in Call \cup {Idle}, Turn(w, x), x = Idle \/ GoesOnAs(w, x)
      PROVE  Goal
  BY <1>3
<1>4. ASSUME Done(w) PROVE Goal
  BY <1>4, DoneTurn
<1>5. ASSUME NEW s \in {"find", "issue", "expire", "incr", "lock", "reset", "revokeAll"},
             Go(w, s), s = "issue" => RefreshRevoke(w), s = "revokeAll" => ChangeWrite(w),
             s = "reset" => Issue(w)
      PROVE  Goal
  <2>1. s \in Stages \ {"idle"}
    BY DEF Stages
  <2>2. GoesOnAs(w, [call[w] EXCEPT !.at = s])
    BY <1>2, <1>5 DEF Call, GoesOnAs
  <2>3. QED
    BY <1>1, <1>3, <1>5, <2>1, <2>2, GoTurn
<1>6. ASSUME LoginFind(w) PROVE Goal
  <2> DEFINE issue == [call[w] EXCEPT !.at = "issue"]
             incr == [call[w] EXCEPT !.at = "incr"]
  <2>1. incr \in Call /\ issue \in Call
    BY <1>2 DEF Call, Stages
  <2>2. \/ Turn(w, incr)
        \/ Turn(w, Idle)
        \/ Turn(w, issue) /\ CheckPassword(call[w].user, call[w].password)
    BY <1>6 DEF LoginFind, Turn, TypeOK
  <2>3. GoesOnAs(w, incr)
    BY <1>2 DEF Call, GoesOnAs
  <2>4. CheckPassword(call[w].user, call[w].password) => GoesOnAs(w, issue)
    BY <1>2, <1>6 DEF Call, GoesOnAs
  <2> HIDE DEF Goal, incr, issue
  <2>5. QED
    BY <1>3, <2>1, <2>2, <2>3, <2>4
<1>7. ASSUME LoginIncr(w) PROVE Goal
  <2> DEFINE n == Count(call[w].user)
             x(s) == [call[w] EXCEPT !.at = s, !.n = n]
  <2>1. n \in Nat
    BY <1>2, LockoutAssumption DEF LockoutAssumption, Count, TypeOK, LockoutTypeOK, Call
  <2>2. Turn(w, x("expire")) \/ Turn(w, x("lock")) \/ Turn(w, Idle)
    BY <1>7 DEF LoginIncr, Turn, TypeOK
  <2> HIDE DEF n
  <2>3. ASSUME NEW s \in {"expire", "lock"}
        PROVE  x(s) \in Call /\ GoesOnAs(w, x(s))
    BY <1>2, <2>1 DEF Call, Stages, GoesOnAs
  <2> HIDE DEF x, Goal
  <2>4. QED
    BY <1>3, <2>2, <2>3
<1>8. ASSUME Fault(w) PROVE Goal
  <2>1. AfterError(call[w]) \in {"find", "incr", "lock", "idle"}
    BY DEF AfterError
  <2>2. QED
    BY <1>4, <1>5, <1>8, <2>1 DEF Fault
<1>9. ASSUME LoginRate(w) \/ LoginExpire(w) PROVE Goal
  BY <1>4, <1>5, <1>9 DEF LoginRate, LoginExpire
<1>10. ASSUME \/ LoginLock(w) \/ LoginReset(w)
              \/ EnrollWrite(w) \/ VerifyWrite(w) \/ DisableWrite(w)
       PROVE  Goal
  BY <1>4, <1>10 DEF LoginLock, LoginReset, EnrollWrite, VerifyWrite, DisableWrite
<1>11. ASSUME Issue(w) PROVE Goal
  BY <1>4, <1>5, <1>11 DEF Issue
<1>12. ASSUME RefreshRevoke(w) \/ ChangeWrite(w) PROVE Goal
  BY <1>5, <1>12 DEF RefreshRevoke, ChangeWrite
<1>13. QED
  BY <1>1, <1>6, <1>7, <1>8, <1>9, <1>10, <1>11, <1>12 DEF LoginStep, SessionStep

\* A revocation of all sessions marks the other calls of the account.
LEMMA CrossingTyped ==
  ASSUME TypeOK, NEW w \in Worker, RevokeAll(w)
  PROVE  /\ call' \in [Worker -> Call \cup {Idle}]
         /\ call'[w] = Idle
         /\ \A v \in Worker : v # w =>
              \/ call'[v] = call[v] /\ call[v].user # call[w].user
              \/ /\ call[v].user = call[w].user /\ call[v] \in Call
                 /\ call'[v] = [call[v] EXCEPT !.crossed = TRUE]
<1>1. call[w] \in Call
  BY CallTyped DEF RevokeAll
<1>2. call' = Crossing(w, call[w].user)
  BY DEF RevokeAll
<1>3. ASSUME NEW v \in Worker, v # w, call[v].user = call[w].user
      PROVE  call[v] \in Call /\ [call[v] EXCEPT !.crossed = TRUE] \in Call
  <2>1. call[v] # Idle
    BY <1>1, <1>3, SessionsAssumption DEF SessionsAssumption, Idle, Call
  <2>2. QED
    BY <2>1, CallTyped DEF Call
<1>4. QED
  BY <1>1, <1>2, <1>3, CallTyped DEF Crossing

LEMMA CallTypeStep == TypeOK /\ ServerMove => call' \in [Worker -> Call \cup {Idle}]
<1> SUFFICES ASSUME TypeOK, ServerMove PROVE call' \in [Worker -> Call \cup {Idle}]
  OBVIOUS
<1>1. ASSUME NEW w \in Worker, Begins(w) \/ FirstCommandFails(w)
      PROVE  call' \in [Worker -> Call \cup {Idle}]
  BY <1>1, BeginTurn, TurnTyped
<1>2. ASSUME NEW w \in Worker, LoginStep(w) \/ SessionStep(w) \/ Fault(w)
      PROVE  call' \in [Worker -> Call \cup {Idle}]
  BY <1>2, GoesOnTurn, TurnTyped, CrossingTyped
<1>3. ASSUME UNCHANGED call
      PROVE  call' \in [Worker -> Call \cup {Idle}]
  BY <1>3 DEF TypeOK
<1>4. QED
  BY <1>1, <1>2, <1>3 DEF ServerMove, RefreshExpires, Tick, MessageLost

\* Only these steps touch the table of sessions.
LEMMA SessionSteps ==
  ASSUME ServerMove
  PROVE  \/ UNCHANGED session
         \/ \E w \in Worker : \/ Issue(w) \/ RefreshRevoke(w) \/ RevokeAll(w)
                              \/ \E i \in DOMAIN session : LogoutBlacklist(w, i)
         \/ RefreshExpires
         \/ Tick
<1>1. ASSUME NEW w \in Worker, Begins(w)
      PROVE  UNCHANGED session \/ \E i \in DOMAIN session : LogoutBlacklist(w, i)
  BY <1>1 DEF Begins, LoginStart, RefreshFind, ChangeFind, EnrollFind, VerifyFind,
     DisableFind, sessionVars
<1>2. ASSUME NEW w \in Worker, LoginStep(w)
      PROVE  UNCHANGED session \/ Issue(w)
  BY <1>2 DEF LoginStep, LoginRate, LoginFind, LoginIncr, LoginExpire, LoginLock, LoginReset,
     sessionVars
<1>3. ASSUME NEW w \in Worker, SessionStep(w)
      PROVE  UNCHANGED session \/ RefreshRevoke(w) \/ RevokeAll(w)
  BY <1>3 DEF SessionStep, ChangeWrite, EnrollWrite, VerifyWrite, DisableWrite
<1>4. ASSUME NEW w \in Worker, Fault(w) \/ FirstCommandFails(w)
      PROVE  UNCHANGED session
  BY <1>4 DEF Fault, FirstCommandFails, LogoutUnlisted, sessionVars
<1>5. MessageLost => UNCHANGED session
  BY DEF MessageLost, sessionVars
<1>6. QED
  BY <1>1, <1>2, <1>3, <1>4, <1>5 DEF ServerMove

Sequel(f, i) ==
    /\ f[i] \in Session
    /\ f[i].user = session[i].user /\ f[i].password = session[i].password
    /\ f[i].crossed = session[i].crossed
    /\ f[i].live => session[i].live

LEMMA TableTyped ==
  ASSUME TypeOK, NEW f, DOMAIN f = DOMAIN session, \A i \in DOMAIN session : f[i] \in Session,
         f = [i \in DOMAIN session |-> f[i]]
  PROVE  f \in Seq(Session) /\ Len(f) = Len(session)
<1>1. session \in Seq(Session) /\ DOMAIN session = 1 .. Len(session) /\ Len(session) \in Nat
  BY DEF TypeOK
<1>2. f \in [1 .. Len(session) -> Session]
  BY <1>1
<1>3. QED
  BY <1>1, <1>2

LEMMA RevokedSequel ==
  ASSUME TypeOK, NEW j
  PROVE  /\ Revoked(j) = [i \in DOMAIN session |-> Revoked(j)[i]]
         /\ \A i \in DOMAIN session :
              /\ Sequel(Revoked(j), i)
              /\ Revoked(j)[i].left = session[i].left /\ Revoked(j)[i].black = session[i].black
              /\ Revoked(j)[i].out = session[i].out
              /\ i # j => Revoked(j)[i] = session[i]
              /\ i = j => ~Revoked(j)[i].live
<1>1. Revoked(j) = [i \in DOMAIN session |->
                      IF i = j THEN [session[i] EXCEPT !.live = FALSE] ELSE session[i]]
  BY DEF Revoked
<1>2. \A i \in DOMAIN session :
        Revoked(j)[i] = IF i = j THEN [session[i] EXCEPT !.live = FALSE] ELSE session[i]
  BY <1>1
<1>3. \A i \in DOMAIN session : session[i] \in Session
  BY RowTyped
<1>4. Revoked(j) = [i \in DOMAIN session |-> Revoked(j)[i]]
  BY <1>1
<1>5. QED
  BY <1>2, <1>3, <1>4 DEF Sequel, Session

LEMMA RevokedAllSequel ==
  ASSUME TypeOK, NEW u
  PROVE  /\ RevokedAll(u) = [i \in DOMAIN session |-> RevokedAll(u)[i]]
         /\ \A i \in DOMAIN session :
              /\ Sequel(RevokedAll(u), i)
              /\ RevokedAll(u)[i].left = session[i].left
              /\ RevokedAll(u)[i].black = session[i].black
              /\ RevokedAll(u)[i].out = session[i].out
              /\ session[i].user = u => ~RevokedAll(u)[i].live
BY RowTyped DEF RevokedAll, Sequel, Session

LEMMA BlacklistedSequel ==
  ASSUME TypeOK, NEW j \in DOMAIN session
  PROVE  /\ Blacklisted(j) = [i \in DOMAIN session |-> Blacklisted(j)[i]]
         /\ \A i \in DOMAIN session :
              /\ Sequel(Blacklisted(j), i)
              /\ Blacklisted(j)[i].left = session[i].left
              /\ Blacklisted(j)[i].live = session[i].live
              /\ session[i].out => Blacklisted(j)[i].out
              /\ i = j => Blacklisted(j)[i].black = BlackFor(j) /\ Blacklisted(j)[i].out
              /\ i # j => Blacklisted(j)[i] = session[i]
<1> DEFINE row == session[j]
           old == [row EXCEPT !.black = BlackFor(j), !.out = TRUE]
<1>1. Blacklisted(j) = [i \in DOMAIN session |-> IF i = j THEN old ELSE session[i]]
  BY DEF Blacklisted
<1>2. BlackFor(j) \in Nat
  BY RowTyped, SessionsAssumption DEF SessionsAssumption, BlackFor, Session
<1>3. row \in Session
  BY RowTyped
<1> HIDE DEF row
<1>4. /\ old \in Session /\ old.user = row.user /\ old.password = row.password
      /\ old.crossed = row.crossed /\ old.live = row.live /\ old.left = row.left
      /\ old.black = BlackFor(j) /\ old.out
  BY <1>2, <1>3 DEF Session
<1> HIDE DEF old
<1> USE DEF row
<1>5. QED
  BY <1>1, <1>4, RowTyped DEF Sequel

\* A unit of time for a session.
LEMMA TickSequel ==
  ASSUME TypeOK, Tick
  PROVE  /\ session' = [i \in DOMAIN session |-> session'[i]]
         /\ \A i \in DOMAIN session :
              /\ Sequel(session', i)
              /\ session'[i].left = IF session[i].left <= -Skew THEN session[i].left
                                    ELSE session[i].left - 1
              /\ session'[i].black = IF session[i].black = 0 THEN 0 ELSE session[i].black - 1
              /\ session'[i].out = session[i].out /\ session'[i].live = session[i].live
<1> DEFINE left(row) == IF row.left <= -Skew THEN row.left ELSE row.left - 1
           black(row) == IF row.black = 0 THEN 0 ELSE row.black - 1
<1>1. session' = [i \in DOMAIN session |->
                    [session[i] EXCEPT !.left = left(session[i]), !.black = black(session[i])]]
  BY DEF Tick
<1>2. ASSUME NEW i \in DOMAIN session
      PROVE  /\ Sequel(session', i)
             /\ session'[i].left = left(session[i])
             /\ session'[i].black = black(session[i])
             /\ session'[i].out = session[i].out /\ session'[i].live = session[i].live
  <2> DEFINE row == session[i]
  <2>1. row \in Session
    BY RowTyped
  <2>2. session'[i] = [row EXCEPT !.left = left(row), !.black = black(row)]
    BY <1>1
  <2>3. left(row) \in Int /\ black(row) \in Nat
    BY <2>1, SessionsAssumption DEF SessionsAssumption, Session
  <2> HIDE DEF left, black, row
  <2>4. /\ session'[i] \in Session
        /\ session'[i].user = row.user /\ session'[i].password = row.password
        /\ session'[i].crossed = row.crossed /\ session'[i].live = row.live
        /\ session'[i].out = row.out
        /\ session'[i].left = left(row) /\ session'[i].black = black(row)
    BY <2>1, <2>2, <2>3 DEF Session
  <2>5. QED
    BY <2>4 DEF Sequel, row
<1>3. QED
  BY <1>1, <1>2

\* But for a new row at the end, the table keeps its rows, and what each says
\* of its login.
LEMMA TableStays ==
  ASSUME TypeOK, ServerMove
  PROVE  \/ \E w \in Worker : Issue(w)
         \/ /\ session' \in Seq(Session) /\ Len(session') = Len(session)
            /\ DOMAIN session' = DOMAIN session
            /\ \A i \in DOMAIN session : Sequel(session', i)
<1> DEFINE Kept == /\ session' \in Seq(Session) /\ Len(session') = Len(session)
                   /\ DOMAIN session' = DOMAIN session
                   /\ \A i \in DOMAIN session : Sequel(session', i)
<1>1. ASSUME session' = [i \in DOMAIN session |-> session'[i]],
             \A i \in DOMAIN session : Sequel(session', i)
      PROVE  Kept
  BY <1>1, TableTyped DEF Sequel
<1>2. ASSUME UNCHANGED session
      PROVE  Kept
  BY <1>2, RowTyped DEF Sequel, TypeOK
<1>3. ASSUME NEW w \in Worker, RefreshRevoke(w) \/ RevokeAll(w)
      PROVE  Kept
  BY <1>1, <1>3, RevokedSequel, RevokedAllSequel DEF RefreshRevoke, RevokeAll
<1>4. ASSUME NEW w \in Worker, NEW i \in DOMAIN session, LogoutBlacklist(w, i)
      PROVE  Kept
  BY <1>1, <1>4, BlacklistedSequel DEF LogoutBlacklist
<1>5. ASSUME RefreshExpires
      PROVE  Kept
  BY <1>1, <1>5, RevokedSequel DEF RefreshExpires
<1>6. ASSUME Tick
      PROVE  Kept
  BY <1>1, <1>6, TickSequel
<1>7. QED
  BY <1>2, <1>3, <1>4, <1>5, <1>6, SessionSteps

\* A new row, with its access token's life before it.
LEMMA IssueTyped ==
  ASSUME TypeOK, NEW w \in Worker, Issue(w)
  PROVE  /\ call[w] \in Call
         /\ Issued(call[w]) \in Session
         /\ session' = Append(session, Issued(call[w]))
         /\ session' \in Seq(Session) /\ Len(session') = Len(session) + 1
         /\ Len(session) < MaxSessions + 1
         /\ \A i \in DOMAIN session' :
              \/ i \in DOMAIN session /\ session'[i] = session[i]
              \/ i = Len(session) + 1 /\ session'[i] = Issued(call[w])
<1>1. call[w] \in Call
  BY CallTyped DEF Issue
<1>2. Issued(call[w]) \in Session
  BY <1>1, SessionsAssumption DEF SessionsAssumption, Issued, Call, Session
<1>3. session' = Append(session, Issued(call[w]))
  BY DEF Issue, RefreshCreate
<1>4. Len(session) < MaxSessions + 1
  BY SessionsAssumption DEF SessionsAssumption, Issue, SessionRoom, TypeOK
<1>5. QED
  BY <1>1, <1>2, <1>3, <1>4 DEF TypeOK

LEMMA SessionTypeStep ==
  TypeOK /\ ServerMove => session' \in Seq(Session) /\ Len(session') <= MaxSessions + 1
<1> SUFFICES ASSUME TypeOK, ServerMove
             PROVE  session' \in Seq(Session) /\ Len(session') <= MaxSessions + 1
  OBVIOUS
<1>1. ASSUME NEW w \in Worker, Issue(w)
      PROVE  session' \in Seq(Session) /\ Len(session') <= MaxSessions + 1
  BY <1>1, IssueTyped, SessionsAssumption DEF SessionsAssumption, TypeOK
<1>2. QED
  BY <1>1, TableStays DEF TypeOK

\* Only these steps touch the accounts, what was proven, the secrets made and
\* the accounts whose revocation failed.
LEMMA UserSteps ==
  ASSUME ServerMove
  PROVE  /\ UNCHANGED mix
         /\ \/ UNCHANGED <<user, proven, secrets, dropped>>
            \/ \E w \in Worker :
                 \/ \E i \in DOMAIN session, k \in 1 .. MaxSecret : VerifyFind(w, i, k)
                 \/ ChangeWrite(w) \/ EnrollWrite(w) \/ VerifyWrite(w) \/ DisableWrite(w)
                 \/ Fault(w)
<1>1. ASSUME NEW w \in Worker, Begins(w)
      PROVE  /\ UNCHANGED mix
             /\ \/ UNCHANGED <<user, proven, secrets, dropped>>
                \/ \E i \in DOMAIN session, k \in 1 .. MaxSecret : VerifyFind(w, i, k)
  BY <1>1 DEF Begins, LoginStart, RefreshFind, LogoutBlacklist, ChangeFind, EnrollFind,
     VerifyFind, DisableFind, sessionVars
<1>2. ASSUME NEW w \in Worker, LoginStep(w)
      PROVE  UNCHANGED <<mix, user, proven, secrets, dropped>>
  BY <1>2 DEF LoginStep, LoginRate, LoginFind, LoginIncr, LoginExpire, LoginLock, Issue,
     LoginReset, sessionVars
<1>3. ASSUME NEW w \in Worker, SessionStep(w)
      PROVE  /\ UNCHANGED mix
             /\ \/ UNCHANGED <<user, proven, secrets, dropped>>
                \/ ChangeWrite(w) \/ EnrollWrite(w) \/ VerifyWrite(w) \/ DisableWrite(w)
  BY <1>3 DEF SessionStep, RefreshRevoke, RevokeAll, ChangeWrite, EnrollWrite, VerifyWrite,
     DisableWrite
<1>4. ASSUME NEW w \in Worker, FirstCommandFails(w)
      PROVE  UNCHANGED <<mix, user, proven, secrets, dropped>>
  BY <1>4 DEF FirstCommandFails, LogoutUnlisted, sessionVars
<1>5. ASSUME NEW w \in Worker, Fault(w)
      PROVE  UNCHANGED mix
  BY <1>5 DEF Fault
<1>6. RefreshExpires \/ Tick \/ MessageLost => UNCHANGED <<mix, user, proven, secrets, dropped>>
  BY DEF RefreshExpires, Tick, MessageLost, sessionVars
<1>7. QED
  BY <1>1, <1>2, <1>3, <1>4, <1>5, <1>6 DEF ServerMove

\* What a call writes to an account leaves the others alone.
LEMMA UserTyped ==
  ASSUME TypeOK, NEW u \in User
  PROVE  user[u] \in Users /\ secrets[u] \in 0 .. MaxSecret
                           /\ proven[u] \in SUBSET (1 .. MaxSecret)
BY DEF TypeOK, Users

LEMMA ChangeWriteRow ==
  ASSUME TypeOK, NEW w \in Worker, ChangeWrite(w)
  PROVE  /\ call[w] \in Call /\ call[w].user \in User
         /\ user' \in [User -> Users]
         /\ \A u \in User :
              /\ u # call[w].user => user'[u] = user[u]
              /\ user'[u].totp = user[u].totp /\ user'[u].secret = user[u].secret
         /\ UNCHANGED <<proven, secrets, dropped>>
<1>1. call[w] \in Call
  BY CallTyped DEF ChangeWrite
<1> DEFINE u == call[w].user
           row == user[u]
<1>2. u \in User /\ row \in Users
  BY <1>1, UserTyped DEF Call
<1>3. user' = [user EXCEPT ![u] = [row EXCEPT !.password = row.password + 1]]
  BY DEF ChangeWrite
<1>4. row.password < MaxPassword
  BY DEF ChangeWrite
<1>5. row.password + 1 \in 1 .. MaxPassword
  BY <1>2, <1>4, SessionsAssumption DEF Users, SessionsAssumption
<1> HIDE DEF row
<1>6. /\ [row EXCEPT !.password = row.password + 1] \in Users
      /\ [row EXCEPT !.password = row.password + 1].totp = row.totp
      /\ [row EXCEPT !.password = row.password + 1].secret = row.secret
  BY <1>2, <1>5 DEF Users
<1>7. user \in [User -> Users]
  BY DEF TypeOK, Users
<1>8. UNCHANGED <<proven, secrets, dropped>>
  BY DEF ChangeWrite
<1> HIDE DEF u
<1>9. /\ user' \in [User -> Users]
      /\ \A v \in User :
           /\ v # u => user'[v] = user[v]
           /\ user'[v].totp = user[v].totp /\ user'[v].secret = user[v].secret
  BY <1>2, <1>3, <1>6, <1>7 DEF row
<1>10. QED
  BY <1>1, <1>2, <1>8, <1>9 DEF u

LEMMA UpdateTOTPRow ==
  ASSUME TypeOK, NEW u \in User, NEW k \in 0 .. MaxSecret, NEW on \in BOOLEAN,
         UpdateTOTP(u, k, on)
  PROVE  /\ user' \in [User -> Users]
         /\ user'[u].secret = k /\ user'[u].totp = on
         /\ user'[u].password = user[u].password
         /\ \A v \in User : v # u => user'[v] = user[v]
<1> DEFINE row == user[u]
           new == [row EXCEPT !.secret = k, !.totp = on]
<1>1. user \in [User -> Users]
  BY DEF TypeOK, Users
<1>2. row \in Users
  BY <1>1
<1>3. user' = [user EXCEPT ![u] = new]
  BY <1>1 DEF UpdateTOTP
<1> HIDE DEF row
<1>4. new \in Users /\ new.secret = k /\ new.totp = on /\ new.password = row.password
  BY <1>2 DEF Users
<1> HIDE DEF new
<1>5. QED
  BY <1>1, <1>3, <1>4 DEF row

LEMMA UserTypeStep ==
  TypeOK /\ ServerMove => /\ user' \in [User -> Users]
                          /\ proven' \in [User -> SUBSET (1 .. MaxSecret)]
                          /\ secrets' \in [User -> 0 .. MaxSecret]
                          /\ dropped' \subseteq User
<1> SUFFICES ASSUME TypeOK, ServerMove
             PROVE  /\ user' \in [User -> Users]
                    /\ proven' \in [User -> SUBSET (1 .. MaxSecret)]
                    /\ secrets' \in [User -> 0 .. MaxSecret]
                    /\ dropped' \subseteq User
  OBVIOUS
<1> DEFINE Goal == /\ user' \in [User -> Users]
                   /\ proven' \in [User -> SUBSET (1 .. MaxSecret)]
                   /\ secrets' \in [User -> 0 .. MaxSecret]
                   /\ dropped' \subseteq User
<1>1. /\ user \in [User -> Users] /\ proven \in [User -> SUBSET (1 .. MaxSecret)]
      /\ secrets \in [User -> 0 .. MaxSecret] /\ dropped \subseteq User
  BY DEF TypeOK, Users
<1>2. ASSUME UNCHANGED <<user, proven, secrets, dropped>>
      PROVE  Goal
  BY <1>1, <1>2
<1>3. ASSUME NEW w \in Worker, NEW i \in DOMAIN session, NEW k \in 1 .. MaxSecret,
             VerifyFind(w, i, k)
      PROVE  Goal
  <2>1. session[i].user \in User
    BY RowTyped DEF Session
  <2>2. /\ proven' = [proven EXCEPT ![session[i].user] = @ \cup {k}]
        /\ UNCHANGED <<user, secrets, dropped>>
    BY <1>3 DEF VerifyFind
  <2>3. QED
    BY <1>1, <2>1, <2>2
<1>4. ASSUME NEW w \in Worker, ChangeWrite(w)
      PROVE  Goal
  BY <1>1, <1>4, ChangeWriteRow
<1>5. ASSUME NEW w \in Worker, EnrollWrite(w)
      PROVE  Goal
  <2> DEFINE u == call[w].user
  <2>1. u \in User
    BY <1>5, CallTyped DEF EnrollWrite, Call
  <2>2. /\ secrets[u] < MaxSecret /\ secrets' = [secrets EXCEPT ![u] = secrets[u] + 1]
        /\ UpdateTOTP(u, secrets[u] + 1, FALSE) /\ UNCHANGED <<proven, dropped>>
    BY <1>5 DEF EnrollWrite
  <2>3. secrets[u] + 1 \in 0 .. MaxSecret
    BY <1>1, <2>1, <2>2, SessionsAssumption DEF SessionsAssumption
  <2> HIDE DEF u
  <2>4. user' \in [User -> Users]
    BY <2>1, <2>2, <2>3, UpdateTOTPRow
  <2>5. QED
    BY <1>1, <2>1, <2>2, <2>3, <2>4
<1>6. ASSUME NEW w \in Worker, VerifyWrite(w) \/ DisableWrite(w)
      PROVE  Goal
  <2>1. call[w].user \in User /\ call[w].code \in 0 .. MaxSecret
    BY <1>6, CallTyped DEF VerifyWrite, DisableWrite, Call
  <2>2. \E k \in 0 .. MaxSecret, on \in BOOLEAN : UpdateTOTP(call[w].user, k, on)
    BY <1>6, <2>1, Bounds DEF VerifyWrite, DisableWrite
  <2>3. user' \in [User -> Users]
    BY <2>1, <2>2, UpdateTOTPRow
  <2>4. QED
    BY <1>1, <1>6, <2>3 DEF VerifyWrite, DisableWrite
<1>7. ASSUME NEW w \in Worker, Fault(w)
      PROVE  Goal
  <2>1. call[w].user \in User
    BY <1>7, CallTyped DEF Fault, Call
  <2>2. QED
    BY <1>1, <1>7, <2>1 DEF Fault
<1>8. QED
  BY <1>2, <1>3, <1>4, <1>5, <1>6, <1>7, UserSteps

\* Only these steps touch the lockout and the count of guesses.
LEMMA LockoutSteps ==
  ASSUME ServerMove
  PROVE  \/ UNCHANGED <<fail, lock, guesses>>
         \/ \E w \in Worker : \/ LoginFind(w) \/ LoginIncr(w) \/ LoginExpire(w)
                              \/ LoginLock(w) \/ LoginReset(w)
         \/ Tick
<1>1. ASSUME NEW w \in Worker, Begins(w)
      PROVE  UNCHANGED <<fail, lock, guesses>>
  BY <1>1 DEF Begins, LoginStart, RefreshFind, LogoutBlacklist, ChangeFind, EnrollFind,
     VerifyFind, DisableFind, lockoutVars
<1>2. ASSUME NEW w \in Worker, LoginRate(w) \/ Issue(w) \/ SessionStep(w)
      PROVE  UNCHANGED <<fail, lock, guesses>>
  BY <1>2 DEF LoginRate, Issue, SessionStep, RefreshRevoke, RevokeAll, ChangeWrite,
     EnrollWrite, VerifyWrite, DisableWrite, lockoutVars
<1>3. ASSUME NEW w \in Worker, Fault(w) \/ FirstCommandFails(w)
      PROVE  UNCHANGED <<fail, lock, guesses>>
  BY <1>3 DEF Fault, FirstCommandFails, LogoutUnlisted, lockoutVars
<1>4. MessageLost \/ RefreshExpires => UNCHANGED <<fail, lock, guesses>>
  BY DEF MessageLost, RefreshExpires, lockoutVars
<1>5. QED
  BY <1>1, <1>2, <1>3, <1>4 DEF ServerMove, LoginStep

Counter == [n : 0 .. MaxCount, left : {Forever} \cup 1 .. Duration]

LEMMA CounterTyped ==
  ASSUME TypeOK, NEW u \in User
  PROVE  /\ fail[u] \in Counter /\ (fail[u].n = 0 => fail[u] = NoCount)
         /\ lock[u] \in 0 .. Duration /\ guesses[u] \in Nat
         /\ Count(u) \in 1 .. MaxCount
BY LockoutAssumption DEF LockoutAssumption, TypeOK, LockoutTypeOK, Counter, Count

LEMMA NoCountTyped == NoCount \in Counter /\ NoCount.n = 0 /\ NoCount.left = Forever
BY LockoutAssumption DEF LockoutAssumption, NoCount, Counter

LEMMA LockoutTypeStep ==
  TypeOK /\ ServerMove => LockoutTypeOK' /\ guesses' \in [User -> Nat]
<1> SUFFICES ASSUME TypeOK, ServerMove
             PROVE  LockoutTypeOK' /\ guesses' \in [User -> Nat]
  OBVIOUS
<1> DEFINE FailOK == /\ fail' \in [User -> Counter]
                     /\ \A u \in User : fail'[u].n = 0 => fail'[u] = NoCount
           LockOK == lock' \in [User -> 0 .. Duration]
           GuessesOK == guesses' \in [User -> Nat]
<1>1. /\ fail \in [User -> Counter] /\ \A u \in User : fail[u].n = 0 => fail[u] = NoCount
      /\ lock \in [User -> 0 .. Duration] /\ guesses \in [User -> Nat]
  BY DEF TypeOK, LockoutTypeOK, Counter
<1>2. ASSUME FailOK, LockOK, GuessesOK
      PROVE  LockoutTypeOK' /\ guesses' \in [User -> Nat]
  BY <1>2 DEF LockoutTypeOK, Counter
<1>3. /\ UNCHANGED fail => FailOK
      /\ UNCHANGED lock => LockOK
      /\ UNCHANGED guesses => GuessesOK
  BY <1>1
<1>4. ASSUME NEW u \in User, NEW x \in Counter, x.n = 0 => x = NoCount,
             fail' = [fail EXCEPT ![u] = x]
      PROVE  FailOK
  BY <1>1, <1>4
<1>5. ASSUME NEW w \in Worker, call[w].at # "idle"
      PROVE  call[w].user \in User
  BY <1>5, CallTyped DEF Call
<1>6. ASSUME NEW w \in Worker, LoginFind(w)
      PROVE  FailOK /\ LockOK /\ GuessesOK
  <2> DEFINE u == call[w].user
  <2>1. u \in User
    BY <1>5, <1>6 DEF LoginFind
  <2>2. UNCHANGED <<fail, lock>>
    BY <1>6 DEF LoginFind, lockoutVars
  <2>3. guesses[u] \in Nat /\ guesses[u] + 1 \in Nat
    BY <1>1, <2>1
  <2>4. \/ guesses' = [guesses EXCEPT ![u] = guesses[u] + 1]
        \/ guesses' = [guesses EXCEPT ![u] = guesses[u]]
    BY <1>6 DEF LoginFind
  <2> HIDE DEF u
  <2>5. GuessesOK
    BY <1>1, <2>1, <2>3, <2>4
  <2>6. QED
    BY <1>3, <2>2, <2>5
<1>7. ASSUME NEW w \in Worker, LoginIncr(w)
      PROVE  FailOK /\ LockOK /\ GuessesOK
  <2> DEFINE u == call[w].user
             x == [fail[u] EXCEPT !.n = Count(u)]
  <2>1. u \in User
    BY <1>5, <1>7 DEF LoginIncr
  <2>2. fail' = [fail EXCEPT ![u] = x]
    BY <1>1, <1>7, <2>1 DEF LoginIncr, IncrFail
  <2>3. Count(u) \in 0 .. MaxCount /\ Count(u) # 0 /\ fail[u] \in Counter
    BY <2>1, CounterTyped, LockoutAssumption DEF LockoutAssumption
  <2> HIDE DEF u
  <2>4. x \in Counter /\ x.n # 0
    BY <2>3 DEF Counter
  <2> HIDE DEF x
  <2>5. FailOK
    BY <1>4, <2>1, <2>2, <2>4
  <2>6. QED
    BY <1>3, <1>7, <2>5 DEF LoginIncr
<1>8. ASSUME NEW w \in Worker, LoginExpire(w)
      PROVE  FailOK /\ LockOK /\ GuessesOK
  <2> DEFINE u == call[w].user
             left == IF fail[u].n = 0 THEN Forever ELSE Duration
             x == [fail[u] EXCEPT !.left = left]
  <2>1. u \in User
    BY <1>5, <1>8 DEF LoginExpire
  <2>2. fail' = [fail EXCEPT ![u] = x]
    BY <1>1, <1>8, <2>1 DEF LoginExpire, ExpireFail
  <2>3. fail[u] \in Counter /\ left \in {Forever} \cup 1 .. Duration
    BY <2>1, CounterTyped, LockoutAssumption DEF LockoutAssumption
  <2>4. fail[u].n = 0 => fail[u] = NoCount /\ left = Forever
    BY <2>1, CounterTyped
  <2> HIDE DEF u, left
  <2>5. x \in Counter /\ x.n = fail[u].n
    BY <2>3 DEF Counter
  <2>6. fail[u].n = 0 => x = NoCount
    BY <2>4 DEF NoCount
  <2> HIDE DEF x
  <2>7. FailOK
    BY <1>4, <2>1, <2>2, <2>5, <2>6
  <2>8. QED
    BY <1>3, <1>8, <2>7 DEF LoginExpire
<1>9. ASSUME NEW w \in Worker, LoginLock(w)
      PROVE  FailOK /\ LockOK /\ GuessesOK
  <2>1. call[w].user \in User
    BY <1>5, <1>9 DEF LoginLock
  <2>2. LockOK
    BY <1>1, <1>9, <2>1, LockoutAssumption DEF LockoutAssumption, LoginLock, Lock
  <2>3. QED
    BY <1>3, <1>9, <2>2 DEF LoginLock
<1>10. ASSUME NEW w \in Worker, LoginReset(w)
       PROVE  FailOK /\ LockOK /\ GuessesOK
  <2>1. call[w].user \in User
    BY <1>5, <1>10 DEF LoginReset
  <2>2. FailOK
    BY <1>4, <1>10, <2>1, NoCountTyped DEF LoginReset, ResetFail
  <2>3. GuessesOK
    BY <1>1, <1>10, <2>1 DEF LoginReset
  <2>4. QED
    BY <1>3, <1>10, <2>2, <2>3 DEF LoginReset
<1>11. ASSUME Tick
       PROVE  FailOK /\ LockOK /\ GuessesOK
  <2> DEFINE older(u) == CASE fail[u].left = Forever -> fail[u]
                           [] fail[u].left = 1       -> NoCount
                           [] OTHER -> [fail[u] EXCEPT !.left = @ - 1]
  <2>1. fail' = [u \in User |-> older(u)]
    BY <1>11 DEF Tick, RedisTick
  <2>2. ASSUME NEW u \in User
        PROVE  older(u) \in Counter /\ (older(u).n = 0 => older(u) = NoCount)
    <3>1. fail[u] \in Counter /\ (fail[u].n = 0 => fail[u] = NoCount)
      BY CounterTyped
    <3>2. CASE fail[u].left = Forever
      BY <3>1, <3>2 DEF Forever
    <3>3. CASE fail[u].left = 1
      BY <3>3, NoCountTyped DEF Forever
    <3>4. CASE fail[u].left \notin {Forever, 1}
      <4> DEFINE row == fail[u]
      <4>1. older(u) = [row EXCEPT !.left = row.left - 1]
        BY <3>4
      <4>2. row.left - 1 \in {Forever} \cup 1 .. Duration
        BY <3>1, <3>4, LockoutAssumption DEF LockoutAssumption, Counter, Forever
      <4>3. row.n # 0
        BY <3>1, <3>4, NoCountTyped
      <4> HIDE DEF row, older
      <4>4. [row EXCEPT !.left = row.left - 1] \in Counter
        BY <3>1, <4>2 DEF Counter, row
      <4>5. [row EXCEPT !.left = row.left - 1].n = row.n
        BY <3>1 DEF Counter, row
      <4>6. QED
        BY <4>1, <4>3, <4>4, <4>5
    <3>5. QED
      BY <3>2, <3>3, <3>4
  <2> HIDE DEF older
  <2>3. FailOK
    BY <2>1, <2>2
  <2>4. LockOK
    <3>1. lock' = [u \in User |-> IF lock[u] = 0 THEN 0 ELSE lock[u] - 1]
      BY <1>11 DEF Tick, RedisTick
    <3>2. \A u \in User : (IF lock[u] = 0 THEN 0 ELSE lock[u] - 1) \in 0 .. Duration
      <4>1. ASSUME NEW u \in User
            PROVE  (IF lock[u] = 0 THEN 0 ELSE lock[u] - 1) \in 0 .. Duration
        <5> DEFINE n == lock[u]
        <5>1. n \in 0 .. Duration /\ Duration \in Nat
          BY <1>1, LockoutAssumption DEF LockoutAssumption
        <5> HIDE DEF n
        <5>2. (IF n = 0 THEN 0 ELSE n - 1) \in 0 .. Duration
          BY <5>1
        <5>3. QED
          BY <5>2 DEF n
      <4>2. QED
        BY <4>1
    <3>3. QED
      BY <3>1, <3>2
  <2>5. GuessesOK
    BY <1>1, <1>11 DEF Tick
  <2>6. QED
    BY <2>3, <2>4, <2>5
<1>12. QED
  BY <1>2, <1>3, <1>6, <1>7, <1>8, <1>9, <1>10, <1>11, LockoutSteps

\* A step counts no fault, one, or the two of a Logout whose look-up of the
\* blacklist and whose entry in it fail.
LEMMA FaultsMove ==
  ASSUME TypeOK, ServerMove \/ UNCHANGED vars
  PROVE  faults \in Nat /\ faults' \in 0 .. MaxFaults /\ faults' \in {faults, faults + 1, faults + 2}
<1> DEFINE OneMore == faults' = faults \/ (faults < MaxFaults /\ faults' = faults + 1)
<1>1. faults \in 0 .. MaxFaults /\ MaxFaults \in Nat
  BY SessionsAssumption DEF SessionsAssumption, TypeOK
<1>2. ASSUME NEW i \in DOMAIN session, AuthRequired(i)
      PROVE  OneMore
  BY <1>2 DEF AuthRequired
<1>3. ASSUME NEW w \in Worker, Begins(w)
      PROVE  OneMore
  BY <1>2, <1>3 DEF Begins, LoginStart, RefreshFind, LogoutBlacklist, ChangeFind, EnrollFind,
     VerifyFind, DisableFind
<1>4. ASSUME NEW w \in Worker, FirstCommandFails(w)
      PROVE  faults' <= MaxFaults /\ (faults' = faults + 1 \/ faults' = faults + 2)
  <2>1. ASSUME NEW i \in DOMAIN session, LogoutUnlisted(w, i)
        PROVE  faults' <= MaxFaults /\ (faults' = faults + 1 \/ faults' = faults + 2)
    BY <2>1 DEF LogoutUnlisted
  <2>2. QED
    BY <1>1, <1>4, <2>1 DEF FirstCommandFails
<1>5. ASSUME NEW w \in Worker, LoginStep(w) \/ SessionStep(w) \/ Fault(w)
      PROVE  OneMore
  BY <1>5 DEF LoginStep, LoginRate, LoginFind, LoginIncr, LoginExpire, LoginLock, Issue,
     LoginReset, SessionStep, RefreshRevoke, RevokeAll, ChangeWrite, EnrollWrite, VerifyWrite,
     DisableWrite, Fault
<1>6. RefreshExpires \/ Tick \/ MessageLost \/ UNCHANGED vars
      => OneMore
  BY DEF RefreshExpires, Tick, MessageLost, vars
<1>7. QED
  BY <1>1, <1>3, <1>4, <1>5, <1>6 DEF ServerMove

LEMMA CountsTypeStep ==
  TypeOK /\ ServerMove => tries' \in Nat /\ faults' \in 0 .. MaxFaults
<1> SUFFICES ASSUME TypeOK, ServerMove
             PROVE  tries' \in Nat
  BY FaultsMove
<1>1. tries \in Nat
  BY DEF TypeOK
<1>2. \/ UNCHANGED tries
      \/ tries' = 0
      \/ tries' = tries + 1
  BY DEF ServerMove, Begins, LoginStart, RefreshFind, LogoutBlacklist, ChangeFind,
     EnrollFind, VerifyFind, DisableFind, LoginStep, LoginRate, LoginFind, LoginIncr,
     LoginExpire, LoginLock, Issue, LoginReset, SessionStep, RefreshRevoke, RevokeAll,
     ChangeWrite, EnrollWrite, VerifyWrite, DisableWrite, Fault, FirstCommandFails,
     LogoutUnlisted, RefreshExpires, Tick, MessageLost, sessionVars
<1>3. QED
  BY <1>1, <1>2

LEMMA TypeStep == TypeOK /\ ServerMove => TypeOK'
<1> SUFFICES ASSUME TypeOK, ServerMove
             PROVE  TypeOK'
  OBVIOUS
<1>1. mix' \in Mixes
  BY UserSteps DEF TypeOK
<1>2. QED
  BY <1>1, CallTypeStep, SessionTypeStep, UserTypeStep, LockoutTypeStep, CountsTypeStep
  DEF TypeOK, Users

-----------------------------------------------------------------------------
(* The clients.                                                            *)

\* What the sessions' part sees of a step of the clients.
LEMMA ClientIsServer ==
  ASSUME TypeOK, ClientTypeOK, [ClientNext]_allVars
  PROVE  ServerMove \/ UNCHANGED vars
<1>1. ASSUME NEW w \in Worker, Requests(w)
      PROVE  Begins(w)
  BY <1>1 DEF Requests, login, refresh, logout, changePassword, totpEnroll, totpVerify,
     totpDisable, Begins
<1>2. Next => ServerMove
  BY <1>1 DEF Next, ServerMove
<1>3. ASSUME NEW w \in Worker, ServerStep(w)
      PROVE  ServerMove
  BY <1>3 DEF ServerStep, ServerMove
<1>4. ASSUME NEW c \in Caller, NEW w \in Worker, LogoutServed(c, w)
      PROVE  ServerMove
  <2>1. req[c].pair \in DOMAIN session
    BY <1>4 DEF LogoutServed, ClientTypeOK, ClientCall, Pairs, TypeOK
  <2>2. QED
    BY <1>4, <2>1 DEF LogoutServed, ServerMove, Begins
<1>5. ASSUME NEW c \in Caller, NEW w \in Worker, RefreshServed(c, w)
      PROVE  ServerMove
  <2>1. req[c].refresh \in DOMAIN session
    BY <1>5 DEF RefreshServed, ClientTypeOK, ClientCall, Pairs, TypeOK
  <2>2. QED
    BY <1>5, <2>1 DEF RefreshServed, ServerMove, Begins
<1>6. ASSUME NEW c \in Caller, NEW w \in Worker, LoginServed(c, w)
      PROVE  ServerMove
  <2>1. \A u \in User : user[u].password \in 1 .. MaxPassword
    BY DEF TypeOK
  <2>2. QED
    BY <1>6, <2>1, Bounds DEF LoginServed, ServerMove, Begins
<1>7. ASSUME NEW c \in Caller, RequestLost(c) \/ AnswerLost(c)
      PROVE  ServerMove
  BY <1>7 DEF RequestLost, AnswerLost, ServerMove, MessageLost
<1>8. ASSUME NEW c \in Caller, Answered(c)
      PROVE  ServerMove \/ UNCHANGED vars
  BY <1>8 DEF Answered, AuthRequired, ServerMove, MessageLost, vars, lockoutVars, sessionVars
<1>9. ASSUME NEW c \in Caller, ClientStep(c)
      PROVE  ServerMove \/ UNCHANGED vars
  BY <1>4, <1>5, <1>6, <1>7, <1>8, <1>9
  DEF ClientStep, Me, LoginPassword, Logout, loginCmd, logoutCmd, payCmd, meCmd,
      doWithRetry, doRaw, refreshLocked, Method, Command, NextCall, Begin, Send, Refused, ReadRefresh, CheckVersion, RefreshRefused, Store, Clear, persistTokens
<1>10. Exit => UNCHANGED vars
  BY DEF Exit
<1>11. RefreshExpires \/ Tick => ServerMove
  BY DEF ServerMove
<1>12. QED
  BY <1>2, <1>3, <1>9, <1>10, <1>11 DEF ClientNext, allVars

\* No pair is forgotten.
LEMMA PairsStay ==
  ASSUME TypeOK, ServerMove \/ UNCHANGED vars
  PROVE  Len(session) \in Nat /\ Len(session') \in Nat /\ Len(session) <= Len(session')
<1>1. Len(session) \in Nat
  BY DEF TypeOK
<1>2. ASSUME NEW w \in Worker, Issue(w)
      PROVE  Len(session') = Len(session) + 1
  BY <1>2, IssueTyped
<1>3. ServerMove => Len(session') = Len(session) \/ Len(session') = Len(session) + 1
  BY <1>2, TableStays
<1>4. UNCHANGED vars => Len(session') = Len(session)
  BY DEF vars, sessionVars
<1>5. QED
  BY <1>1, <1>3, <1>4

\* A goroutine's call as an operation leaves it, but for what it waits to hear.
LEMMA OwnCallTyped ==
  ASSUME TypeOK, ClientTypeOK, NEW c \in Caller, ClientStep(c)
  PROVE  /\ req' \in [Caller -> ClientCall]
         /\ req'[c].at \in {"check", "refresh"} =>
              req'[c].refresh # 0 /\ (req[c].at = "check" \/ code = ErrAccessTokenInvalid)
         /\ \A d \in Caller : d # c => /\ req'[d].at = req[d].at
                                       /\ req'[d].refresh = req[d].refresh
<1> DEFINE r == req[c]
           Known == req[c].at = "check" \/ code = ErrAccessTokenInvalid
           Typed == /\ req' \in [Caller -> ClientCall]
                    /\ req'[c].at \in {"check", "refresh"} => req'[c].refresh # 0 /\ Known
                    /\ \A d \in Caller : d # c => /\ req'[d].at = req[d].at
                                                  /\ req'[d].refresh = req[d].refresh
<1>0. 0 \in Pairs /\ client.access \in Pairs /\ client.refresh \in Pairs /\ client.version \in Nat
  BY DEF Pairs, TypeOK, ClientTypeOK
<1>1. req \in [Caller -> ClientCall] /\ r \in ClientCall
  BY DEF ClientTypeOK
<1>2. ASSUME NEW x \in ClientCall, x.at \in {"check", "refresh"} => x.refresh # 0 /\ Known,
             req' = [req EXCEPT ![c] = x]
      PROVE  Typed
  <2>1. req' \in [Caller -> ClientCall] /\ req'[c] = x
    BY <1>1, <1>2
  <2>2. \A d \in Caller : d # c => req'[d].at = req[d].at /\ req'[d].refresh = req[d].refresh
    BY <1>1, <1>2
  <2>3. QED
    BY <1>2, <2>1, <2>2
<1>3. Ready \in ClientCall /\ Ready.at = "idle"
  BY <1>0 DEF Ready, ClientCall
<1>4. ASSUME NEW q \in ClientCall
      PROVE  /\ End(q) \in ClientCall /\ End(q).at \in {"clear", "idle"}
             /\ Again(q) \in ClientCall /\ Again(q).at = "send"
             /\ \A s \in {"request", "refused", "waiting", "save"} :
                  /\ [q EXCEPT !.at = s] \in ClientCall
                  /\ [q EXCEPT !.at = s].at = s
  <2>1. /\ [Ready EXCEPT !.at = "clear"] \in ClientCall
        /\ [Ready EXCEPT !.at = "clear"].at = "clear"
    BY <1>3 DEF ClientCall
  <2>2. End(q) \in ClientCall /\ End(q).at \in {"clear", "idle"}
    BY <1>3, <2>1 DEF End
  <2>3. q.op \in {"none", "login", "logout", "call"}
    BY <1>4 DEF ClientCall
  <2>4. Again(q) \in ClientCall /\ Again(q).at = "send"
    BY <1>3, <2>3 DEF Again, ClientCall
  <2>5. ASSUME NEW s \in {"request", "refused", "waiting", "save"}
        PROVE  [q EXCEPT !.at = s] \in ClientCall /\ [q EXCEPT !.at = s].at = s
    BY <1>4 DEF ClientCall
  <2>6. QED
    BY <2>2, <2>4, <2>5
<1>5. ASSUME NEW op \in {"login", "logout", "call"}, Begin(c, op)
      PROVE  Typed
  <2> DEFINE at == IF op = "login" THEN "login" ELSE "send"
             x == [Ready EXCEPT !.at = at, !.op = op]
  <2>1. at \in {"login", "send"}
    OBVIOUS
  <2>2. req' = [req EXCEPT ![c] = x]
    BY <1>5 DEF Begin
  <2> HIDE DEF at
  <2>3. x \in ClientCall /\ x.at \notin {"check", "refresh"}
    BY <1>3, <2>1 DEF ClientCall
  <2> HIDE DEF x
  <2>4. QED
    BY <1>2, <2>2, <2>3
<1>6. CASE Me(c) \/ loginCmd(c) \/ logoutCmd(c) \/ payCmd(c) \/ Method(c, "login") \/ Method(c, "logout")
  <2>1. CASE persistTokens(c)
    BY <1>2, <1>3, <2>1 DEF persistTokens
  <2>2. CASE ~persistTokens(c)
    BY <1>5, <1>6, <2>2 DEF Me, loginCmd, logoutCmd, payCmd, meCmd, Method, Command, NextCall
  <2>3. QED
    BY <2>1, <2>2
<1>7. CASE Send(c)
  <2>1. [r EXCEPT !.at = "request", !.pair = client.access] \in ClientCall
    BY <1>0, <1>1 DEF ClientCall
  <2>2. [r EXCEPT !.at = "request", !.pair = client.access].at = "request"
    BY <1>1 DEF ClientCall
  <2>3. req' = [req EXCEPT ![c] = [r EXCEPT !.at = "request", !.pair = client.access]]
    BY <1>1, <1>7 DEF Send
  <2>4. QED
    BY <1>2, <2>1, <2>2, <2>3
<1>8. CASE Answered(c) \/ Clear(c)
  BY <1>2, <1>3, <1>8 DEF Answered, Clear
<1>9. CASE \E w \in Worker : LogoutServed(c, w)
  <2>1. PICK w \in Worker : LogoutServed(c, w)
    BY <1>9
  <2> DEFINE x == [r EXCEPT !.at = "waiting", !.worker = w, !.pair = 0]
  <2>2. req' = [req EXCEPT ![c] = x]
    BY <1>1, <2>1 DEF LogoutServed
  <2>3. x \in ClientCall /\ x.at = "waiting"
    BY <1>0, <1>1 DEF ClientCall
  <2>4. QED
    BY <1>2, <2>2, <2>3
<1>10. CASE \E w \in Worker : RefreshServed(c, w)
  <2>1. PICK w \in Worker : RefreshServed(c, w)
    BY <1>10
  <2> DEFINE x == [r EXCEPT !.at = "waiting", !.worker = w, !.refresh = 0]
  <2>2. req' = [req EXCEPT ![c] = x]
    BY <1>1, <2>1 DEF RefreshServed
  <2>3. x \in ClientCall /\ x.at = "waiting"
    BY <1>0, <1>1 DEF ClientCall
  <2>4. QED
    BY <1>2, <2>2, <2>3
<1>11. CASE \E w \in Worker : LoginServed(c, w)
  <2>1. PICK w \in Worker : LoginServed(c, w)
    BY <1>11
  <2> DEFINE x == [r EXCEPT !.at = "waiting", !.worker = w]
  <2>2. req' = [req EXCEPT ![c] = x]
    BY <1>1, <2>1 DEF LoginServed
  <2>3. x \in ClientCall /\ x.at = "waiting"
    BY <1>1 DEF ClientCall
  <2>4. QED
    BY <1>2, <2>2, <2>3
<1>12. CASE Refused(c)
  <2>1. \/ req' = [req EXCEPT ![c] = End(r)]
        \/ req' = [req EXCEPT ![c] = [r EXCEPT !.at = "refused"]]
    BY <1>12 DEF Refused
  <2>2. QED
    BY <1>1, <1>2, <1>4, <2>1
<1>13. CASE RequestLost(c) \/ RefreshRefused(c)
  <2>1. req' = [req EXCEPT ![c] = End(r)]
    BY <1>13 DEF RequestLost, RefreshRefused
  <2>2. QED
    BY <1>1, <1>2, <1>4, <2>1
<1>14. CASE ReadRefresh(c)
  <2> DEFINE x == [r EXCEPT !.at = "check", !.pair = 0, !.refresh = client.refresh,
                            !.version = client.version]
  <2>1. \/ req' = [req EXCEPT ![c] = End(r)]
        \/ client.refresh # 0 /\ Known /\ req' = [req EXCEPT ![c] = x]
    BY <1>1, <1>14 DEF ReadRefresh
  <2>2. x \in ClientCall /\ x.refresh = client.refresh
    BY <1>0, <1>1 DEF ClientCall
  <2> HIDE DEF x
  <2>3. QED
    BY <1>1, <1>2, <1>4, <2>1, <2>2
<1>15. CASE CheckVersion(c)
  <2> DEFINE x == [r EXCEPT !.at = "refresh", !.version = 0]
  <2>1. \/ req' = [req EXCEPT ![c] = Again(r)]
        \/ req' = [req EXCEPT ![c] = x]
    BY <1>1, <1>15 DEF CheckVersion
  <2>2. x \in ClientCall /\ x.refresh = r.refresh
    BY <1>1 DEF ClientCall
  <2>3. r.refresh # 0 /\ Known
    BY <1>15 DEF CheckVersion, ClientTypeOK
  <2> HIDE DEF x
  <2>4. QED
    BY <1>1, <1>2, <1>4, <2>1, <2>2, <2>3
<1>16. CASE AnswerLost(c)
  <2>1. req' = [req EXCEPT ![c] = End([r EXCEPT !.got = 0])]
    BY <1>1, <1>16 DEF AnswerLost
  <2>2. [r EXCEPT !.got = 0] \in ClientCall
    BY <1>0, <1>1 DEF ClientCall
  <2>3. QED
    BY <1>2, <1>4, <2>1, <2>2
<1>17. CASE Store(c)
  <2>1. \/ req' = [req EXCEPT ![c] = Again(r)]
        \/ req' = [req EXCEPT ![c] = [r EXCEPT !.at = "save"]]
        \/ req' = [req EXCEPT ![c] = Ready]
    BY <1>17 DEF Store
  <2>2. QED
    BY <1>1, <1>2, <1>3, <1>4, <2>1
<1>18. QED
  BY <1>6, <1>7, <1>8, <1>9, <1>10, <1>11, <1>12, <1>13, <1>14, <1>15, <1>16, <1>17
  DEF ClientStep, LoginPassword, Logout, doWithRetry, doRaw, refreshLocked

\* The pair of an answer is in the table when a goroutine hears of it.
LEMMA HeardTyped ==
  ASSUME TypeOK, ClientTypeOK, ServerMove, NEW w \in Worker, NEW q \in ClientCall
  PROVE  Heard(q, w) \in ClientCall' /\ Heard(q, w).at \in {q.at, "store", "clear", "idle"}
<1> DEFINE got == IF Len(session') > Len(session) THEN Len(session') ELSE q.got
<1>1. Len(session) \in Nat /\ Len(session') \in Nat /\ Len(session) <= Len(session')
  BY PairsStay
<1>2. q \in ClientCall' /\ got \in Pairs'
  BY <1>1 DEF ClientCall, Pairs
<1>3. 0 \in Pairs'
  BY <1>1 DEF Pairs
<1>4. Ready \in ClientCall' /\ Ready.at = "idle"
  BY <1>3 DEF Ready, ClientCall
<1>5. /\ [Ready EXCEPT !.at = "clear"] \in ClientCall'
      /\ [Ready EXCEPT !.at = "clear"].at = "clear"
  BY <1>4 DEF ClientCall
<1>6. End(q) \in ClientCall' /\ End(q).at \in {"clear", "idle"}
  BY <1>4, <1>5 DEF End
<1>7. \/ Heard(q, w) = [q EXCEPT !.got = got]
      \/ Heard(q, w) = [q EXCEPT !.got = got, !.at = "store", !.worker = "none"]
      \/ Heard(q, w) = End(q)
  BY DEF Heard
<1> HIDE DEF got
<1>8. [q EXCEPT !.got = got] \in ClientCall' /\ [q EXCEPT !.got = got].at = q.at
  BY <1>2 DEF ClientCall
<1>9. /\ [q EXCEPT !.got = got, !.at = "store", !.worker = "none"] \in ClientCall'
      /\ [q EXCEPT !.got = got, !.at = "store", !.worker = "none"].at = "store"
  BY <1>2 DEF ClientCall
<1>10. QED
  BY <1>6, <1>7, <1>8, <1>9

LEMMA ClientTypeStep == TypeOK /\ ClientTypeOK /\ [ClientNext]_allVars => ClientTypeOK'
<1> SUFFICES ASSUME TypeOK, ClientTypeOK, [ClientNext]_allVars
             PROVE  ClientTypeOK'
  OBVIOUS
<1>1. Len(session) \in Nat /\ Len(session') \in Nat /\ Len(session) <= Len(session')
  BY PairsStay, ClientIsServer
<1>2. Pairs \subseteq Pairs' /\ 0 \in Pairs /\ 0 \in Pairs'
  BY <1>1 DEF Pairs
<1>3. ClientCall \subseteq ClientCall'
  BY <1>2 DEF ClientCall
<1>4. /\ client \in [access : Pairs, refresh : Pairs, version : Nat]
      /\ file \in Pairs /\ req \in [Caller -> ClientCall]
      /\ \A c \in Caller : req[c].at \in {"check", "refresh"} => req[c].refresh # 0
      /\ code \in AuthCodes /\ made \in Seq(Nat) /\ lost \subseteq Pairs
  BY DEF ClientTypeOK
<1> DEFINE ClientOK == client' \in [access : Pairs, refresh : Pairs, version : Nat]
           FileOK == file' \in Pairs
           ReqOK == /\ req' \in [Caller -> ClientCall']
                    /\ \A c \in Caller : req'[c].at \in {"check", "refresh"}
                                         => req'[c].refresh # 0
           MadeOK == made' \in Seq(Nat)
           LostOK == lost' \subseteq Pairs
           RestOK == ClientOK /\ FileOK /\ code' \in AuthCodes /\ MadeOK /\ LostOK
<1>5. ASSUME RestOK, ReqOK
      PROVE  ClientTypeOK'
  <2>1. /\ client' \in [access : Pairs', refresh : Pairs', version : Nat]
        /\ file' \in Pairs' /\ lost' \subseteq Pairs'
    BY <1>2, <1>5
  <2>2. QED
    BY <1>5, <2>1 DEF ClientTypeOK
<1>6. UNCHANGED req => ReqOK
  BY <1>3, <1>4
<1>7. UNCHANGED <<client, file, code, made, lost>> => RestOK
  BY <1>4
<1>8. CASE UNCHANGED clientVars
  BY <1>5, <1>6, <1>7, <1>8 DEF clientVars
<1>9. ASSUME NEW w \in Worker, ServerStep(w)
      PROVE  ClientTypeOK'
  <2>1. ServerMove
    BY <1>9 DEF ServerStep, ServerMove
  <2>2. ReqOK
    <3>1. req' = [c \in Caller |-> IF req[c].at = "waiting" /\ req[c].worker = w
                                   THEN Heard(req[c], w) ELSE req[c]]
      BY <1>9 DEF ServerStep
    <3>2. ASSUME NEW c \in Caller, req[c].at = "waiting"
          PROVE  /\ Heard(req[c], w) \in ClientCall'
                 /\ Heard(req[c], w).at \notin {"check", "refresh"}
      BY <1>4, <2>1, <3>2, HeardTyped
    <3>3. \A c \in Caller : /\ req'[c] \in ClientCall'
                            /\ req'[c].at \in {"check", "refresh"} => req'[c].refresh # 0
      BY <1>3, <1>4, <3>1, <3>2
    <3>4. QED
      BY <3>1, <3>3
  <2>3. call[w].session \in Nat
    BY CallTyped, IdleTyped DEF Call
  <2>4. MadeOK
    BY <1>4, <1>9, <2>3 DEF ServerStep
  <2>5. RestOK
    BY <1>4, <1>9, <2>4 DEF ServerStep
  <2>6. QED
    BY <1>5, <2>2, <2>5
<1>10. ASSUME NEW c \in Caller, ClientStep(c)
       PROVE  ClientTypeOK'
  <2>1. ReqOK
    <3>1. /\ req' \in [Caller -> ClientCall]
          /\ req'[c].at \in {"check", "refresh"} => req'[c].refresh # 0
          /\ \A d \in Caller : d # c => /\ req'[d].at = req[d].at
                                        /\ req'[d].refresh = req[d].refresh
      BY <1>10, OwnCallTyped
    <3>2. QED
      BY <1>3, <1>4, <3>1
  <2>2. client.access \in Pairs /\ client.refresh \in Pairs /\ client.version \in Nat
    BY <1>4
  <2>3. req[c].got \in Pairs
    BY <1>4 DEF ClientCall
  <2>4. \A pair \in Pairs : /\ WithTokens(pair) \in [access : Pairs, refresh : Pairs, version : Nat]
                            /\ [WithTokens(0) EXCEPT !.version = client.version]
                                 \in [access : Pairs, refresh : Pairs, version : Nat]
    BY <1>2, <2>2 DEF WithTokens
  <2>5. newClient \in [access : Pairs, refresh : Pairs, version : Nat]
    BY <1>2, <1>4 DEF newClient, Nothing
  <2>6. RestOK
    <3>1. CASE Store(c)
      BY <1>4, <2>3, <2>4, <3>1 DEF Store
    <3>2. CASE Clear(c)
      BY <1>2, <1>4, <2>4, <3>2 DEF Clear
    <3>3. CASE persistTokens(c)
      BY <1>4, <2>2, <3>3 DEF persistTokens
    <3>4. CASE AnswerLost(c)
      BY <1>4, <2>3, <3>4 DEF AnswerLost
    <3>5. ASSUME NEW op, Command(c, op)
          PROVE  RestOK
      BY <1>4, <2>5, <3>5 DEF Command, Begin
    <3>6. ASSUME NEW op, Method(c, op) \/ NextCall(c)
          PROVE  RestOK
      BY <1>7, <3>6 DEF Method, NextCall, Begin
    <3>7. CASE doWithRetry(c) \/ CheckVersion(c) \/ RefreshRefused(c)
      BY <1>7, <3>7 DEF doWithRetry, doRaw, Send, Answered, Refused, RequestLost, ReadRefresh,
         CheckVersion, RefreshRefused
    <3>8. ASSUME NEW w \in Worker, RefreshServed(c, w) \/ LoginServed(c, w) \/ LogoutServed(c, w)
          PROVE  RestOK
      BY <1>7, <3>8 DEF RefreshServed, LoginServed, LogoutServed
    <3>9. QED
      BY <1>10, <3>1, <3>2, <3>3, <3>4, <3>5, <3>6, <3>7, <3>8
      DEF ClientStep, Me, LoginPassword, Logout, loginCmd, logoutCmd, payCmd, meCmd,
          refreshLocked
  <2>7. QED
    BY <1>5, <2>1, <2>6
<1>11. CASE Exit
  <2>1. RestOK
    BY <1>2, <1>4, <1>11 DEF Exit, Nothing
  <2>2. QED
    BY <1>5, <1>6, <1>11, <2>1 DEF Exit
<1>12. QED
  BY <1>8, <1>9, <1>10, <1>11 DEF ClientNext, allVars

-----------------------------------------------------------------------------
(* Type correctness.                                                       *)

LEMMA InitTyped == ClientInit => TypeOK /\ ClientTypeOK
<1> SUFFICES ASSUME ClientInit
             PROVE  TypeOK /\ ClientTypeOK
  OBVIOUS
<1>1. LockoutTypeOK
  BY NoCountTyped, LockoutAssumption
  DEF LockoutAssumption, ClientInit, Init, LockoutInit, LockoutTypeOK, Counter
<1>2. 1 \in 1 .. MaxPassword /\ 0 \in 0 .. MaxSecret /\ 0 \in 0 .. MaxFaults
      /\ MaxSessions \in Nat
  BY SessionsAssumption DEF SessionsAssumption
<1>3. TypeOK
  BY <1>1, <1>2 DEF ClientInit, Init, TypeOK
<1>4. Pairs = {0} /\ 0 \in Nat
  BY DEF ClientInit, Init, Pairs
<1>5. Ready \in ClientCall /\ Ready.at = "idle"
  BY <1>4 DEF Ready, ClientCall
<1>6. ClientTypeOK
  BY <1>4, <1>5 DEF ClientInit, ClientTypeOK, Nothing
<1>7. QED
  BY <1>3, <1>6

LEMMA TypesStep == TypeOK /\ ClientTypeOK /\ [ClientNext]_allVars => TypeOK' /\ ClientTypeOK'
<1>1. ASSUME TypeOK, UNCHANGED vars
      PROVE  TypeOK'
  BY <1>1 DEF TypeOK, LockoutTypeOK, vars
<1>2. QED
  BY <1>1, TypeStep, ClientTypeStep, ClientIsServer

\* The tables, the keys of Redis, the requests and the clients keep their
\* types: what a request knows of an account and a pair is of the table.
THEOREM TypeCorrect == ClientSpec => [](TypeOK /\ ClientTypeOK)
BY InitTyped, TypesStep, PTL DEF ClientSpec

-----------------------------------------------------------------------------
(* Logging out.                                                            *)

\* The blacklist entry outlives the access token and its skew.
BlackHolds ==
    \A i \in DOMAIN session :
      session[i].out => \/ session[i].left <= -Skew
                        \/ session[i].black >= session[i].left + Skew

LEMMA BlackHoldsStep ==
  TypeOK /\ BlackHolds /\ (ServerMove \/ UNCHANGED vars) => BlackHolds'
<1> SUFFICES ASSUME TypeOK, BlackHolds, ServerMove \/ UNCHANGED vars
             PROVE  BlackHolds'
  OBVIOUS
<1>1. Skew \in Nat /\ Grace \in Nat /\ Skew <= Grace
  BY SessionsAssumption, SkewWithinGrace DEF SessionsAssumption
<1>2. \A i \in DOMAIN session : session[i].left \in Int /\ session[i].black \in Nat
  BY RowTyped DEF Session
<1>3. ASSUME UNCHANGED session
      PROVE  BlackHolds'
  BY <1>3 DEF BlackHolds
<1>4. ASSUME NEW w \in Worker, Issue(w)
      PROVE  BlackHolds'
  <2>1. ~Issued(call[w]).out
    BY DEF Issued
  <2>2. QED
    BY <1>4, <2>1, IssueTyped DEF BlackHolds
<1>5. ASSUME DOMAIN session' = DOMAIN session,
             \A i \in DOMAIN session : /\ session'[i].left = session[i].left
                                       /\ session'[i].black = session[i].black
                                       /\ session'[i].out = session[i].out
      PROVE  BlackHolds'
  BY <1>5 DEF BlackHolds
<1>6. ASSUME NEW w \in Worker, RefreshRevoke(w) \/ RevokeAll(w)
      PROVE  BlackHolds'
  BY <1>5, <1>6, RevokedSequel, RevokedAllSequel DEF RefreshRevoke, RevokeAll
<1>7. ASSUME RefreshExpires
      PROVE  BlackHolds'
  BY <1>5, <1>7, RevokedSequel DEF RefreshExpires
<1>8. ASSUME NEW w \in Worker, NEW j \in DOMAIN session, LogoutBlacklist(w, j)
      PROVE  BlackHolds'
  <2>1. session' = Blacklisted(j) /\ DOMAIN session' = DOMAIN session
    BY <1>8, BlacklistedSequel DEF LogoutBlacklist
  <2>2. session[j].left > -Skew
    BY <1>8 DEF LogoutBlacklist, AuthRequired, Parse
  <2>3. BlackFor(j) >= session[j].left + Skew
    BY <1>1, <1>2, <2>2 DEF BlackFor
  <2>4. ASSUME NEW i \in DOMAIN session
        PROVE  session'[i].out => \/ session'[i].left <= -Skew
                                  \/ session'[i].black >= session'[i].left + Skew
    <3>1. CASE i = j
      BY <2>1, <2>3, <3>1, BlacklistedSequel
    <3>2. CASE i # j
      BY <2>1, <3>2, BlacklistedSequel DEF BlackHolds
    <3>3. QED
      BY <3>1, <3>2
  <2>5. QED
    BY <2>1, <2>4 DEF BlackHolds
<1>9. ASSUME Tick
      PROVE  BlackHolds'
  <2>1. DOMAIN session' = DOMAIN session
    BY <1>9, TickSequel
  <2>2. ASSUME NEW i \in DOMAIN session, session'[i].out, session'[i].left > -Skew
        PROVE  session'[i].black >= session'[i].left + Skew
    <3>1. /\ session'[i].left = IF session[i].left <= -Skew THEN session[i].left
                                ELSE session[i].left - 1
          /\ session'[i].black = IF session[i].black = 0 THEN 0 ELSE session[i].black - 1
          /\ session[i].out
      BY <1>9, <2>2, TickSequel
    <3>2. session[i].left > -Skew
      BY <1>1, <1>2, <2>2, <3>1
    <3>3. session[i].black >= session[i].left + Skew
      BY <1>1, <1>2, <3>1, <3>2 DEF BlackHolds
    <3>4. QED
      BY <1>1, <1>2, <3>1, <3>2, <3>3
  <2>3. ASSUME NEW i \in DOMAIN session
        PROVE  session'[i].left \in Int
    BY <1>9, <2>3, TickSequel DEF Sequel, Session
  <2>4. QED
    BY <1>1, <2>1, <2>2, <2>3 DEF BlackHolds
<1>10. QED
  BY <1>3, <1>4, <1>6, <1>7, <1>8, <1>9, SessionSteps DEF vars, sessionVars

\* An access token that somebody logged out with is let through only by a look-up
\* of the blacklist that fails, for any life of a token and any skew that
\* Logout's minute covers: the entry that it wrote in the blacklist is there for
\* as long as the middleware, with its skew, would take the token.
THEOREM LoggedOutIsOut == ClientSpec => LoggedOutStaysOut
<1> DEFINE Out == \A i \in DOMAIN session : session[i].out
                    => /\ LetIn(i) => faults' = faults + 1
                       /\ (\E w \in Worker : LogoutUnlisted(w, i)) => faults' = faults + 2
<1>1. ClientInit => BlackHolds
  BY DEF ClientInit, Init, BlackHolds
<1>2. TypeOK /\ ClientTypeOK /\ BlackHolds /\ [ClientNext]_allVars => BlackHolds'
  BY BlackHoldsStep, ClientIsServer
<1>3. ASSUME TypeOK, BlackHolds, NEW i \in DOMAIN session, session[i].out
      PROVE  /\ LetIn(i) => faults' = faults + 1
             /\ (\E w \in Worker : LogoutUnlisted(w, i)) => faults' = faults + 2
  <2>1. session[i].left \in Int /\ session[i].black \in Nat /\ Skew \in Nat
    BY <1>3, RowTyped, SessionsAssumption DEF Session, SessionsAssumption
  <2>2. Parse(i) => IsRevoked(i)
    BY <1>3, <2>1 DEF BlackHolds, Parse, IsRevoked
  <2>3. LetIn(i) => AuthRequired(i)
    BY DEF LetIn, LogoutBlacklist, ChangeFind, EnrollFind, VerifyFind, DisableFind, Answered
  <2>4. AuthRequired(i) => faults' = faults + 1
    BY <2>2 DEF AuthRequired
  <2>5. \A w \in Worker : LogoutUnlisted(w, i) => faults' = faults + 2
    BY <2>2 DEF LogoutUnlisted
  <2>6. QED
    BY <2>3, <2>4, <2>5
<1>4. TypeOK /\ BlackHolds => Out
  BY <1>3
<1>5. QED
  BY <1>1, <1>2, <1>4, TypeCorrect, PTL DEF ClientSpec, LoggedOutStaysOut

-----------------------------------------------------------------------------
(* The second factor.                                                      *)

\* What a call that is about to write to the factor found before.
FactorFound(c) ==
    c.at = "totp" => /\ c.op \in {"verify", "disable"} => c.code \in proven[c.user]
                     /\ c.op = "enroll" => c.n = 0

FactorHolds ==
    /\ \A u \in User : user[u].totp => user[u].secret \in proven[u]
    /\ \A w \in Worker : FactorFound(call[w])

\* A request comes to the factor's statement only by reading the row first.
LEMMA BeginsTotp ==
  ASSUME TypeOK, FactorHolds, NEW w \in Worker, Begins(w) \/ FirstCommandFails(w)
  PROVE  FactorFound(call[w])'
<1>1. PICK x \in Call : Turn(w, x) /\ BeginsAs(w, x)
  BY BeginTurn
<1>2. call'[w] = x
  BY <1>1, TurnTyped
<1>3. CASE x.at # "totp"
  BY <1>2, <1>3 DEF FactorFound
<1>4. CASE x.at = "totp"
  <2>1. PICK i \in DOMAIN session :
          /\ x.user = session[i].user
          /\ \/ EnrollFind(w, i) /\ x.op = "enroll" /\ x.n = 0
             \/ VerifyFind(w, i, x.code) /\ x.op = "verify"
             \/ DisableFind(w, i, x.code) /\ x.op = "disable"
    BY <1>1, <1>4 DEF BeginsAs
  <2>2. x.user \in User
    BY DEF Call
  <2>3. CASE EnrollFind(w, i) /\ x.op = "enroll" /\ x.n = 0
    BY <1>2, <2>3 DEF FactorFound
  <2>4. CASE VerifyFind(w, i, x.code) /\ x.op = "verify"
    <3>1. proven' = [proven EXCEPT ![x.user] = proven[x.user] \cup {x.code}]
      BY <2>1, <2>4 DEF VerifyFind
    <3>2. x.code \in proven'[x.user]
      BY <2>2, <3>1 DEF TypeOK
    <3>3. QED
      BY <1>2, <2>4, <3>2 DEF FactorFound
  <2>5. CASE DisableFind(w, i, x.code) /\ x.op = "disable"
    BY <1>2, <2>1, <2>2, <2>5
    DEF DisableFind, ValidCode, FactorHolds, FactorFound, sessionVars
  <2>6. QED
    BY <2>1, <2>3, <2>4, <2>5
<1>5. QED
  BY <1>3, <1>4

\* What a call found stays so while it waits: no proof of a secret is forgotten.
LEMMA FactorFoundStep ==
  ASSUME TypeOK, FactorHolds, ServerMove
  PROVE  /\ \A u \in User : proven[u] \subseteq proven'[u]
         /\ \A w \in Worker : FactorFound(call[w])'
<1>1. ASSUME NEW u \in User
      PROVE  proven[u] \subseteq proven'[u]
  <2>1. ASSUME NEW w \in Worker, NEW i \in DOMAIN session, NEW k \in 1 .. MaxSecret,
               VerifyFind(w, i, k)
        PROVE  proven[u] \subseteq proven'[u]
    BY <2>1 DEF VerifyFind, TypeOK
  <2>2. ASSUME NEW w \in Worker, \/ ChangeWrite(w) \/ EnrollWrite(w) \/ VerifyWrite(w)
                                 \/ DisableWrite(w) \/ Fault(w)
        PROVE  UNCHANGED proven
    BY <2>2 DEF ChangeWrite, EnrollWrite, VerifyWrite, DisableWrite, Fault
  <2>3. QED
    BY <2>1, <2>2, UserSteps
<1>2. ASSUME NEW v \in Worker, call'[v] = call[v]
      PROVE  FactorFound(call[v])'
  <2>1. FactorFound(call[v])
    BY DEF FactorHolds
  <2>2. call[v].at = "totp" => call[v].user \in User
    BY CallTyped DEF Call
  <2>3. QED
    BY <1>1, <1>2, <2>1, <2>2 DEF FactorFound
<1>3. ASSUME NEW w \in Worker, NEW v \in Worker, Begins(w) \/ FirstCommandFails(w)
      PROVE  FactorFound(call[v])'
  <2>1. v # w => call'[v] = call[v]
    BY <1>3, BeginTurn, TurnTyped
  <2>2. QED
    BY <1>2, <1>3, <2>1, BeginsTotp
<1>4. ASSUME NEW w \in Worker, NEW v \in Worker, RevokeAll(w)
      PROVE  FactorFound(call[v])'
  <2>1. CASE v = w
    BY <1>4, <2>1, CrossingTyped DEF FactorFound, Idle
  <2>2. CASE v # w /\ call'[v] = call[v]
    BY <1>2, <2>2
  <2>3. CASE v # w /\ call'[v] # call[v]
    <3>1. call[v] \in Call /\ call'[v] = [call[v] EXCEPT !.crossed = TRUE]
      BY <1>4, <2>3, CrossingTyped
    <3>2. /\ call'[v].at = call[v].at /\ call'[v].op = call[v].op
          /\ call'[v].code = call[v].code /\ call'[v].user = call[v].user
          /\ call'[v].n = call[v].n /\ call[v].user \in User
      BY <3>1 DEF Call
    <3>3. FactorFound(call[v])
      BY DEF FactorHolds
    <3>4. QED
      BY <1>1, <3>2, <3>3 DEF FactorFound
  <2>4. QED
    BY <2>1, <2>2, <2>3
<1>5. ASSUME NEW w \in Worker, NEW v \in Worker, LoginStep(w) \/ SessionStep(w) \/ Fault(w),
             ~RevokeAll(w)
      PROVE  FactorFound(call[v])'
  <2>1. PICK x \in Call \cup {Idle} : Turn(w, x) /\ (x = Idle \/ GoesOnAs(w, x))
    BY <1>5, GoesOnTurn
  <2>2. CASE v # w
    BY <1>2, <2>1, <2>2, TurnTyped
  <2>3. CASE v = w
    BY <2>1, <2>3, TurnTyped DEF GoesOnAs, FactorFound, Idle
  <2>4. QED
    BY <2>2, <2>3
<1>6. ASSUME NEW v \in Worker, UNCHANGED call
      PROVE  FactorFound(call[v])'
  BY <1>2, <1>6
<1>7. QED
  BY <1>1, <1>3, <1>4, <1>5, <1>6 DEF ServerMove, RefreshExpires, Tick, MessageLost

LEMMA FactorHoldsStep ==
  TypeOK /\ FactorHolds /\ (ServerMove \/ UNCHANGED vars) => FactorHolds'
<1> SUFFICES ASSUME TypeOK, FactorHolds, ServerMove
             PROVE  FactorHolds'
  BY DEF vars, sessionVars, FactorHolds, FactorFound
<1>1. \A u \in User : proven[u] \subseteq proven'[u]
  BY FactorFoundStep
<1>2. ASSUME NEW u \in User, user'[u].totp
      PROVE  user'[u].secret \in proven'[u]
  <2>1. ASSUME user'[u].totp = user[u].totp, user'[u].secret = user[u].secret
        PROVE  user'[u].secret \in proven'[u]
    BY <1>1, <1>2, <2>1 DEF FactorHolds
  <2>2. ASSUME NEW w \in Worker, NEW i \in DOMAIN session, NEW k \in 1 .. MaxSecret,
               VerifyFind(w, i, k)
        PROVE  user'[u].secret \in proven'[u]
    BY <2>1, <2>2 DEF VerifyFind
  <2>3. ASSUME NEW w \in Worker, ChangeWrite(w)
        PROVE  user'[u].secret \in proven'[u]
    BY <2>1, <2>3, ChangeWriteRow
  <2>4. ASSUME NEW w \in Worker, EnrollWrite(w)
        PROVE  user'[u].secret \in proven'[u]
    <3> DEFINE v == call[w].user
    <3>1. v \in User
      BY <2>4, CallTyped DEF EnrollWrite, Call
    <3>2. UpdateTOTP(v, secrets[v] + 1, FALSE) /\ secrets[v] < MaxSecret
      BY <2>4 DEF EnrollWrite
    <3>3. secrets[v] + 1 \in 0 .. MaxSecret
      BY <3>1, <3>2, UserTyped, SessionsAssumption DEF SessionsAssumption
    <3> HIDE DEF v
    <3>4. ~user'[v].totp /\ (u # v => user'[u] = user[u])
      BY <3>1, <3>2, <3>3, UpdateTOTPRow
    <3>5. QED
      BY <1>2, <2>1, <3>4
  <2>5. ASSUME NEW w \in Worker, VerifyWrite(w)
        PROVE  user'[u].secret \in proven'[u]
    <3>1. call[w].user \in User /\ call[w].code \in 0 .. MaxSecret
      BY <2>5, CallTyped DEF VerifyWrite, Call
    <3>2. /\ user'[call[w].user].secret = call[w].code
          /\ u # call[w].user => user'[u] = user[u]
      BY <2>5, <3>1, UpdateTOTPRow DEF VerifyWrite
    <3>3. call[w].code \in proven[call[w].user]
      BY <2>5 DEF VerifyWrite, FactorHolds, FactorFound
    <3>4. QED
      BY <1>1, <2>1, <3>1, <3>2, <3>3
  <2>6. ASSUME NEW w \in Worker, DisableWrite(w)
        PROVE  user'[u].secret \in proven'[u]
    <3>1. call[w].user \in User
      BY <2>6, CallTyped DEF DisableWrite, Call
    <3>2. ~user'[call[w].user].totp /\ (u # call[w].user => user'[u] = user[u])
      BY <2>6, <3>1, UpdateTOTPRow, Bounds DEF DisableWrite
    <3>3. QED
      BY <1>2, <2>1, <3>2
  <2>7. ASSUME NEW w \in Worker, Fault(w)
        PROVE  user'[u].secret \in proven'[u]
    BY <2>1, <2>7 DEF Fault
  <2>8. QED
    BY <2>1, <2>2, <2>3, <2>4, <2>5, <2>6, <2>7, UserSteps
<1>3. QED
  BY <1>2, FactorFoundStep DEF FactorHolds

LEMMA FactorInductive == ClientSpec => []FactorHolds
<1>1. ClientInit => FactorHolds
  BY DEF ClientInit, Init, FactorHolds, FactorFound, Idle
<1>2. TypeOK /\ ClientTypeOK /\ FactorHolds /\ [ClientNext]_allVars => FactorHolds'
  BY FactorHoldsStep, ClientIsServer
<1>3. QED
  BY <1>1, <1>2, TypeCorrect, PTL DEF ClientSpec

\* While the second factor is on, its secret is one that its owner gave a valid
\* code for, whatever enrolments, verifications and disablings interleave:
\* VerifyTOTP writes the very secret whose code it checked.
THEOREM FactorIsProven == ClientSpec => []SecretInUseWasProven
<1>1. FactorHolds => SecretInUseWasProven
  BY DEF FactorHolds, SecretInUseWasProven
<1>2. QED
  BY <1>1, FactorInductive, PTL

\* What turns the second factor off is the last statement of a disabling that
\* gave a valid code, or of an enrolment that found the factor off and wrote
\* after a verification had turned it on.
THEOREM FactorIsNotDropped == ClientSpec => FactorStaysOn
<1> DEFINE Off == \A u \in User : user[u].totp /\ ~user'[u].totp
              => \E w \in Worker :
                   /\ call[w].at = "totp" /\ call[w].user = u /\ call'[w] = Idle
                   /\ \/ call[w].op = "disable" /\ call[w].code \in proven[u]
                      \/ call[w].op = "enroll" /\ call[w].n = 0
<1>1. ASSUME TypeOK, FactorHolds, ServerMove \/ UNCHANGED vars
      PROVE  Off
  <2> SUFFICES ASSUME NEW u \in User, user[u].totp, ~user'[u].totp
               PROVE  \E w \in Worker :
                        /\ call[w].at = "totp" /\ call[w].user = u /\ call'[w] = Idle
                        /\ \/ call[w].op = "disable" /\ call[w].code \in proven[u]
                           \/ call[w].op = "enroll" /\ call[w].n = 0
    OBVIOUS
  <2>1. ServerMove
    BY <1>1 DEF vars, sessionVars
  <2>2. PICK w \in Worker : EnrollWrite(w) \/ VerifyWrite(w) \/ DisableWrite(w)
    <3>1. \A w \in Worker : ChangeWrite(w) => user'[u].totp = user[u].totp
      BY <1>1, ChangeWriteRow
    <3>2. \A w \in Worker : Fault(w) => UNCHANGED user
      BY DEF Fault
    <3>3. \A w \in Worker : \A i \in DOMAIN session : \A k \in 1 .. MaxSecret :
            VerifyFind(w, i, k) => UNCHANGED user
      BY DEF VerifyFind
    <3>4. QED
      BY <2>1, <3>1, <3>2, <3>3, UserSteps
  <2>3. /\ call[w].at = "totp" /\ call[w].op \in {"enroll", "verify", "disable"}
        /\ call[w].op = "verify" => VerifyWrite(w)
    BY <2>2 DEF EnrollWrite, VerifyWrite, DisableWrite
  <2>4. call[w].user = u
    <3> DEFINE v == call[w].user
    <3>1. v \in User /\ call[w].code \in 0 .. MaxSecret
      BY <1>1, <2>3, CallTyped DEF Call
    <3>2. \E k \in 0 .. MaxSecret, on \in BOOLEAN : UpdateTOTP(v, k, on)
      <4>1. CASE EnrollWrite(w)
        <5>1. secrets[v] < MaxSecret /\ UpdateTOTP(v, secrets[v] + 1, FALSE)
          BY <4>1 DEF EnrollWrite
        <5>2. secrets[v] + 1 \in 0 .. MaxSecret
          BY <1>1, <3>1, <5>1, UserTyped, SessionsAssumption DEF SessionsAssumption
        <5>3. QED
          BY <5>1, <5>2
      <4>2. CASE VerifyWrite(w) \/ DisableWrite(w)
        BY <3>1, <4>2, Bounds DEF VerifyWrite, DisableWrite
      <4>3. QED
        BY <2>2, <4>1, <4>2
    <3> HIDE DEF v
    <3>3. u # v => user'[u] = user[u]
      BY <1>1, <3>1, <3>2, UpdateTOTPRow
    <3>4. QED
      BY <3>3 DEF v
  <2>5. call[w].op # "verify"
    <3>1. call[w].user \in User /\ call[w].code \in 0 .. MaxSecret
      BY <1>1, <2>3, CallTyped DEF Call
    <3>2. VerifyWrite(w) => user'[u].totp
      BY <1>1, <2>4, <3>1, UpdateTOTPRow DEF VerifyWrite
    <3>3. QED
      BY <2>3, <3>2
  <2>6. call'[w] = Idle
    BY <1>1, <2>2, DoneTurn, TurnTyped DEF EnrollWrite, VerifyWrite, DisableWrite
  <2>7. FactorFound(call[w])
    BY <1>1 DEF FactorHolds
  <2>8. QED
    BY <2>3, <2>4, <2>5, <2>6, <2>7 DEF FactorFound
<1>2. TypeOK /\ ClientTypeOK /\ FactorHolds /\ [ClientNext]_allVars => [Off]_vars
  BY <1>1, ClientIsServer
<1>3. QED
  BY <1>2, TypeCorrect, FactorInductive, PTL DEF ClientSpec, FactorStaysOn

-----------------------------------------------------------------------------
(* Changing the password.                                                  *)

\* A change of the account's password has its sessions yet to revoke.
RevocationDue(u) ==
    \E w \in Worker : call[w].op = "change" /\ call[w].at = "revokeAll" /\ call[w].user = u

\* A session with this password may go on: it is of the present one, or
\* excused, b being whether a revocation came while its call ran.
MayGoOn(u, password, b) ==
    password < user[u].password => b \/ u \in dropped \/ RevocationDue(u)

\* A call that is about to issue tokens is like a session that lives.
OldHolds ==
    /\ \A i \in DOMAIN session :
         session[i].live => MayGoOn(session[i].user, session[i].password, session[i].crossed)
    /\ \A w \in Worker :
         call[w].at \in {"issue", "revokeOne"}
         => MayGoOn(call[w].user, call[w].password, call[w].crossed)

\* A change of password is written before its revocation is due.
LEMMA NewPasswordDue ==
  ASSUME TypeOK, ServerMove, NEW u \in User
  PROVE  user'[u].password = user[u].password \/ RevocationDue(u)'
<1>1. ASSUME NEW w \in Worker, ChangeWrite(w)
      PROVE  user'[u].password = user[u].password \/ RevocationDue(u)'
  <2>1. CASE u # call[w].user
    BY <1>1, <2>1, ChangeWriteRow
  <2>2. CASE u = call[w].user
    <3>1. call[w] \in Call /\ call[w].op = "change" /\ Go(w, "revokeAll")
      BY <1>1, CallTyped DEF ChangeWrite
    <3>2. call'[w] = [call[w] EXCEPT !.at = "revokeAll"]
      BY <3>1 DEF Go, TypeOK
    <3>3. call'[w].op = "change" /\ call'[w].at = "revokeAll" /\ call'[w].user = u
      BY <2>2, <3>1, <3>2 DEF Call
    <3>4. QED
      BY <3>3 DEF RevocationDue
  <2>3. QED
    BY <2>1, <2>2
<1>2. ASSUME NEW w \in Worker, EnrollWrite(w)
      PROVE  user'[u].password = user[u].password
  <2> DEFINE v == call[w].user
  <2>1. v \in User
    BY <1>2, CallTyped DEF EnrollWrite, Call
  <2>2. UpdateTOTP(v, secrets[v] + 1, FALSE) /\ secrets[v] < MaxSecret
    BY <1>2 DEF EnrollWrite
  <2>3. secrets[v] + 1 \in 0 .. MaxSecret
    BY <2>1, <2>2, UserTyped, SessionsAssumption DEF SessionsAssumption
  <2> HIDE DEF v
  <2>4. QED
    BY <2>1, <2>2, <2>3, UpdateTOTPRow
<1>3. ASSUME NEW w \in Worker, VerifyWrite(w) \/ DisableWrite(w)
      PROVE  user'[u].password = user[u].password
  <2>1. call[w].user \in User /\ call[w].code \in 0 .. MaxSecret
    BY <1>3, CallTyped DEF VerifyWrite, DisableWrite, Call
  <2>2. \E k \in 0 .. MaxSecret, on \in BOOLEAN : UpdateTOTP(call[w].user, k, on)
    BY <1>3, <2>1, Bounds DEF VerifyWrite, DisableWrite
  <2>3. QED
    BY <2>1, <2>2, UpdateTOTPRow
<1>4. ASSUME NEW w \in Worker, NEW i \in DOMAIN session, NEW k \in 1 .. MaxSecret,
             VerifyFind(w, i, k) \/ Fault(w)
      PROVE  user'[u].password = user[u].password
  BY <1>4 DEF VerifyFind, Fault
<1>5. ASSUME NEW w \in Worker, Fault(w)
      PROVE  user'[u].password = user[u].password
  BY <1>5 DEF Fault
<1>6. QED
  BY <1>1, <1>2, <1>3, <1>4, <1>5, UserSteps

\* A revocation that is due comes, or fails and is recorded as dropped.
LEMMA RevocationComes ==
  ASSUME TypeOK, ServerMove, NEW u \in User
  PROVE  /\ dropped \subseteq dropped'
         /\ RevocationDue(u) => \/ RevocationDue(u)' \/ u \in dropped'
                                \/ \E w \in Worker : RevokeAll(w) /\ call[w].user = u
<1>1. dropped \subseteq dropped'
  BY UserSteps DEF VerifyFind, ChangeWrite, EnrollWrite, VerifyWrite, DisableWrite, Fault
<1>2. SUFFICES ASSUME RevocationDue(u), ~ \E w \in Worker : RevokeAll(w) /\ call[w].user = u
               PROVE  RevocationDue(u)' \/ u \in dropped'
  BY <1>1
<1>3. PICK v \in Worker : call[v].op = "change" /\ call[v].at = "revokeAll" /\ call[v].user = u
  BY <1>2 DEF RevocationDue
<1>4. ASSUME call'[v] = call[v]
      PROVE  RevocationDue(u)'
  BY <1>3, <1>4 DEF RevocationDue
<1>5. ASSUME NEW w \in Worker, Begins(w) \/ FirstCommandFails(w)
      PROVE  RevocationDue(u)'
  <2>1. v # w /\ call'[v] = call[v]
    BY <1>3, <1>5, BeginTurn, TurnTyped
  <2>2. QED
    BY <1>4, <2>1
<1>6. ASSUME NEW w \in Worker, LoginStep(w) \/ SessionStep(w) \/ Fault(w), w # v
      PROVE  RevocationDue(u)'
  <2>1. CASE RevokeAll(w)
    BY <1>2, <1>3, <1>4, <1>6, <2>1, CrossingTyped
  <2>2. CASE ~RevokeAll(w)
    BY <1>4, <1>6, <2>2, GoesOnTurn, TurnTyped
  <2>3. QED
    BY <2>1, <2>2
<1>7. ASSUME LoginStep(v) \/ SessionStep(v)
      PROVE  FALSE
  BY <1>2, <1>3, <1>7 DEF LoginStep, SessionStep, LoginRate, LoginFind, LoginIncr, LoginExpire,
     LoginLock, Issue, LoginReset, RefreshRevoke, ChangeWrite, EnrollWrite, VerifyWrite,
     DisableWrite
<1>8. ASSUME Fault(v)
      PROVE  u \in dropped'
  BY <1>3, <1>8 DEF Fault
<1>9. ASSUME UNCHANGED call
      PROVE  RevocationDue(u)'
  BY <1>4, <1>9
<1>10. QED
  BY <1>5, <1>6, <1>7, <1>8, <1>9 DEF ServerMove, RefreshExpires, Tick, MessageLost

\* So what may go on may still go on after a step that revokes no sessions of
\* the account.
LEMMA GoesOn ==
  ASSUME TypeOK, ServerMove, NEW u \in User, NEW p, NEW b, MayGoOn(u, p, b),
         ~ \E w \in Worker : RevokeAll(w) /\ call[w].user = u
  PROVE  MayGoOn(u, p, b)'
BY NewPasswordDue, RevocationComes DEF MayGoOn

LEMMA OldHoldsStep ==
  TypeOK /\ OldHolds /\ (ServerMove \/ UNCHANGED vars) => OldHolds'
<1> SUFFICES ASSUME TypeOK, OldHolds, ServerMove
             PROVE  OldHolds'
  BY DEF vars, sessionVars, OldHolds, MayGoOn, RevocationDue
<1> DEFINE Row(r) == r.live => MayGoOn(r.user, r.password, r.crossed)
           Due(c) == c.at \in {"issue", "revokeOne"} => MayGoOn(c.user, c.password, c.crossed)
<1>1. /\ \A i \in DOMAIN session : Row(session[i]) /\ session[i].user \in User
      /\ \A w \in Worker : Due(call[w])
  BY RowTyped DEF OldHolds, Session
<1>2. SUFFICES /\ \A i \in DOMAIN session' : Row(session[i])'
               /\ \A w \in Worker : Due(call[w])'
  BY DEF OldHolds
<1>3. CASE \E w \in Worker : RevokeAll(w)
  <2>1. PICK w \in Worker : RevokeAll(w)
    BY <1>3
  <2> DEFINE u == call[w].user
  <2>2. /\ session' = RevokedAll(u) /\ DOMAIN session' = DOMAIN session
        /\ UNCHANGED <<user, dropped>> /\ u \in User
    BY <2>1, RevokedAllSequel, CallTyped DEF RevokeAll, Call
  <2>3. ASSUME NEW v \in User, v # u, NEW p, NEW b, MayGoOn(v, p, b)
        PROVE  MayGoOn(v, p, b)'
    <3>1. RevocationDue(v) => RevocationDue(v)'
      BY <2>1, <2>3, CrossingTyped DEF RevocationDue
    <3>2. QED
      BY <2>2, <2>3, <3>1 DEF MayGoOn
  <2>4. ASSUME NEW i \in DOMAIN session'
        PROVE  Row(session[i])'
    <3>1. Sequel(session', i) /\ i \in DOMAIN session
      BY <2>2, <2>4, RevokedAllSequel
    <3>2. CASE session[i].user = u
      BY <2>2, <3>1, <3>2, RevokedAllSequel
    <3>3. CASE session[i].user # u
      BY <1>1, <2>3, <3>1, <3>3 DEF Sequel
    <3>4. QED
      BY <3>2, <3>3
  <2>5. ASSUME NEW v \in Worker
        PROVE  Due(call[v])'
    <3>1. CASE v = w
      BY <2>1, <3>1, CrossingTyped DEF Idle
    <3>2. CASE v # w /\ call[v].user = u
      <4>1. call[v] \in Call /\ call'[v] = [call[v] EXCEPT !.crossed = TRUE]
        BY <2>1, <3>2, CrossingTyped
      <4>2. call'[v].crossed
        BY <4>1 DEF Call
      <4>3. QED
        BY <4>2 DEF MayGoOn
    <3>3. CASE v # w /\ call[v].user # u
      <4>1. call'[v] = call[v]
        BY <2>1, <3>3, CrossingTyped
      <4>2. call[v].at \in {"issue", "revokeOne"} => call[v].user \in User
        BY CallTyped DEF Call
      <4>3. QED
        BY <1>1, <2>3, <3>3, <4>1, <4>2
    <3>4. QED
      BY <3>1, <3>2, <3>3
  <2>6. QED
    BY <2>4, <2>5
<1>4. CASE ~ \E w \in Worker : RevokeAll(w)
  <2>1. ASSUME NEW u \in User, NEW p, NEW b, MayGoOn(u, p, b)
        PROVE  MayGoOn(u, p, b)'
    BY <1>4, <2>1, GoesOn
  <2>2. ASSUME NEW v \in Worker, call'[v] = call[v]
        PROVE  Due(call[v])'
    <3>1. call[v].at \in {"issue", "revokeOne"} => call[v].user \in User
      BY CallTyped DEF Call
    <3>2. QED
      BY <1>1, <2>1, <2>2, <3>1
  <2>3. ASSUME NEW i \in DOMAIN session, Sequel(session', i)
        PROVE  Row(session[i])'
    BY <1>1, <2>1, <2>3 DEF Sequel
  <2>4. ASSUME NEW i \in DOMAIN session'
        PROVE  Row(session[i])'
    <3>1. ASSUME NEW w \in Worker, Issue(w)
          PROVE  Row(session[i])'
      <4>1. CASE i \in DOMAIN session /\ session'[i] = session[i]
        BY <1>1, <2>1, <4>1
      <4>2. CASE session'[i] = Issued(call[w])
        <5>1. call[w] \in Call /\ call[w].at = "issue"
          BY <3>1, CallTyped DEF Issue
        <5>2. MayGoOn(call[w].user, call[w].password, call[w].crossed) /\ call[w].user \in User
          BY <1>1, <5>1 DEF Call
        <5>3. PICK c \in Call : c = call[w]
          BY <5>1
        <5>4. MayGoOn(c.user, c.password, c.crossed)'
          BY <2>1, <5>2, <5>3
        <5>5. /\ session'[i].user = c.user /\ session'[i].password = c.password
              /\ session'[i].crossed = c.crossed
          BY <4>2, <5>3 DEF Issued
        <5>6. QED
          BY <5>4, <5>5
      <4>3. QED
        BY <3>1, <4>1, <4>2, IssueTyped
    <3>2. QED
      BY <2>3, <3>1, TableStays
  <2>5. ASSUME NEW w \in Worker, Begins(w) \/ FirstCommandFails(w)
        PROVE  Due(call[w])'
    <3>1. PICK x \in Call : Turn(w, x) /\ BeginsAs(w, x)
      BY <2>5, BeginTurn
    <3>2. call'[w] = x
      BY <3>1, TurnTyped
    <3>3. CASE x.at \notin {"issue", "revokeOne"}
      BY <3>2, <3>3
    <3>4. CASE x.at \in {"issue", "revokeOne"}
      <4>1. PICK i \in DOMAIN session :
              /\ RefreshFind(w, i)
              /\ x.user = session[i].user /\ x.password = session[i].password
              /\ x.crossed = session[i].crossed
        BY <3>1, <3>4 DEF BeginsAs
      <4>2. MayGoOn(x.user, x.password, x.crossed) /\ x.user \in User
        BY <1>1, <4>1 DEF RefreshFind, IsActive
      <4>3. MayGoOn(x.user, x.password, x.crossed)'
        BY <2>1, <4>2
      <4>4. QED
        BY <3>2, <4>3
    <3>5. QED
      BY <3>3, <3>4
  <2>6. ASSUME NEW w \in Worker, LoginStep(w) \/ SessionStep(w) \/ Fault(w)
        PROVE  Due(call[w])'
    <3>1. PICK x \in Call \cup {Idle} : Turn(w, x) /\ (x = Idle \/ GoesOnAs(w, x))
      BY <1>4, <2>6, GoesOnTurn
    <3>2. call'[w] = x
      BY <3>1, TurnTyped
    <3>3. CASE x.at \notin {"issue", "revokeOne"}
      BY <3>2, <3>3
    <3>4. CASE x.at \in {"issue", "revokeOne"}
      <4>1. x # Idle /\ x \in Call /\ GoesOnAs(w, x) /\ x.at = "issue"
        BY <3>1, <3>4 DEF Idle, GoesOnAs
      <4>2. x.user = call[w].user /\ x.password = call[w].password /\ x.crossed = call[w].crossed
        BY <4>1 DEF GoesOnAs
      <4>3. MayGoOn(x.user, x.password, x.crossed)
        <5>1. CASE RefreshRevoke(w)
          BY <1>1, <4>2, <5>1 DEF RefreshRevoke
        <5>2. CASE CheckPassword(call[w].user, call[w].password)
          <6>1. user[x.user].password \in Nat
            BY <4>1 DEF Call, TypeOK
          <6>2. x.password = user[x.user].password
            BY <4>2, <5>2 DEF CheckPassword
          <6>3. QED
            BY <6>1, <6>2 DEF MayGoOn
        <5>3. QED
          BY <4>1, <5>1, <5>2 DEF GoesOnAs
      <4>4. x.user \in User
        BY <4>1 DEF Call
      <4>5. MayGoOn(x.user, x.password, x.crossed)'
        BY <2>1, <4>3, <4>4
      <4>6. QED
        BY <3>2, <4>5
    <3>5. QED
      BY <3>3, <3>4
  <2>7. ASSUME NEW v \in Worker
        PROVE  Due(call[v])'
    <3>1. ASSUME NEW w \in Worker, Begins(w) \/ FirstCommandFails(w)
          PROVE  Due(call[v])'
      <4>1. v # w => call'[v] = call[v]
        BY <3>1, BeginTurn, TurnTyped
      <4>2. QED
        BY <2>2, <2>5, <3>1, <4>1
    <3>2. ASSUME NEW w \in Worker, LoginStep(w) \/ SessionStep(w) \/ Fault(w)
          PROVE  Due(call[v])'
      <4>1. v # w => call'[v] = call[v]
        BY <1>4, <3>2, GoesOnTurn, TurnTyped
      <4>2. QED
        BY <2>2, <2>6, <3>2, <4>1
    <3>3. UNCHANGED call => Due(call[v])'
      BY <2>2
    <3>4. QED
      BY <3>1, <3>2, <3>3 DEF ServerMove, RefreshExpires, Tick, MessageLost
  <2>8. QED
    BY <2>4, <2>7
<1>5. QED
  BY <1>3, <1>4

\* A refresh token that goes back to an older password lives on only while the
\* change has its revocation yet to come, when the revocation came while the
\* call that issued it ran, or when its error was ignored: whatever logins,
\* refreshes and changes of password interleave.
THEOREM OldPasswordsEnd == ClientSpec => []OldPasswordsSessionsEnd
<1>1. ClientInit => OldHolds
  BY DEF ClientInit, Init, OldHolds, Idle
<1>2. TypeOK /\ ClientTypeOK /\ OldHolds /\ [ClientNext]_allVars => OldHolds'
  BY OldHoldsStep, ClientIsServer
<1>3. OldHolds => OldPasswordsSessionsEnd
  BY DEF OldHolds, MayGoOn, RevocationDue, OldPasswordsSessionsEnd
<1>4. QED
  BY <1>1, <1>2, <1>3, TypeCorrect, PTL DEF ClientSpec

-----------------------------------------------------------------------------
(* Guessing.                                                               *)

\* A call that may yet guess at the account: it is past PreLogin.
IsNear(c, u) == c.user = u /\ c.at \in {"rate", "find"}

\* A call whose guess is not counted yet, or that is about to lock the account.
IsLate(c, u) ==
    /\ c.user = u
    /\ \/ c.at \in {"incr", "lock"}
       \/ c.at = "expire" /\ Reaches(c.n)

Near(u) == {w \in Worker : IsNear(call[w], u)}

Late(u) == {w \in Worker : IsLate(call[w], u)}

\* What the counter can let through before somebody locks.
Capped(n) == IF n < Threshold THEN n ELSE Threshold - 1

\* While an address is not locked, each guess is in the counter, in a call that
\* has yet to count or to lock, or was lost with a fault.  From the lock on,
\* only the calls that are past PreLogin can guess.
Within(u) ==
    IF lock[u] = 0
    THEN guesses[u] <= Capped(fail[u].n) + Cardinality(Late(u)) + faults
    ELSE guesses[u] + Cardinality(Near(u)) <= Threshold - 1 + Cardinality(Worker) + faults

GuessesHeld == Threshold > 0 => \A u \in User : Within(u)

One(b) == IF b THEN 1 ELSE 0

\* Two sets that differ by one element at most.
LEMMA OneMoves ==
  ASSUME NEW S, NEW T, NEW w, IsFiniteSet(S), S \ {w} = T \ {w}
  PROVE  /\ IsFiniteSet(T)
         /\ Cardinality(S) \in Nat /\ Cardinality(T) \in Nat
         /\ Cardinality(T) = Cardinality(S) - One(w \in S) + One(w \in T)
<1> DEFINE B == S \ {w}
<1>1. IsFiniteSet(B) /\ Cardinality(B) \in Nat
  BY FS_Subset, FS_CardinalityType
<1>2. w \notin B
  OBVIOUS
<1>3. IsFiniteSet(B \cup {w}) /\ Cardinality(B \cup {w}) = Cardinality(B) + 1
  BY <1>1, <1>2, FS_AddElement
<1>4. /\ w \in S => S = B \cup {w}
      /\ w \notin S => S = B
      /\ w \in T => T = B \cup {w}
      /\ w \notin T => T = B
  OBVIOUS
<1> HIDE DEF B
<1>5. /\ Cardinality(S) = Cardinality(B) + One(w \in S)
      /\ Cardinality(T) = Cardinality(B) + One(w \in T)
      /\ IsFiniteSet(T)
  BY <1>1, <1>3, <1>4 DEF One
<1>6. QED
  BY <1>1, <1>5 DEF One

LEMMA SetsCounted ==
  ASSUME NEW u
  PROVE  /\ IsFiniteSet(Near(u)) /\ IsFiniteSet(Late(u))
         /\ Cardinality(Near(u)) \in Nat /\ Cardinality(Late(u)) \in Nat
         /\ Cardinality(Near(u)') \in Nat /\ Cardinality(Late(u)') \in Nat
         /\ Cardinality(Worker) \in Nat
         /\ Cardinality(Near(u)) + Cardinality(Late(u)) <= Cardinality(Worker)
         /\ Cardinality(Near(u)') + Cardinality(Late(u)') <= Cardinality(Worker)
<1>1. ASSUME NEW S, NEW T, S \subseteq Worker, T \subseteq Worker, S \cap T = {}
      PROVE  /\ IsFiniteSet(S) /\ IsFiniteSet(T)
             /\ Cardinality(S) \in Nat /\ Cardinality(T) \in Nat /\ Cardinality(Worker) \in Nat
             /\ Cardinality(S) + Cardinality(T) <= Cardinality(Worker)
  <2>1. IsFiniteSet(Worker) /\ IsFiniteSet(S) /\ IsFiniteSet(T) /\ IsFiniteSet(S \cup T)
    BY <1>1, SessionsAssumption, FS_Subset, FS_Union DEF SessionsAssumption
  <2>2. /\ Cardinality(S) \in Nat /\ Cardinality(T) \in Nat /\ Cardinality(Worker) \in Nat
        /\ Cardinality(S \cap T) = 0
    BY <1>1, <2>1, FS_CardinalityType, FS_EmptySet
  <2>3. Cardinality(S \cup T) = Cardinality(S) + Cardinality(T) - Cardinality(S \cap T)
    BY <2>1, FS_Union
  <2>4. Cardinality(S \cup T) <= Cardinality(Worker)
    BY <1>1, <2>1, FS_Subset
  <2>5. QED
    BY <2>1, <2>2, <2>3, <2>4
<1>2. Near(u) \subseteq Worker /\ Late(u) \subseteq Worker /\ Near(u) \cap Late(u) = {}
  BY DEF Near, Late, IsNear, IsLate
<1>3. Near(u)' \subseteq Worker /\ Late(u)' \subseteq Worker /\ Near(u)' \cap Late(u)' = {}
  BY DEF Near, Late, IsNear, IsLate
<1>4. QED
  BY <1>1, <1>2, <1>3

\* A turn moves one call in or out of the two sets.
LEMMA TurnCounted ==
  ASSUME TypeOK, NEW w \in Worker, NEW x \in Call \cup {Idle}, Turn(w, x), NEW u
  PROVE  /\ Cardinality(Near(u)')
            = Cardinality(Near(u)) - One(IsNear(call[w], u)) + One(IsNear(x, u))
         /\ Cardinality(Late(u)')
            = Cardinality(Late(u)) - One(IsLate(call[w], u)) + One(IsLate(x, u))
         /\ Cardinality(Near(u)') \in Nat /\ Cardinality(Late(u)') \in Nat
<1>1. call'[w] = x /\ \A v \in Worker : v # w => call'[v] = call[v]
  BY TurnTyped
<1>2. Near(u)' \ {w} = Near(u) \ {w} /\ Late(u)' \ {w} = Late(u) \ {w}
  BY <1>1 DEF Near, Late, IsNear, IsLate
<1>3. /\ w \in Near(u) <=> IsNear(call[w], u)
      /\ w \in Near(u)' <=> IsNear(x, u)
      /\ w \in Late(u) <=> IsLate(call[w], u)
      /\ w \in Late(u)' <=> IsLate(x, u)
  BY <1>1 DEF Near, Late, IsNear, IsLate
<1>4. /\ Cardinality(Near(u)') \in Nat /\ Cardinality(Late(u)') \in Nat
      /\ Cardinality(Near(u)')
         = Cardinality(Near(u)) - One(w \in Near(u)) + One(w \in Near(u)')
      /\ Cardinality(Late(u)')
         = Cardinality(Late(u)) - One(w \in Late(u)) + One(w \in Late(u)')
  BY <1>2, OneMoves, SetsCounted
<1>5. QED
  BY <1>3, <1>4 DEF One

LEMMA IdleIsOut ==
  ASSUME NEW u
  PROVE  ~IsNear(Idle, u) /\ ~IsLate(Idle, u)
BY DEF IsNear, IsLate, Idle

\* A call's stage says whether it is near or late.
LEMMA StageTells ==
  ASSUME NEW c, NEW u
  PROVE  /\ c.at \notin {"rate", "find"} => ~IsNear(c, u)
         /\ c.at \in {"rate", "find"} => (IsNear(c, u) <=> c.user = u) /\ ~IsLate(c, u)
         /\ c.at \in {"incr", "lock"} => (IsLate(c, u) <=> c.user = u)
         /\ c.at = "expire" => (IsLate(c, u) <=> c.user = u /\ Reaches(c.n))
         /\ c.at \notin {"incr", "lock", "expire"} => ~IsLate(c, u)
<1>1. c.at \notin {"rate", "find"} => ~IsNear(c, u)
  BY DEF IsNear
<1>2. c.at \in {"rate", "find"} => (IsNear(c, u) <=> c.user = u) /\ ~IsLate(c, u)
  BY DEF IsNear, IsLate
<1>3. c.at \in {"incr", "lock"} => (IsLate(c, u) <=> c.user = u)
  BY DEF IsLate
<1>4. c.at = "expire" => (IsLate(c, u) <=> c.user = u /\ Reaches(c.n))
  BY DEF IsLate, Reaches
<1>5. c.at \notin {"incr", "lock", "expire"} => ~IsLate(c, u)
  BY DEF IsLate
<1>6. QED
  BY <1>1, <1>2, <1>3, <1>4, <1>5

\* The numbers that the bound is about.
LEMMA NumbersTyped ==
  ASSUME TypeOK, Threshold > 0, NEW u \in User
  PROVE  /\ guesses[u] \in Nat /\ fail[u].n \in Nat /\ lock[u] \in Nat /\ faults \in Nat
         /\ Cardinality(Near(u)) \in Nat /\ Cardinality(Late(u)) \in Nat
         /\ Cardinality(Worker) \in Nat
         /\ Cardinality(Near(u)) + Cardinality(Late(u)) <= Cardinality(Worker)
         /\ Threshold \in Nat /\ Capped(fail[u].n) \in 0 .. Threshold - 1
<1>1. /\ guesses[u] \in Nat /\ fail[u].n \in Nat /\ lock[u] \in Nat
      /\ Threshold \in Nat
  BY CounterTyped, LockoutAssumption DEF LockoutAssumption, Counter
<1>2. faults \in Nat
  BY SessionsAssumption DEF SessionsAssumption, TypeOK
<1>3. Capped(fail[u].n) \in 0 .. Threshold - 1
  BY <1>1 DEF Capped
<1>4. QED
  BY <1>1, <1>2, <1>3, SetsCounted

\* A step that lets no further call near but with a fault or while the address
\* is open, and no late one away but with a fault.
LEMMA QuietStep ==
  ASSUME TypeOK, Threshold > 0, NEW u \in User, Within(u),
         guesses'[u] = guesses[u], fail'[u].n = fail[u].n, lock'[u] = lock[u],
         NEW d \in {0, 1, 2}, faults' = faults + d,
         Cardinality(Near(u)') \in Nat, Cardinality(Late(u)') \in Nat,
         \/ lock[u] = 0
         \/ Cardinality(Near(u)') <= Cardinality(Near(u)) + d,
         Cardinality(Late(u)) <= Cardinality(Late(u)') + d
  PROVE  Within(u)'
<1>1. /\ guesses[u] \in Nat /\ lock[u] \in Nat /\ faults \in Nat
      /\ Cardinality(Near(u)) \in Nat /\ Cardinality(Late(u)) \in Nat
      /\ Cardinality(Worker) \in Nat /\ Threshold \in Nat
      /\ Capped(fail[u].n) \in 0 .. Threshold - 1
  BY NumbersTyped
<1>2. Capped(fail[u].n)' = Capped(fail[u].n)
  BY DEF Capped
<1>3. QED
  BY <1>1, <1>2 DEF Within

\* Beginning: a login is near an account that is open, or past a failure.
LEMMA BeginsWithin ==
  ASSUME TypeOK, Threshold > 0, NEW u \in User, Within(u), NEW w \in Worker,
         Begins(w) \/ FirstCommandFails(w)
  PROVE  Within(u)'
<1>1. PICK x \in Call : Turn(w, x) /\ BeginsAs(w, x) /\ call[w].at = "idle"
  BY BeginTurn
<1>2. UNCHANGED <<fail, lock, guesses>>
  BY DEF Begins, LoginStart, RefreshFind, LogoutBlacklist, ChangeFind, EnrollFind,
     VerifyFind, DisableFind, FirstCommandFails, LogoutUnlisted, lockoutVars
<1>3. ~IsNear(call[w], u) /\ ~IsLate(call[w], u) /\ ~IsLate(x, u)
  BY <1>1 DEF BeginsAs, IsNear, IsLate
<1>4. /\ Cardinality(Late(u)') = Cardinality(Late(u))
      /\ Cardinality(Near(u)') = Cardinality(Near(u)) + One(IsNear(x, u))
      /\ Cardinality(Near(u)') \in Nat /\ Cardinality(Late(u)') \in Nat
      /\ Cardinality(Near(u)) \in Nat /\ Cardinality(Late(u)) \in Nat
  BY <1>1, <1>3, TurnCounted, SetsCounted DEF One
<1>5. PICK d \in {0, 1, 2} : faults' = faults + d
  BY FaultsMove DEF ServerMove
<1>6. FirstCommandFails(w) => d # 0
  BY <1>5, NumbersTyped DEF FirstCommandFails, LogoutUnlisted
<1>7. d = 0 => lock[u] = 0 \/ ~IsNear(x, u)
  BY <1>1, <1>6 DEF BeginsAs, PreLogin, IsNear
<1>8. lock[u] = 0 \/ Cardinality(Near(u)') <= Cardinality(Near(u)) + d
  BY <1>4, <1>7 DEF One
<1>9. QED
  BY <1>2, <1>4, <1>5, <1>8, QuietStep

\* A wrong password moves its call from near to late.
LEMMA FindWithin ==
  ASSUME TypeOK, Threshold > 0, NEW u \in User, Within(u), NEW w \in Worker, LoginFind(w)
  PROVE  Within(u)'
<1> DEFINE v == call[w].user
           wrong == \/ ~CheckPassword(v, call[w].password)
                    \/ user[v].totp /\ call[w].code # 0 /\ ~ValidCode(v, call[w].code)
<1>1. call[w] \in Call /\ v \in User /\ call[w].at = "find"
  BY CallTyped DEF LoginFind, Call
<1>2. UNCHANGED <<fail, lock, faults>>
  BY DEF LoginFind, lockoutVars
<1>3. /\ Cardinality(Near(u)) \in Nat /\ Cardinality(Late(u)) \in Nat
      /\ guesses[u] \in Nat /\ faults \in Nat /\ lock[u] \in Nat
      /\ Cardinality(Worker) \in Nat /\ Threshold \in Nat
      /\ Capped(fail[u].n) \in 0 .. Threshold - 1
  BY NumbersTyped
<1>4. IsNear(call[w], u) <=> v = u
  BY <1>1 DEF IsNear
<1>5. ~IsLate(call[w], u)
  BY <1>1 DEF IsLate
<1>6. Capped(fail[u].n)' = Capped(fail[u].n)
  BY <1>2 DEF Capped
<1>7. CASE wrong
  <2> DEFINE x == [call[w] EXCEPT !.at = "incr"]
  <2>1. Turn(w, x) /\ guesses' = [guesses EXCEPT ![v] = guesses[v] + 1]
    BY <1>7 DEF LoginFind, Turn, TypeOK
  <2>2. x \in Call /\ x.user = v /\ x.at = "incr"
    BY <1>1 DEF Call, Stages
  <2> HIDE DEF x
  <2>3. ~IsNear(x, u) /\ (IsLate(x, u) <=> v = u)
    <3>1. ~IsNear(x, u) /\ (IsLate(x, u) <=> x.user = u)
      BY <2>2, StageTells
    <3>2. QED
      BY <2>2, <3>1
  <2> HIDE DEF v
  <2>4. /\ Cardinality(Near(u)') = Cardinality(Near(u)) - One(v = u)
        /\ Cardinality(Late(u)') = Cardinality(Late(u)) + One(v = u)
    BY <1>3, <1>4, <1>5, <2>1, <2>2, <2>3, TurnCounted DEF One
  <2>5. guesses'[u] = guesses[u] + One(v = u)
    BY <1>1, <1>3, <2>1 DEF TypeOK, One
  <2>6. QED
    BY <1>2, <1>3, <1>6, <2>4, <2>5 DEF Within, One
<1>8. CASE ~wrong
  <2>1. PICK x \in Call \cup {Idle} : Turn(w, x) /\ x.at \in {"idle", "issue"}
    <3>1. \/ Turn(w, Idle) /\ Idle.at = "idle"
          \/ Turn(w, [call[w] EXCEPT !.at = "issue"])
      BY <1>8 DEF LoginFind, Turn, TypeOK, Idle
    <3>2. /\ [call[w] EXCEPT !.at = "issue"] \in Call
          /\ [call[w] EXCEPT !.at = "issue"].at = "issue"
      BY <1>1 DEF Call, Stages
    <3>3. QED
      BY <3>1, <3>2
  <2>2. guesses'[u] = guesses[u]
    BY <1>1, <1>8 DEF LoginFind, TypeOK
  <2>3. ~IsNear(x, u) /\ ~IsLate(x, u)
    BY <2>1 DEF IsNear, IsLate
  <2> HIDE DEF wrong, v
  <2>4. /\ Cardinality(Near(u)') <= Cardinality(Near(u))
        /\ Cardinality(Late(u)') = Cardinality(Late(u))
    BY <1>3, <1>5, <2>1, <2>3, TurnCounted DEF One
  <2>5. Cardinality(Near(u)') \in Nat
    BY <2>1, TurnCounted
  <2>6. QED
    BY <1>2, <1>3, <1>6, <2>2, <2>4, <2>5 DEF Within
<1>9. QED
  BY <1>7, <1>8

\* A count takes its call out of the late ones, unless the call is to lock.
LEMMA IncrWithin ==
  ASSUME TypeOK, Threshold > 0, NEW u \in User, Within(u), NEW w \in Worker, LoginIncr(w)
  PROVE  Within(u)'
<1> DEFINE v == call[w].user
           n == Count(v)
           x(s) == [call[w] EXCEPT !.at = s, !.n = n]
<1>1. call[w] \in Call /\ v \in User /\ call[w].at = "incr"
  BY CallTyped DEF LoginIncr, Call
<1>2. UNCHANGED <<lock, guesses, faults>>
  BY DEF LoginIncr
<1>3. /\ Cardinality(Near(u)) \in Nat /\ Cardinality(Late(u)) \in Nat
      /\ guesses[u] \in Nat /\ faults \in Nat /\ lock[u] \in Nat /\ fail[u].n \in Nat
      /\ Cardinality(Worker) \in Nat /\ Threshold \in Nat
      /\ Capped(fail[u].n) \in 0 .. Threshold - 1
  BY NumbersTyped
<1>4. n \in Nat /\ MaxCount \in Nat /\ MaxCount > Threshold
  BY <1>1, CounterTyped, LockoutAssumption DEF LockoutAssumption
<1>5. v # u => fail'[u] = fail[u]
  BY <1>1 DEF LoginIncr, IncrFail, TypeOK, LockoutTypeOK
<1>6. fail'[v].n = n
  <2>1. fail[v] \in Counter
    BY <1>1, CounterTyped
  <2>2. fail'[v] = [fail[v] EXCEPT !.n = n]
    BY <1>1 DEF LoginIncr, IncrFail, TypeOK, LockoutTypeOK
  <2> HIDE DEF n
  <2>3. QED
    BY <2>1, <2>2 DEF Counter
<1>7. PICK y \in Call \cup {Idle} : /\ Turn(w, y)
                                    /\ ~IsNear(y, u)
                                    /\ IsLate(y, u) <=> v = u /\ Reaches(n)
  <2>1. \/ n = 1 /\ Turn(w, x("expire"))
        \/ n # 1 /\ Reaches(n) /\ Turn(w, x("lock"))
        \/ n # 1 /\ ~Reaches(n) /\ Turn(w, Idle)
    BY DEF LoginIncr, Turn, TypeOK
  <2> HIDE DEF n
  <2>2. \A s \in {"expire", "lock"} :
          x(s) \in Call /\ x(s).at = s /\ x(s).n = n /\ x(s).user = v
    BY <1>1, <1>4 DEF Call, Stages
  <2> HIDE DEF v, x
  <2>3. CASE n = 1
    <3>1. Turn(w, x("expire")) /\ ~IsNear(x("expire"), u)
      BY <2>1, <2>2, <2>3, StageTells
    <3>2. IsLate(x("expire"), u) <=> v = u /\ Reaches(n)
      BY <2>2, StageTells
    <3>3. QED
      BY <2>2, <3>1, <3>2
  <2>4. CASE n # 1 /\ Reaches(n)
    <3>1. Turn(w, x("lock")) /\ ~IsNear(x("lock"), u)
      BY <2>1, <2>2, <2>4, StageTells
    <3>2. IsLate(x("lock"), u) <=> v = u
      BY <2>2, StageTells
    <3>3. QED
      BY <2>2, <2>4, <3>1, <3>2
  <2>5. CASE n # 1 /\ ~Reaches(n)
    BY <2>1, <2>5, IdleIsOut
  <2>6. QED
    BY <2>3, <2>4, <2>5 DEF Reaches
<1>8. ~IsNear(call[w], u) /\ (IsLate(call[w], u) <=> v = u)
  BY <1>1 DEF IsNear, IsLate
<1>9. n = IF fail[v].n < MaxCount THEN fail[v].n + 1 ELSE MaxCount
  BY DEF Count
<1> HIDE DEF v, n, x
<1>10. /\ Cardinality(Near(u)') = Cardinality(Near(u))
       /\ Cardinality(Late(u)')
          = Cardinality(Late(u)) - One(v = u) + One(v = u /\ Reaches(n))
  BY <1>3, <1>7, <1>8, TurnCounted DEF One
<1>11. Capped(fail[u].n)' + Cardinality(Late(u)') >= Capped(fail[u].n) + Cardinality(Late(u))
  <2>1. CASE v # u
    <3>1. Capped(fail[u].n)' = Capped(fail[u].n)
      BY <1>5, <2>1 DEF Capped
    <3>2. QED
      BY <1>3, <1>10, <2>1, <3>1 DEF One
  <2>2. CASE v = u /\ Reaches(n)
    <3>1. n >= Threshold
      BY <2>2 DEF Reaches
    <3>2. Capped(fail[u].n)' = Threshold - 1
      BY <1>3, <1>4, <1>6, <2>2, <3>1 DEF Capped
    <3>3. QED
      BY <1>3, <1>10, <2>2, <3>2 DEF One
  <2>3. CASE v = u /\ ~Reaches(n)
    <3>1. n < Threshold
      BY <1>3, <1>4, <2>3 DEF Reaches
    <3>2. n = fail[u].n + 1
      BY <1>3, <1>4, <1>9, <2>3, <3>1
    <3>3. Capped(fail[u].n)' = n /\ Capped(fail[u].n) = fail[u].n
      BY <1>3, <1>4, <1>6, <2>3, <3>1, <3>2 DEF Capped
    <3>4. QED
      BY <1>3, <1>10, <2>3, <3>2, <3>3 DEF One
  <2>4. QED
    BY <2>1, <2>2, <2>3
<1>12. Capped(fail[u].n)' \in Int /\ Cardinality(Late(u)') \in Nat
  <2>1. fail'[u].n \in Int
    BY <1>3, <1>4, <1>5, <1>6
  <2>2. QED
    BY <1>3, <1>7, <2>1, TurnCounted DEF Capped
<1>13. QED
  BY <1>2, <1>3, <1>10, <1>11, <1>12 DEF Within

\* The lock: only the calls that are near by now are left to guess.
LEMMA LockWithin ==
  ASSUME TypeOK, Threshold > 0, NEW u \in User, Within(u), NEW w \in Worker, LoginLock(w)
  PROVE  Within(u)'
<1> DEFINE v == call[w].user
<1>1. call[w] \in Call /\ v \in User /\ call[w].at = "lock"
  BY CallTyped DEF LoginLock, Call
<1>2. UNCHANGED <<fail, guesses, faults>> /\ lock' = [lock EXCEPT ![v] = Duration]
  BY DEF LoginLock, Lock
<1>3. /\ Cardinality(Near(u)) \in Nat /\ Cardinality(Late(u)) \in Nat
      /\ guesses[u] \in Nat /\ faults \in Nat /\ lock[u] \in Nat
      /\ Cardinality(Worker) \in Nat /\ Threshold \in Nat
      /\ Capped(fail[u].n) \in 0 .. Threshold - 1
      /\ Cardinality(Near(u)) + Cardinality(Late(u)) <= Cardinality(Worker)
  BY NumbersTyped
<1>4. Turn(w, Idle) /\ Idle \in Call \cup {Idle} /\ ~IsNear(Idle, u) /\ ~IsLate(Idle, u)
  <2>1. Done(w)
    BY DEF LoginLock
  <2>2. Turn(w, Idle) /\ Idle \in Call \cup {Idle}
    BY <2>1, DoneTurn
  <2>3. ~IsNear(Idle, u) /\ ~IsLate(Idle, u)
    BY IdleIsOut
  <2>4. QED
    BY <2>2, <2>3
<1>5. ~IsNear(call[w], u) /\ (IsLate(call[w], u) <=> v = u)
  BY <1>1 DEF IsNear, IsLate
<1> HIDE DEF v
<1>6. /\ Cardinality(Near(u)') = Cardinality(Near(u))
      /\ Cardinality(Late(u)') = Cardinality(Late(u)) - One(v = u)
  BY <1>3, <1>4, <1>5, TurnCounted DEF One
<1>7. Capped(fail[u].n)' = Capped(fail[u].n)
  BY <1>2 DEF Capped
<1>8. CASE v # u
  <2>1. lock'[u] = lock[u]
    BY <1>1, <1>2, <1>8 DEF TypeOK, LockoutTypeOK
  <2>2. QED
    BY <1>2, <1>3, <1>6, <1>7, <1>8, <2>1 DEF Within, One
<1>9. CASE v = u
  <2>1. lock'[u] # 0
    BY <1>1, <1>2, <1>9, LockoutAssumption DEF LockoutAssumption, TypeOK, LockoutTypeOK
  <2>2. guesses[u] + Cardinality(Near(u)) <= Threshold - 1 + Cardinality(Worker) + faults
    BY <1>3 DEF Within
  <2>3. QED
    BY <1>2, <1>3, <1>6, <2>1, <2>2 DEF Within
<1>10. QED
  BY <1>8, <1>9

\* A count that is reset and an expiry start anew.
LEMMA AnewWithin ==
  ASSUME TypeOK, Threshold > 0, NEW u \in User, TypeOK',
         guesses'[u] = 0
  PROVE  Within(u)'
<1>1. /\ Threshold \in Nat /\ faults' \in Nat /\ fail'[u].n \in Nat
  BY LockoutAssumption, SessionsAssumption
  DEF LockoutAssumption, SessionsAssumption, TypeOK, LockoutTypeOK
<1>2. Capped(fail[u].n)' \in Nat
  BY <1>1 DEF Capped
<1>3. /\ Cardinality(Near(u)') \in Nat /\ Cardinality(Late(u)') \in Nat
      /\ Cardinality(Worker) \in Nat
      /\ Cardinality(Near(u)') + Cardinality(Late(u)') <= Cardinality(Worker)
  BY SetsCounted
<1>4. QED
  BY <1>1, <1>2, <1>3 DEF Within

\* A turn in which no call comes near but with a fault, and none is late no
\* more but with a fault.
LEMMA TurnQuiet ==
  ASSUME TypeOK, Threshold > 0, NEW u \in User, Within(u), NEW w \in Worker,
         NEW x \in Call \cup {Idle}, Turn(w, x),
         guesses'[u] = guesses[u], fail'[u].n = fail[u].n, lock'[u] = lock[u],
         NEW d \in {0, 1}, faults' = faults + d,
         IsNear(x, u) => IsNear(call[w], u),
         d = 0 /\ IsLate(call[w], u) => IsLate(x, u)
  PROVE  Within(u)'
<1>1. /\ Cardinality(Near(u)')
         = Cardinality(Near(u)) - One(IsNear(call[w], u)) + One(IsNear(x, u))
      /\ Cardinality(Late(u)')
         = Cardinality(Late(u)) - One(IsLate(call[w], u)) + One(IsLate(x, u))
      /\ Cardinality(Near(u)') \in Nat /\ Cardinality(Late(u)') \in Nat
  BY TurnCounted
<1>2. /\ Cardinality(Near(u)) \in Nat /\ Cardinality(Late(u)) \in Nat
  BY NumbersTyped
<1>3. /\ One(IsNear(x, u)) <= One(IsNear(call[w], u))
      /\ One(IsLate(call[w], u)) <= One(IsLate(x, u)) + d
      /\ One(IsNear(x, u)) \in Nat /\ One(IsNear(call[w], u)) \in Nat
      /\ One(IsLate(x, u)) \in Nat /\ One(IsLate(call[w], u)) \in Nat
  BY DEF One
<1>4. /\ Cardinality(Near(u)') <= Cardinality(Near(u)) + d
      /\ Cardinality(Late(u)) <= Cardinality(Late(u)') + d
  BY <1>1, <1>2, <1>3
<1>5. QED
  BY <1>1, <1>4, QuietStep

\* The login's steps that only hand the call on.
LEMMA RateWithin ==
  ASSUME TypeOK, Threshold > 0, NEW u \in User, Within(u), NEW w \in Worker, LoginRate(w)
  PROVE  Within(u)'
<1>1. /\ call[w].at = "rate" /\ UNCHANGED <<fail, lock, guesses, faults>>
      /\ Go(w, "find") \/ Done(w)
  BY DEF LoginRate, lockoutVars
<1>2. PICK x \in Call \cup {Idle} : Turn(w, x) /\ (x = Idle \/ x.user = call[w].user)
                                    /\ x.at \in {"idle", "find"}
  <2>1. "find" \in Stages \ {"idle"} /\ Idle.at = "idle"
    BY DEF Stages, Idle
  <2>2. call[w] \in Call
    BY <1>1, CallTyped
  <2>3. [call[w] EXCEPT !.at = "find"].at = "find"
        /\ [call[w] EXCEPT !.at = "find"].user = call[w].user
    BY <2>2 DEF Call
  <2>4. CASE Go(w, "find")
    BY <1>1, <2>1, <2>3, <2>4, GoTurn
  <2>5. CASE Done(w)
    BY <2>1, <2>5, DoneTurn
  <2>6. QED
    BY <1>1, <2>4, <2>5
<1>3. /\ IsNear(x, u) => IsNear(call[w], u)
      /\ ~IsLate(call[w], u)
  BY <1>1, <1>2, IdleIsOut, StageTells
<1>4. faults' = faults + 0
  BY <1>1, NumbersTyped
<1>5. QED
  BY <1>1, <1>2, <1>3, <1>4, TurnQuiet

LEMMA ExpireWithin ==
  ASSUME TypeOK, Threshold > 0, NEW u \in User, Within(u), NEW w \in Worker, LoginExpire(w)
  PROVE  Within(u)'
<1>1. /\ call[w].at = "expire" /\ UNCHANGED <<lock, guesses, faults>>
      /\ IF Reaches(call[w].n) THEN Go(w, "lock") ELSE Done(w)
  BY DEF LoginExpire
<1>2. call[w] \in Call
  BY <1>1, CallTyped
<1>3. fail'[u].n = fail[u].n
  BY <1>2, CounterTyped DEF LoginExpire, ExpireFail, TypeOK, LockoutTypeOK, Counter
<1>4. PICK x \in Call \cup {Idle} :
        /\ Turn(w, x)
        /\ ~IsNear(x, u)
        /\ IsLate(call[w], u) => IsLate(x, u)
  <2>1. CASE Reaches(call[w].n)
    <3> DEFINE x == [call[w] EXCEPT !.at = "lock"]
    <3>1. x \in Call /\ Turn(w, x)
      BY <1>1, <2>1, GoTurn DEF Stages
    <3>2. x.at = "lock" /\ x.user = call[w].user
      BY <1>2 DEF Call
    <3> HIDE DEF x
    <3>3. ~IsNear(x, u) /\ (IsLate(call[w], u) => IsLate(x, u))
      BY <1>1, <3>2, StageTells
    <3>4. QED
      BY <3>1, <3>3
  <2>2. CASE ~Reaches(call[w].n)
    <3>1. Turn(w, Idle) /\ Idle \in Call \cup {Idle}
      BY <1>1, <2>2, DoneTurn
    <3>2. ~IsLate(call[w], u) /\ ~IsNear(Idle, u)
      BY <1>1, <2>2, IdleIsOut DEF IsLate
    <3>3. QED
      BY <3>1, <3>2
  <2>3. QED
    BY <2>1, <2>2
<1>5. faults' = faults + 0
  BY <1>1, NumbersTyped
<1>6. QED
  BY <1>1, <1>3, <1>4, <1>5, TurnQuiet

\* A call that is neither near nor late before its turn is neither after it.
LEMMA ApartWithin ==
  ASSUME TypeOK, Threshold > 0, NEW u \in User, Within(u), NEW w \in Worker,
         Issue(w) \/ (SessionStep(w) /\ ~RevokeAll(w)) \/ LoginReset(w),
         guesses'[u] = guesses[u], fail'[u] = fail[u]
  PROVE  Within(u)'
<1>1. /\ call[w].at \in {"issue", "revokeOne", "write", "totp", "reset"}
      /\ UNCHANGED <<lock, faults>>
  BY DEF Issue, LoginReset, SessionStep, RefreshRevoke, ChangeWrite, EnrollWrite, VerifyWrite,
     DisableWrite, lockoutVars
<1>2. \/ \E s \in {"reset", "issue", "revokeAll"} : Go(w, s)
      \/ Done(w)
  BY DEF Issue, LoginReset, SessionStep, RefreshRevoke, ChangeWrite, EnrollWrite, VerifyWrite,
     DisableWrite
<1>3. PICK x \in Call \cup {Idle} : Turn(w, x) /\ ~IsNear(x, u)
  <2>1. CASE Done(w)
    BY <2>1, DoneTurn, IdleIsOut
  <2>2. ASSUME NEW s \in {"reset", "issue", "revokeAll"}, Go(w, s)
        PROVE  /\ [call[w] EXCEPT !.at = s] \in Call
               /\ Turn(w, [call[w] EXCEPT !.at = s])
               /\ ~IsNear([call[w] EXCEPT !.at = s], u)
    <3>1. call[w] \in Call
      BY <1>1, CallTyped
    <3>2. s \in Stages \ {"idle"} /\ [call[w] EXCEPT !.at = s].at = s
      BY <3>1 DEF Stages, Call
    <3>3. ~IsNear([call[w] EXCEPT !.at = s], u)
      BY <2>2, <3>2, StageTells
    <3>4. QED
      BY <1>1, <2>2, <3>2, <3>3, GoTurn
  <2>3. QED
    BY <1>2, <2>1, <2>2
<1>4. ~IsLate(call[w], u)
  BY <1>1, StageTells
<1>5. faults' = faults + 0
  BY <1>1, NumbersTyped
<1>6. QED
  BY <1>1, <1>3, <1>4, <1>5, TurnQuiet

\* A revocation of sessions leaves the logins where they are.
LEMMA RevokeAllWithin ==
  ASSUME TypeOK, Threshold > 0, NEW u \in User, Within(u), NEW w \in Worker, RevokeAll(w)
  PROVE  Within(u)'
<1>1. call[w].at = "revokeAll" /\ UNCHANGED <<fail, lock, guesses, faults>>
  BY DEF RevokeAll, lockoutVars
<1>2. ~IsNear(call[w], u) /\ ~IsLate(call[w], u)
  BY <1>1, StageTells
<1>3. call'[w] = Idle
  BY CrossingTyped
<1>4. \A v \in Worker : v # w => /\ call'[v].user = call[v].user /\ call'[v].at = call[v].at
                                 /\ call'[v].n = call[v].n
  <2> SUFFICES ASSUME NEW v \in Worker, v # w
               PROVE  /\ call'[v].user = call[v].user /\ call'[v].at = call[v].at
                      /\ call'[v].n = call[v].n
    OBVIOUS
  <2>1. CASE call'[v] = call[v]
    BY <2>1
  <2>2. CASE call[v] \in Call /\ call'[v] = [call[v] EXCEPT !.crossed = TRUE]
    <3>1. PICK c \in Call : c = call[v]
      BY <2>2
    <3>2. call'[v] = [c EXCEPT !.crossed = TRUE]
      BY <2>2, <3>1
    <3>3. QED
      BY <3>1, <3>2 DEF Call
  <2>3. QED
    BY <2>1, <2>2, CrossingTyped
<1>5. \A v \in Worker : v # w => /\ IsNear(call'[v], u) <=> IsNear(call[v], u)
                                 /\ IsLate(call'[v], u) <=> IsLate(call[v], u)
  BY <1>4 DEF IsNear, IsLate
<1>6. ~IsNear(call'[w], u) /\ ~IsLate(call'[w], u)
  BY <1>3, IdleIsOut
<1>7. Near(u)' = Near(u) /\ Late(u)' = Late(u)
  BY <1>2, <1>5, <1>6 DEF Near, Late, IsNear, IsLate
<1>8. /\ Cardinality(Near(u)) \in Nat /\ Cardinality(Late(u)) \in Nat
      /\ faults' = faults + 0
  BY <1>1, NumbersTyped
<1>9. /\ Cardinality(Near(u)') <= Cardinality(Near(u)) + 0
      /\ Cardinality(Late(u)) <= Cardinality(Late(u)') + 0
      /\ Cardinality(Near(u)') \in Nat /\ Cardinality(Late(u)') \in Nat
  BY <1>7, <1>8
<1>10. QED
  BY <1>1, <1>8, <1>9, QuietStep

\* A fault makes up for the guess that is not counted, or not locked on.
LEMMA FaultWithin ==
  ASSUME TypeOK, Threshold > 0, NEW u \in User, Within(u), NEW w \in Worker, Fault(w)
  PROVE  Within(u)'
<1>1. /\ UNCHANGED <<fail, lock, guesses>> /\ faults' = faults + 1 /\ call[w] \in Call
      /\ call[w].at # "idle"
      /\ Done(w) \/ (AfterError(call[w]) # "idle" /\ Go(w, AfterError(call[w])))
  BY CallTyped DEF Fault, lockoutVars
<1>2. /\ AfterError(call[w]) \in {"find", "incr", "lock", "idle"}
      /\ AfterError(call[w]) = "find" => call[w].at = "rate"
  BY DEF AfterError
<1>3. PICK x \in Call \cup {Idle} : Turn(w, x) /\ (IsNear(x, u) => IsNear(call[w], u))
  <2>1. CASE Done(w)
    BY <2>1, DoneTurn, IdleIsOut
  <2>2. CASE ~Done(w)
    <3> DEFINE s == AfterError(call[w])
               x == [call[w] EXCEPT !.at = s]
    <3>1. Go(w, s) /\ s \in {"find", "incr", "lock"} /\ s \in Stages \ {"idle"}
      BY <1>1, <1>2, <2>2 DEF Stages
    <3>2. s = "find" => call[w].at = "rate"
      BY <1>2
    <3> HIDE DEF s
    <3>3. x \in Call /\ Turn(w, x)
      BY <1>1, <3>1, GoTurn
    <3>4. x.at = s /\ x.user = call[w].user
      BY <1>1 DEF Call
    <3> HIDE DEF x
    <3>5. IsNear(x, u) => IsNear(call[w], u)
      BY <3>1, <3>2, <3>4 DEF IsNear
    <3>6. QED
      BY <3>3, <3>5
  <2>3. QED
    BY <2>1, <2>2
<1>4. QED
  BY <1>1, <1>3, TurnQuiet

\* Keys grow older.  With the lock or the counter the guesses start anew.
LEMMA TickWithin ==
  ASSUME TypeOK, TypeOK', Threshold > 0, NEW u \in User, Within(u), Tick
  PROVE  Within(u)'
<1>1. /\ guesses'[u] = IF lock[u] = 1 \/ fail[u].left = 1 THEN 0 ELSE guesses[u]
      /\ lock'[u] = IF lock[u] = 0 THEN 0 ELSE lock[u] - 1
      /\ fail[u].left \notin {Forever, 1} => fail'[u] = [fail[u] EXCEPT !.left = @ - 1]
      /\ fail[u].left = Forever => fail'[u] = fail[u]
      /\ UNCHANGED <<call, faults>>
  <2>1. fail' = [v \in User |-> CASE fail[v].left = Forever -> fail[v]
                                   [] fail[v].left = 1       -> NoCount
                                   [] OTHER -> [fail[v] EXCEPT !.left = @ - 1]]
    BY DEF Tick, RedisTick
  <2>2. fail[u].left \notin {Forever, 1} => fail'[u] = [fail[u] EXCEPT !.left = @ - 1]
    BY <2>1
  <2>3. fail[u].left = Forever => fail'[u] = fail[u]
    BY <2>1 DEF Forever
  <2>4. QED
    BY <2>2, <2>3 DEF Tick, RedisTick
<1>2. CASE lock[u] = 1 \/ fail[u].left = 1
  BY <1>1, <1>2, AnewWithin
<1>3. CASE ~(lock[u] = 1 \/ fail[u].left = 1)
  <2>1. lock[u] \in Nat /\ guesses'[u] = guesses[u] /\ lock'[u] \in Nat
        /\ (lock'[u] = 0 <=> lock[u] = 0)
    BY <1>1, <1>3, NumbersTyped
  <2>2. fail'[u].n = fail[u].n
    BY <1>1, <1>3, CounterTyped DEF Counter
  <2>3. Capped(fail[u].n)' = Capped(fail[u].n) /\ Near(u)' = Near(u) /\ Late(u)' = Late(u)
    BY <1>1, <2>2 DEF Capped, Near, Late, IsNear, IsLate
  <2>4. QED
    BY <1>1, <2>1, <2>3 DEF Within
<1>4. QED
  BY <1>2, <1>3

\* Steps that leave all requests where they are.
LEMMA StandsWithin ==
  ASSUME TypeOK, Threshold > 0, NEW u \in User, Within(u),
         UNCHANGED vars \/ RefreshExpires \/ MessageLost
  PROVE  Within(u)'
<1>1. UNCHANGED <<fail, lock, guesses, call>>
  BY DEF vars, RefreshExpires, MessageLost, lockoutVars
<1>2. Near(u)' = Near(u) /\ Late(u)' = Late(u)
  BY <1>1 DEF Near, Late, IsNear, IsLate
<1>3. /\ Cardinality(Near(u)) \in Nat /\ Cardinality(Late(u)) \in Nat
      /\ faults \in Nat
  BY NumbersTyped
<1>4. PICK d \in {0, 1} : faults' = faults + d
  <2>1. UNCHANGED vars \/ RefreshExpires => faults' = faults + 0
    BY <1>3 DEF vars, RefreshExpires
  <2>2. MessageLost => faults' = faults + 1
    BY DEF MessageLost
  <2>3. QED
    BY <2>1, <2>2
<1>5. /\ Cardinality(Near(u)') <= Cardinality(Near(u)) + d
      /\ Cardinality(Late(u)) <= Cardinality(Late(u)') + d
      /\ Cardinality(Near(u)') \in Nat /\ Cardinality(Late(u)') \in Nat
  BY <1>2, <1>3
<1>6. QED
  BY <1>1, <1>4, <1>5, QuietStep

\* A login that succeeds starts its account anew.
LEMMA ResetWithin ==
  ASSUME TypeOK, TypeOK', Threshold > 0, NEW u \in User, Within(u), NEW w \in Worker,
         LoginReset(w)
  PROVE  Within(u)'
<1>1. call[w] \in Call /\ call[w].user \in User
  BY CallTyped DEF LoginReset, Call
<1>2. /\ guesses' = [guesses EXCEPT ![call[w].user] = 0]
      /\ fail' = [fail EXCEPT ![call[w].user] = NoCount]
  BY DEF LoginReset, ResetFail
<1>3. CASE u = call[w].user
  <2>1. guesses'[u] = 0
    BY <1>2, <1>3 DEF TypeOK
  <2>2. QED
    BY <2>1, AnewWithin
<1>4. CASE u # call[w].user
  <2>1. guesses'[u] = guesses[u] /\ fail'[u] = fail[u]
    BY <1>2, <1>4 DEF TypeOK, LockoutTypeOK
  <2>2. QED
    BY <2>1, ApartWithin
<1>5. QED
  BY <1>3, <1>4

LEMMA GuessesHeldStep ==
  TypeOK /\ GuessesHeld /\ (ServerMove \/ UNCHANGED vars) => GuessesHeld'
<1> SUFFICES ASSUME TypeOK, ServerMove \/ UNCHANGED vars,
                    Threshold > 0, NEW u \in User, Within(u)
             PROVE  Within(u)'
  BY DEF GuessesHeld
<1>1. ASSUME ServerMove PROVE TypeOK'
  BY <1>1, TypeStep
<1>2. ASSUME NEW w \in Worker, ServerMove, LoginStep(w)
      PROVE  Within(u)'
  <2>1. CASE LoginRate(w) \/ LoginExpire(w)
    BY <2>1, RateWithin, ExpireWithin
  <2>2. CASE LoginFind(w) \/ LoginIncr(w) \/ LoginLock(w)
    BY <2>2, FindWithin, IncrWithin, LockWithin
  <2>3. CASE LoginReset(w)
    BY <1>1, <1>2, <2>3, ResetWithin
  <2>4. CASE Issue(w)
    <3>1. guesses'[u] = guesses[u] /\ fail'[u] = fail[u]
      BY <2>4 DEF Issue, lockoutVars
    <3>2. QED
      BY <2>4, <3>1, ApartWithin
  <2>5. QED
    BY <1>2, <2>1, <2>2, <2>3, <2>4 DEF LoginStep
<1>3. ASSUME NEW w \in Worker, SessionStep(w)
      PROVE  Within(u)'
  <2>1. CASE RevokeAll(w)
    BY <2>1, RevokeAllWithin
  <2>2. CASE ~RevokeAll(w)
    <3>1. guesses'[u] = guesses[u] /\ fail'[u] = fail[u]
      BY <1>3, <2>2 DEF SessionStep, RefreshRevoke, ChangeWrite, EnrollWrite, VerifyWrite,
         DisableWrite, lockoutVars
    <3>2. QED
      BY <1>3, <2>2, <3>1, ApartWithin
  <2>3. QED
    BY <2>1, <2>2
<1>4. ASSUME NEW w \in Worker, Begins(w) \/ FirstCommandFails(w) \/ Fault(w)
      PROVE  Within(u)'
  BY <1>4, BeginsWithin, FaultWithin
<1>5. ASSUME ServerMove, Tick
      PROVE  Within(u)'
  BY <1>1, <1>5, TickWithin
<1>6. ASSUME UNCHANGED vars \/ RefreshExpires \/ MessageLost
      PROVE  Within(u)'
  BY <1>6, StandsWithin
<1>7. QED
  BY <1>2, <1>3, <1>4, <1>5, <1>6 DEF ServerMove

\* From one lock, reset or expiry to the next an address takes no more wrong
\* passwords and codes than the threshold allows and the logins that were past
\* PreLogin together, and one for each fault that lost a count: with any number
\* of logins at a time, although PreLogin, the check and the count are separate
\* steps of Login.
THEOREM GuessingIsBounded == ClientSpec => []GuessesBounded
<1>1. ClientInit => GuessesHeld
  <2> SUFFICES ASSUME ClientInit, Threshold > 0, NEW u \in User
               PROVE  Within(u)
    BY DEF GuessesHeld
  <2>1. /\ guesses[u] = 0 /\ lock[u] = 0 /\ fail[u].n = 0 /\ faults = 0
    BY DEF ClientInit, Init, LockoutInit, NoCount
  <2>2. Cardinality(Late(u)) \in Nat /\ Threshold \in Nat
    BY SetsCounted, LockoutAssumption DEF LockoutAssumption
  <2>3. QED
    BY <2>1, <2>2 DEF Within, Capped
<1>2. TypeOK /\ ClientTypeOK /\ GuessesHeld /\ [ClientNext]_allVars => GuessesHeld'
  BY GuessesHeldStep, ClientIsServer
<1>3. TypeOK /\ GuessesHeld => GuessesBounded
  <2> SUFFICES ASSUME TypeOK, Threshold > 0, NEW u \in User, Within(u)
               PROVE  guesses[u] <= Threshold + Cardinality(Worker) - 1 + faults
    BY DEF GuessesHeld, GuessesBounded
  <2>1. /\ guesses[u] \in Nat /\ faults \in Nat /\ lock[u] \in Nat
        /\ Cardinality(Near(u)) \in Nat /\ Cardinality(Late(u)) \in Nat
        /\ Cardinality(Worker) \in Nat
        /\ Cardinality(Near(u)) + Cardinality(Late(u)) <= Cardinality(Worker)
        /\ Threshold \in Nat /\ Capped(fail[u].n) \in 0 .. Threshold - 1
    BY NumbersTyped
  <2>2. QED
    BY <2>1 DEF Within
<1>4. QED
  BY <1>1, <1>2, <1>3, TypeCorrect, PTL DEF ClientSpec

-----------------------------------------------------------------------------
(* The tokens that a client holds.                                         *)

Waits(c, w) == req[c].at = "waiting" /\ req[c].worker = w

\* Each request that the server works on is that of one goroutine, which waits;
\* a pair that an answer brings was issued to it.
Awaited ==
    /\ \A w \in Worker : call[w].at # "idle" => \E c \in Caller : Waits(c, w)
    /\ \A c, d \in Caller, w \in Worker : Waits(c, w) /\ Waits(d, w) => c = d
    /\ \A c \in Caller : req[c].at = "waiting"
         => req[c].worker \in Worker /\ call[req[c].worker].at # "idle"
    /\ \A c \in Caller : req[c].got # 0
         => \/ req[c].at = "store"
            \/ req[c].at = "waiting" /\ call[req[c].worker].at = "reset"

\* Nobody but the goroutine that is to store it knows the pair of an answer:
\* it cannot have been exchanged.
UnknownYet ==
    \A c \in Caller : req[c].got # 0
      => /\ client.refresh # req[c].got
         /\ \A d \in Caller : /\ req[d].refresh # req[c].got
                              /\ d # c => req[d].got # req[c].got
         /\ \A w \in Worker : call[w].session # req[c].got
         /\ \A i \in DOMAIN made : made[i] # req[c].got

InTable ==
    /\ Len(made) = Len(session)
    /\ \A i \in DOMAIN made : made[i] <= Len(session)
    /\ \A w \in Worker : call[w].session <= Len(session)

\* What the token of the client was exchanged for is about to be stored, or lost.
NewestComes ==
    client.refresh # 0
    => \A i \in DOMAIN made : made[i] = client.refresh
         => i \in lost \/ \E c \in Caller : req[c].got = i

NewestHolds == Clients = {"client"} => Awaited /\ UnknownYet /\ InTable /\ NewestComes

LEMMA MixStays == ServerMove => mix' = mix
<1>1. ASSUME NEW w \in Worker, Begins(w)
      PROVE  mix' = mix
  BY <1>1 DEF Begins, LoginStart, RefreshFind, LogoutBlacklist, ChangeFind, EnrollFind,
     VerifyFind, DisableFind, sessionVars
<1>2. ASSUME NEW w \in Worker, LoginStep(w)
      PROVE  mix' = mix
  BY <1>2 DEF LoginStep, LoginRate, LoginFind, LoginIncr, LoginExpire, LoginLock, Issue,
     LoginReset, sessionVars
<1>3. ASSUME NEW w \in Worker, SessionStep(w)
      PROVE  mix' = mix
  BY <1>3 DEF SessionStep, RefreshRevoke, RevokeAll, ChangeWrite, EnrollWrite, VerifyWrite,
     DisableWrite
<1>4. ASSUME NEW w \in Worker, Fault(w) \/ FirstCommandFails(w)
      PROVE  mix' = mix
  BY <1>4 DEF Fault, FirstCommandFails, LogoutUnlisted, sessionVars
<1>5. RefreshExpires \/ Tick \/ MessageLost => mix' = mix
  BY DEF RefreshExpires, Tick, MessageLost, sessionVars
<1>6. QED
  BY <1>1, <1>2, <1>3, <1>4, <1>5 DEF ServerMove

\* The steps of a goroutine, as far as they concern who knows which pair.
Tells(c) == req'[c].at \notin {"waiting", "store"} /\ req'[c].got = 0

KeepsToItself(c) ==
    /\ UNCHANGED <<call, lost>> /\ Tells(c)
    /\ req[c].at \notin {"waiting", "store"}
    /\ req'[c].refresh \in {0, req[c].refresh, client.refresh}
    /\ client'.refresh \in {0, client.refresh}

Asks(c, w) ==
    /\ call[w].at = "idle" /\ call'[w].at \notin {"idle", "reset"}
    /\ call'[w].session \in {0, req[c].refresh}
    /\ \A v \in Worker : v # w => call'[v] = call[v]
    /\ UNCHANGED <<client, lost>>
    /\ req[c].at \notin {"waiting", "store"} /\ Waits(c, w)'
    /\ req'[c].got = 0 /\ req'[c].refresh \in {0, req[c].refresh}

Loses(c) ==
    /\ UNCHANGED <<call, client>> /\ Tells(c)
    /\ req[c].at = "store" /\ lost' = lost \cup {req[c].got}
    /\ req'[c].refresh \in {0, req[c].refresh}

Stores(c) ==
    /\ UNCHANGED <<call, lost>> /\ Tells(c)
    /\ req[c].at = "store" /\ client'.refresh = req[c].got
    /\ req'[c].refresh = 0

\* What does not concern pairs of the others.
OthersKeep(c) ==
    \A d \in Caller : d # c =>
      /\ req'[d].at = req[d].at /\ req'[d].worker = req[d].worker
      /\ req'[d].got = req[d].got /\ req'[d].refresh = req[d].refresh

LEMMA EndAgain ==
  ASSUME NEW q
  PROVE  /\ End(q).at \in {"idle", "clear"} /\ End(q).got = 0 /\ End(q).refresh = 0
         /\ Again(q).at = "send" /\ Again(q).got = 0 /\ Again(q).refresh = 0
         /\ Ready.at = "idle" /\ Ready.got = 0 /\ Ready.refresh = 0
<1>1. Ready.at = "idle" /\ Ready.got = 0 /\ Ready.refresh = 0
  BY DEF Ready
<1>2. End(q).at \in {"idle", "clear"} /\ End(q).got = 0 /\ End(q).refresh = 0
  BY DEF End, Ready
<1>3. Again(q).at = "send" /\ Again(q).got = 0 /\ Again(q).refresh = 0
  BY DEF Again, Ready
<1>4. QED
  BY <1>1, <1>2, <1>3

\* A goroutine's step is one of these.
LEMMA GoroutineMoves ==
  ASSUME TypeOK, ClientTypeOK, Clients = {"client"}, Awaited, NEW c \in Caller, ClientStep(c)
  PROVE  /\ OthersKeep(c)
         /\ \/ KeepsToItself(c) \/ Loses(c) \/ Stores(c)
            \/ \E w \in Worker : Asks(c, w)
<1> DEFINE r == req[c]
           Goal == /\ OthersKeep(c)
                   /\ \/ KeepsToItself(c) \/ Loses(c) \/ Stores(c)
                      \/ \E w \in Worker : Asks(c, w)
<1>1. req \in [Caller -> ClientCall] /\ r \in ClientCall
  BY DEF ClientTypeOK
<1>2. r.at \notin {"waiting", "store"} => r.got = 0
  BY DEF Awaited
<1>3. ASSUME NEW x, req' = [req EXCEPT ![c] = x]
      PROVE  OthersKeep(c) /\ req'[c] = x
  BY <1>1, <1>3 DEF OthersKeep
<1>4. ASSUME NEW x, req' = [req EXCEPT ![c] = x], UNCHANGED <<call, lost>>,
             r.at \notin {"waiting", "store"}, x.at \notin {"waiting", "store"},
             x.got = 0, x.refresh \in {0, r.refresh, client.refresh},
             client'.refresh \in {0, client.refresh}
      PROVE  Goal
  BY <1>3, <1>4 DEF KeepsToItself, Tells
<1>5. "cli" \notin mix
  BY DEF Clients
<1>6. ASSUME NEW op, Begin(c, op), UNCHANGED client
      PROVE  Goal
  <2> DEFINE x == [Ready EXCEPT !.at = IF op = "login" THEN "login" ELSE "send", !.op = op]
  <2>1. r.at = "idle" /\ UNCHANGED <<call, lost>> /\ req' = [req EXCEPT ![c] = x]
    BY <1>6 DEF Begin, vars
  <2>2. x.at \in {"login", "send"} /\ x.got = 0 /\ x.refresh = 0
    BY DEF Ready
  <2> HIDE DEF x
  <2>3. QED
    BY <1>4, <1>6, <2>1, <2>2
<1>7. CASE Me(c) \/ Method(c, "login") \/ Method(c, "logout")
  BY <1>6, <1>7 DEF Me, Method
<1>8. ~Command(c, "login") /\ ~Command(c, "logout") /\ ~meCmd(c) /\ ~NextCall(c)
  BY DEF meCmd, Command, NextCall
<1>9. ASSUME NEW x, req' = [req EXCEPT ![c] = x], UNCHANGED <<call, lost, client>>,
             r.at \notin {"waiting", "store"}, x.at \notin {"waiting", "store"},
             x.got = r.got, x.refresh \in {0, r.refresh, client.refresh}
      PROVE  Goal
  BY <1>2, <1>4, <1>9
<1>10. CASE Send(c)
  <2> DEFINE x == [r EXCEPT !.at = "request", !.pair = client.access]
  <2>1. /\ req' = [req EXCEPT ![c] = x]
        /\ UNCHANGED <<call, lost, client>> /\ r.at = "send"
    BY <1>1, <1>10 DEF Send, vars
  <2>2. x.at = "request" /\ x.got = r.got /\ x.refresh = r.refresh
    BY <1>1 DEF ClientCall
  <2> HIDE DEF x
  <2>3. QED
    BY <1>9, <2>1, <2>2
<1>11. CASE Answered(c)
  BY <1>4, <1>11, EndAgain DEF Answered, vars
<1>12. CASE Refused(c) \/ RequestLost(c) \/ RefreshRefused(c)
  <2> DEFINE x == [r EXCEPT !.at = "refused"]
  <2>1. /\ req' = [req EXCEPT ![c] = End(r)] \/ req' = [req EXCEPT ![c] = x]
        /\ UNCHANGED <<call, lost, client>> /\ r.at \in {"request", "refresh"}
    BY <1>12 DEF Refused, RequestLost, RefreshRefused, vars
  <2>2. x.at = "refused" /\ x.got = r.got /\ x.refresh = r.refresh
    BY <1>1 DEF ClientCall
  <2> HIDE DEF x
  <2>3. CASE req' = [req EXCEPT ![c] = x]
    BY <1>9, <2>1, <2>2, <2>3
  <2>4. CASE req' = [req EXCEPT ![c] = End(r)]
    BY <1>4, <2>1, <2>4, EndAgain
  <2>5. QED
    BY <2>1, <2>3, <2>4
<1>13. CASE ReadRefresh(c)
  <2> DEFINE x == [r EXCEPT !.at = "check", !.pair = 0, !.refresh = client.refresh,
                            !.version = client.version]
  <2>1. /\ req' = [req EXCEPT ![c] = End(r)] \/ req' = [req EXCEPT ![c] = x]
        /\ UNCHANGED <<call, lost, client>> /\ r.at = "refused"
    BY <1>1, <1>13 DEF ReadRefresh, vars
  <2>2. x.at = "check" /\ x.got = r.got /\ x.refresh = client.refresh
    BY <1>1 DEF ClientCall
  <2> HIDE DEF x
  <2>3. QED
    BY <1>2, <1>4, <2>1, <2>2, EndAgain
<1>14. CASE CheckVersion(c)
  <2> DEFINE x == [r EXCEPT !.at = "refresh", !.version = 0]
  <2>1. /\ req' = [req EXCEPT ![c] = Again(r)] \/ req' = [req EXCEPT ![c] = x]
        /\ UNCHANGED <<call, lost, client>> /\ r.at = "check"
    BY <1>1, <1>14 DEF CheckVersion, vars
  <2>2. x.at = "refresh" /\ x.got = r.got /\ x.refresh = r.refresh
    BY <1>1 DEF ClientCall
  <2> HIDE DEF x
  <2>3. CASE req' = [req EXCEPT ![c] = x]
    BY <1>9, <2>1, <2>2, <2>3
  <2>4. CASE req' = [req EXCEPT ![c] = Again(r)]
    BY <1>4, <2>1, <2>4, EndAgain
  <2>5. QED
    BY <2>1, <2>3, <2>4
<1>15. CASE Clear(c)
  <2>1. /\ req' = [req EXCEPT ![c] = Ready] /\ UNCHANGED <<call, lost>> /\ r.at = "clear"
    BY <1>15 DEF Clear, vars
  <2>2. client'.refresh = 0
    BY <1>15 DEF Clear, WithTokens
  <2>3. QED
    BY <1>4, <2>1, <2>2, EndAgain
<1>16. CASE persistTokens(c)
  BY <1>4, <1>16, EndAgain DEF persistTokens, vars
<1>17. CASE AnswerLost(c)
  <2>1. /\ req' = [req EXCEPT ![c] = End([r EXCEPT !.got = 0])] /\ r.at = "store"
        /\ UNCHANGED <<call, client>> /\ lost' = lost \cup {r.got}
    BY <1>1, <1>17 DEF AnswerLost
  <2>2. QED
    BY <1>3, <2>1, EndAgain DEF Loses, Tells
<1>18. CASE Store(c)
  <2>1. /\ \/ req' = [req EXCEPT ![c] = Again(r)]
           \/ req' = [req EXCEPT ![c] = Ready]
        /\ UNCHANGED <<call, lost>> /\ r.at = "store" /\ client' = WithTokens(r.got)
    BY <1>5, <1>18 DEF Store, vars
  <2>2. client'.refresh = r.got
    BY <2>1 DEF WithTokens
  <2>3. QED
    BY <1>3, <2>1, <2>2, EndAgain DEF Stores, Tells
<1>19. ASSUME NEW w \in Worker, NEW x, req' = [req EXCEPT ![c] = x],
              x.at = "waiting", x.worker = w, x.got = 0, x.refresh \in {0, r.refresh},
              r.at \notin {"waiting", "store"}, UNCHANGED <<client, lost>>,
              call[w].at = "idle", NEW y \in Call, Turn(w, y), y.at # "reset",
              y.session \in {0, r.refresh}
       PROVE  Goal
  <2>1. call'[w] = y /\ \A v \in Worker : v # w => call'[v] = call[v]
    BY <1>19, TurnTyped
  <2>2. y.at # "idle"
    BY <1>19 DEF Call
  <2>3. OthersKeep(c) /\ req'[c] = x
    BY <1>3, <1>19
  <2>4. Asks(c, w)
    BY <1>19, <2>1, <2>2, <2>3 DEF Asks, Waits
  <2>5. QED
    BY <2>3, <2>4
<1>20. ASSUME NEW w \in Worker, LogoutServed(c, w)
       PROVE  Goal
  <2> DEFINE x == [r EXCEPT !.at = "waiting", !.worker = w, !.pair = 0]
             y == LoggingOut(r.pair)
  <2>1. /\ req' = [req EXCEPT ![c] = x] /\ r.at = "request" /\ UNCHANGED <<client, lost>>
        /\ call[w].at = "idle" /\ Turn(w, y) /\ r.pair # 0
    BY <1>1, <1>20 DEF LogoutServed, LogoutBlacklist, Turn
  <2>2. r.pair \in DOMAIN session
    BY <1>1, <2>1 DEF ClientCall, Pairs, TypeOK
  <2>3. x.at = "waiting" /\ x.worker = w /\ x.got = r.got /\ x.refresh = r.refresh
    BY <1>1 DEF ClientCall
  <2>4. y \in Call /\ y.at = "revokeAll" /\ y.session = 0
    BY <2>2, LoggingOutTyped DEF LoggingOut, Idle
  <2> HIDE DEF x, y
  <2>5. QED
    BY <1>2, <1>19, <2>1, <2>3, <2>4
<1>21. ASSUME NEW w \in Worker, RefreshServed(c, w)
       PROVE  Goal
  <2> DEFINE x == [r EXCEPT !.at = "waiting", !.worker = w, !.refresh = 0]
             y == [Idle EXCEPT !.at = "revokeOne", !.op = "refresh",
                               !.user = session[r.refresh].user, !.session = r.refresh,
                               !.password = session[r.refresh].password,
                               !.crossed = session[r.refresh].crossed]
  <2>1. /\ req' = [req EXCEPT ![c] = x] /\ r.at = "refresh" /\ UNCHANGED <<client, lost>>
        /\ call[w].at = "idle" /\ Turn(w, y)
    BY <1>1, <1>21 DEF RefreshServed, RefreshFind, Turn
  <2>2. r.refresh \in DOMAIN session
    <3> HIDE DEF x, y
    <3>1. r.refresh # 0 /\ r.refresh \in Pairs
      BY <1>1, <2>1 DEF ClientTypeOK, ClientCall
    <3>2. QED
      BY <3>1 DEF Pairs, TypeOK
  <2>3. x.at = "waiting" /\ x.worker = w /\ x.got = r.got /\ x.refresh = 0
    BY <1>1 DEF ClientCall
  <2>4. session[r.refresh] \in Session /\ r.refresh \in Nat
    BY <2>2, RowTyped
  <2>5. y \in Call /\ y.at = "revokeOne" /\ y.session = r.refresh
    <3> DEFINE row == session[r.refresh]
    <3>1. /\ row.user \in User /\ row.password \in 0 .. MaxPassword /\ row.crossed \in BOOLEAN
      BY <2>4 DEF Session
    <3> HIDE DEF row
    <3>2. y = [Idle EXCEPT !.at = "revokeOne", !.op = "refresh", !.user = row.user,
                           !.session = r.refresh, !.password = row.password,
                           !.crossed = row.crossed]
      BY DEF row
    <3>3. QED
      BY <2>4, <3>1, <3>2, IdleTyped DEF Call, Stages
  <2> HIDE DEF x, y
  <2>6. QED
    BY <1>2, <1>19, <2>1, <2>3, <2>5
<1>22. ASSUME NEW w \in Worker, LoginServed(c, w)
       PROVE  Goal
  <2>1. PICK u \in User : LoginStart(w, u, user[u].password, 0)
    BY <1>22 DEF LoginServed
  <2> DEFINE x == [r EXCEPT !.at = "waiting", !.worker = w]
             y == Asked(u, user[u].password, 0)
  <2>2. /\ req' = [req EXCEPT ![c] = x] /\ r.at = "login" /\ UNCHANGED <<client, lost>>
        /\ call[w].at = "idle" /\ Turn(w, y)
    BY <1>1, <1>22, <2>1 DEF LoginServed, LoginStart, Turn
  <2>3. x.at = "waiting" /\ x.worker = w /\ x.got = r.got /\ x.refresh = r.refresh
    BY <1>1 DEF ClientCall
  <2>4. user[u].password \in 1 .. MaxPassword
    BY DEF TypeOK
  <2>5. y \in Call /\ y.at = "rate" /\ y.session = 0
    BY <2>4, AskedTyped, Bounds DEF Asked, Idle
  <2> HIDE DEF x, y
  <2>6. QED
    BY <1>2, <1>19, <2>2, <2>3, <2>5
<1>23. QED
  BY <1>7, <1>8, <1>10, <1>11, <1>12, <1>13, <1>14, <1>15, <1>16, <1>17, <1>18, <1>20, <1>21,
     <1>22
  DEF ClientStep, LoginPassword, Logout, loginCmd, logoutCmd, payCmd, doWithRetry, doRaw,
      refreshLocked, Me

\* A step of the server, as far as the goroutines can tell.
LEMMA ServerTells ==
  ASSUME TypeOK, NEW w \in Worker, ServerStep(w)
  PROVE  /\ UNCHANGED <<client, lost>> /\ call[w].at # "idle"
         /\ \A v \in Worker : v # w => call'[v].at = call[v].at
         /\ \A v \in Worker : call'[v].session \in {0, call[v].session}
         /\ call[w].at = "reset" => call'[w].at = "idle"
         /\ \/ /\ Len(session') = Len(session) + 1 /\ made' = Append(made, call[w].session)
               /\ call[w].at = "issue" /\ call'[w].at \in {"reset", "idle"}
            \/ /\ Len(session') = Len(session) /\ made' = made
               /\ call'[w].at # "reset"
<1>1. LoginStep(w) \/ SessionStep(w) \/ Fault(w)
  BY DEF ServerStep
<1>2. ServerMove
  BY <1>1 DEF ServerMove
<1>3. UNCHANGED <<client, lost>>
  BY DEF ServerStep
<1>4. Idle.at = "idle" /\ Idle.session = 0
  BY DEF Idle
<1>5. ASSUME NEW v \in Worker
      PROVE  call[v].session \in Nat
  BY CallTyped, IdleTyped DEF Call
<1>6. call[w].at = "reset" => call'[w].at = "idle"
  <2>1. ASSUME Done(w)
        PROVE  call'[w].at = "idle"
    BY <1>4, <2>1, DoneTurn, TurnTyped
  <2>2. ASSUME call[w].at = "reset"
        PROVE  LoginReset(w) \/ Fault(w)
    BY <1>1, <2>2 DEF LoginStep, SessionStep, LoginRate, LoginFind, LoginIncr, LoginExpire,
       LoginLock, Issue, RefreshRevoke, RevokeAll, ChangeWrite, EnrollWrite, VerifyWrite,
       DisableWrite
  <2>3. call[w].at = "reset" => AfterError(call[w]) = "idle"
    BY DEF AfterError
  <2>4. QED
    BY <2>1, <2>2, <2>3 DEF LoginReset, Fault
<1>7. CASE RevokeAll(w)
  <2>1. /\ call'[w] = Idle
        /\ \A v \in Worker : v # w =>
             \/ call'[v] = call[v]
             \/ call[v] \in Call /\ call'[v] = [call[v] EXCEPT !.crossed = TRUE]
    BY <1>7, CrossingTyped
  <2>2. ASSUME NEW v \in Worker, v # w
        PROVE  call'[v].at = call[v].at /\ call'[v].session = call[v].session
    <3>1. \A q \in Call : [q EXCEPT !.crossed = TRUE].at = q.at
                          /\ [q EXCEPT !.crossed = TRUE].session = q.session
      BY DEF Call
    <3>2. QED
      BY <2>1, <2>2, <3>1
  <2>3. Len(session') = Len(session)
    <3>1. ~Issue(w)
      BY <1>7 DEF RevokeAll, Issue
    <3>2. session' = RevokedAll(call[w].user)
      BY <1>7 DEF RevokeAll
    <3>3. DOMAIN RevokedAll(call[w].user) = DOMAIN session
      BY RevokedAllSequel
    <3>4. \A i \in DOMAIN session : RevokedAll(call[w].user)[i] \in Session
      BY RevokedAllSequel DEF Sequel
    <3>5. QED
      BY <3>2, <3>3, <3>4, RevokedAllSequel, TableTyped
  <2>4. made' = made
    BY <2>3, PairsStay, <1>2 DEF ServerStep
  <2>5. QED
    BY <1>3, <1>4, <1>6, <1>7, <2>1, <2>2, <2>3, <2>4 DEF RevokeAll
<1>8. CASE ~RevokeAll(w)
  <2>1. /\ call[w].at # "idle"
        /\ \E x \in Call \cup {Idle} : Turn(w, x) /\ (x = Idle \/ GoesOnAs(w, x))
    BY <1>1, <1>8, GoesOnTurn
  <2>2. PICK x \in Call \cup {Idle} : Turn(w, x) /\ (x = Idle \/ GoesOnAs(w, x))
    BY <2>1
  <2>3. call'[w] = x /\ \A v \in Worker : v # w => call'[v] = call[v]
    BY <2>2, TurnTyped
  <2>4. call'[w].session \in {0, call[w].session}
    BY <1>4, <2>2, <2>3 DEF GoesOnAs
  <2>5. CASE Issue(w)
    <3>1. Len(session') = Len(session) + 1 /\ Len(session) \in Nat
      BY <2>5, IssueTyped, PairsStay, <1>2
    <3>2. made' = Append(made, call[w].session)
      BY <3>1 DEF ServerStep
    <3>3. call'[w].at \in {"reset", "idle"}
      <4>1. Done(w) => call'[w].at = "idle"
        BY <1>4, DoneTurn, TurnTyped
      <4>2. Go(w, "reset") => call'[w].at = "reset"
        BY CallTyped, <2>1 DEF Go, TypeOK, Call
      <4>3. QED
        BY <2>5, <4>1, <4>2 DEF Issue
    <3>4. QED
      BY <1>3, <1>6, <2>1, <2>3, <2>4, <2>5, <3>1, <3>2, <3>3 DEF Issue
  <2>6. CASE ~Issue(w)
    <3>1. Len(session') = Len(session)
      <4>1. CASE UNCHANGED session
        BY <4>1
      <4>2. CASE RefreshRevoke(w)
        <5>1. session' = Revoked(call[w].session)
          BY <4>2 DEF RefreshRevoke
        <5>2. DOMAIN Revoked(call[w].session) = DOMAIN session
          BY RevokedSequel
        <5>3. \A i \in DOMAIN session : Revoked(call[w].session)[i] \in Session
          BY RevokedSequel DEF Sequel
        <5>4. QED
          BY <5>1, <5>2, <5>3, RevokedSequel, TableTyped
      <4>3. UNCHANGED session \/ RefreshRevoke(w)
        BY <1>1, <1>8, <2>6
        DEF LoginStep, SessionStep, LoginRate, LoginFind, LoginIncr, LoginExpire, LoginLock,
            LoginReset, ChangeWrite, EnrollWrite, VerifyWrite, DisableWrite, Fault, sessionVars
      <4>4. QED
        BY <4>1, <4>2, <4>3
    <3>2. made' = made
      BY <3>1, PairsStay, <1>2 DEF ServerStep
    <3>3. call'[w].at # "reset"
      BY <1>4, <2>2, <2>3, <2>6 DEF GoesOnAs
    <3>4. QED
      BY <1>3, <1>6, <2>1, <2>3, <2>4, <3>1, <3>2, <3>3
  <2>7. QED
    BY <2>5, <2>6
<1>9. QED
  BY <1>7, <1>8

\* What a goroutine that waits for the request of w hears: that it goes on, its
\* answer with the pair that was issued, or an answer without one.
LEMMA HeardTells ==
  ASSUME TypeOK, ClientTypeOK, NEW w \in Worker, ServerStep(w), NEW c \in Caller
  PROVE  /\ ~Waits(c, w) => req'[c] = req[c]
         /\ Waits(c, w) =>
              LET got == IF Len(session') > Len(session) THEN Len(session') ELSE req[c].got
              IN /\ req'[c].got = got
                 /\ req'[c].refresh \in {0, req[c].refresh}
                 /\ call'[w].at # "idle" => Waits(c, w)'
                 /\ call'[w].at = "idle" =>
                      req'[c].at = IF got > 0 THEN "store" ELSE IF req[c].op = "logout"
                                   THEN "clear" ELSE "idle"
<1> DEFINE q == req[c]
           got == IF Len(session') > Len(session) THEN Len(session') ELSE q.got
<1>1. q \in ClientCall /\ got \in Nat
  BY PairsStay DEF ClientTypeOK, ClientCall, Pairs, ServerStep, ServerMove
<1>2. req' = [d \in Caller |-> IF Waits(d, w) THEN Heard(req[d], w) ELSE req[d]]
  BY DEF ServerStep, Waits
<1>3. /\ call'[w].at # "idle" => Heard(q, w) = [q EXCEPT !.got = got]
      /\ call'[w].at = "idle" /\ got > 0
           => Heard(q, w) = [q EXCEPT !.got = got, !.at = "store", !.worker = "none"]
      /\ call'[w].at = "idle" /\ got = 0 => Heard(q, w) = End(q)
  BY <1>1 DEF Heard
<1> HIDE DEF got
<1>4. LET x == [q EXCEPT !.got = got]
      IN /\ x.at = q.at /\ x.worker = q.worker /\ x.got = got /\ x.refresh = q.refresh
  BY <1>1 DEF ClientCall
<1>5. LET x == [q EXCEPT !.got = got, !.at = "store", !.worker = "none"]
      IN /\ x.at = "store" /\ x.got = got /\ x.refresh = q.refresh
  BY <1>1 DEF ClientCall
<1>6. /\ End(q).at = IF q.op = "logout" THEN "clear" ELSE "idle"
      /\ End(q).got = 0 /\ End(q).refresh = 0
  BY DEF End, Ready
<1>7. ASSUME Waits(c, w)
      PROVE  /\ req'[c].got = got
             /\ req'[c].refresh \in {0, q.refresh}
             /\ call'[w].at # "idle" => req'[c].at = q.at /\ req'[c].worker = q.worker
             /\ call'[w].at = "idle" =>
                  req'[c].at = IF got > 0 THEN "store" ELSE IF q.op = "logout"
                               THEN "clear" ELSE "idle"
  <2>1. req'[c] = Heard(q, w)
    BY <1>2, <1>7
  <2>2. CASE call'[w].at # "idle"
    BY <1>3, <1>4, <2>1, <2>2
  <2>3. CASE call'[w].at = "idle" /\ got > 0
    BY <1>3, <1>5, <2>1, <2>3
  <2>4. CASE call'[w].at = "idle" /\ got = 0
    BY <1>3, <1>6, <2>1, <2>4
  <2>5. QED
    BY <1>1, <2>2, <2>3, <2>4
<1>8. QED
  BY <1>2, <1>7 DEF Waits, got

LEMMA SharedStays ==
  ASSUME TypeOK, ClientTypeOK, [ClientNext]_allVars
  PROVE  mix' = mix
BY ClientIsServer, MixStays DEF vars, sessionVars

\* A goroutine's step leaves the rows of pairs and what they were made from.
LEMMA OwnStepLeaves ==
  ASSUME TypeOK, ClientTypeOK, NEW c \in Caller, ClientStep(c)
  PROVE  made' = made /\ Len(session') = Len(session)
<1>1. ASSUME NEW op, Begin(c, op)
      PROVE  UNCHANGED <<made, session>>
  BY <1>1 DEF Begin, vars, sessionVars
<1>2. ASSUME NEW w \in Worker, RefreshServed(c, w) \/ LoginServed(c, w)
      PROVE  UNCHANGED <<made, session>>
  BY <1>2 DEF RefreshServed, RefreshFind, LoginServed, LoginStart, sessionVars
<1>3. ASSUME NEW w \in Worker, LogoutServed(c, w)
      PROVE  made' = made /\ Len(session') = Len(session)
  <2>1. /\ req[c].pair \in DOMAIN session /\ made' = made
        /\ session' = Blacklisted(req[c].pair)
    BY <1>3 DEF LogoutServed, LogoutBlacklist, ClientTypeOK, ClientCall, Pairs, TypeOK
  <2>2. Len(Blacklisted(req[c].pair)) = Len(session)
    BY <2>1, BlacklistedSequel, TableTyped DEF Sequel
  <2>3. QED
    BY <2>1, <2>2
<1>4. CASE \/ doWithRetry(c) \/ CheckVersion(c) \/ RefreshRefused(c) \/ AnswerLost(c)
           \/ Store(c) \/ Clear(c) \/ persistTokens(c)
  BY <1>4 DEF doWithRetry, doRaw, Send, Answered, Refused, RequestLost, ReadRefresh,
     CheckVersion, RefreshRefused, AnswerLost, Store, Clear, persistTokens, vars, sessionVars
<1>5. QED
  BY <1>1, <1>2, <1>3, <1>4
  DEF ClientStep, Me, LoginPassword, Logout, loginCmd, logoutCmd, payCmd, meCmd, NextCall,
      Method, Command, refreshLocked

LEMMA NewestHoldsStep ==
  TypeOK /\ ClientTypeOK /\ NewestHolds /\ [ClientNext]_allVars => NewestHolds'
<1> SUFFICES ASSUME TypeOK, ClientTypeOK, NewestHolds, [ClientNext]_allVars,
                    Clients' = {"client"}
             PROVE  Awaited' /\ UnknownYet' /\ InTable' /\ NewestComes'
  BY DEF NewestHolds
<1> DEFINE Goal == Awaited' /\ UnknownYet' /\ InTable' /\ NewestComes'
<1>1. Clients = {"client"} /\ "cli" \notin mix
  BY SharedStays DEF Clients
<1>2. Awaited /\ UnknownYet /\ InTable /\ NewestComes
  BY <1>1 DEF NewestHolds
<1>3. /\ \A c \in Caller : /\ req[c].got \in 0 .. Len(session)
                           /\ req[c].refresh \in 0 .. Len(session)
      /\ client.refresh \in 0 .. Len(session)
      /\ Len(session) \in Nat /\ Len(made) \in Nat /\ DOMAIN made = 1 .. Len(made)
      /\ \A i \in DOMAIN made : made[i] \in Nat
  BY DEF ClientTypeOK, ClientCall, Pairs, TypeOK
<1>4. \A w \in Worker : call[w].session \in Nat
  BY CallTyped, IdleTyped DEF Call
<1>5. ASSUME UNCHANGED <<call, made, lost, req, client>>, Len(session') = Len(session)
      PROVE  Goal
  BY <1>2, <1>5 DEF Awaited, UnknownYet, InTable, NewestComes, Waits
<1>6. ASSUME NEW c \in Caller, OthersKeep(c), KeepsToItself(c) \/ Loses(c) \/ Stores(c),
             made' = made, Len(session') = Len(session)
      PROVE  Goal
  <2>1. /\ UNCHANGED call /\ req'[c].at \notin {"waiting", "store"} /\ req'[c].got = 0
        /\ req[c].at # "waiting"
    BY <1>6 DEF KeepsToItself, Loses, Stores, Tells
  <2>2. \A d \in Caller : d # c => /\ req'[d].at = req[d].at /\ req'[d].worker = req[d].worker
                                   /\ req'[d].got = req[d].got /\ req'[d].refresh = req[d].refresh
    BY <1>6 DEF OthersKeep
  <2>3. Awaited'
    BY <1>2, <2>1, <2>2 DEF Awaited, Waits
  <2>4. req'[c].refresh \in {0, req[c].refresh, client.refresh}
        /\ (client'.refresh \in {0, client.refresh} \/ Stores(c))
    BY <1>6 DEF KeepsToItself, Loses, Stores
  <2>5. ASSUME NEW d \in Caller, req'[d].got # 0
        PROVE  /\ d # c /\ req[d].got = req'[d].got
               /\ client'.refresh # req[d].got
               /\ \A e \in Caller : /\ req'[e].refresh # req[d].got
                                    /\ e # d => req'[e].got # req[d].got
               /\ \A w \in Worker : call'[w].session # req[d].got
               /\ \A i \in DOMAIN made' : made'[i] # req[d].got
    <3>1. d # c /\ req[d].got = req'[d].got
      BY <2>1, <2>2, <2>5
    <3>2. Stores(c) => client'.refresh # req[d].got
      BY <1>2, <2>5, <3>1 DEF Stores, UnknownYet
    <3>3. client.refresh # req[d].got /\ 0 # req[d].got
      BY <1>2, <2>5, <3>1 DEF UnknownYet
    <3>4. client'.refresh # req[d].got
      BY <2>4, <3>2, <3>3
    <3>5. ASSUME NEW e \in Caller
          PROVE  req'[e].refresh # req[d].got /\ (e # d => req'[e].got # req[d].got)
      <4>1. req[e].refresh # req[d].got /\ (e # d => req[e].got # req[d].got)
        BY <1>2, <2>5, <3>1 DEF UnknownYet
      <4>2. CASE e = c
        BY <2>1, <2>4, <3>3, <4>1, <4>2
      <4>3. CASE e # c
        BY <2>2, <4>1, <4>3
      <4>4. QED
        BY <4>2, <4>3
    <3>6. QED
      BY <1>2, <1>6, <2>1, <2>5, <3>1, <3>4, <3>5 DEF UnknownYet
  <2>6. UnknownYet'
    BY <2>5 DEF UnknownYet
  <2>7. InTable'
    BY <1>2, <1>6, <2>1 DEF InTable
  <2>8. NewestComes'
    <3>1. CASE Stores(c)
      <4>1. client'.refresh # 0 => \A i \in DOMAIN made : made[i] # client'.refresh
        BY <1>2, <3>1 DEF Stores, UnknownYet
      <4>2. QED
        BY <1>6, <4>1 DEF NewestComes
    <3>2. ASSUME ~Stores(c), client'.refresh # 0, NEW i \in DOMAIN made, made[i] = client'.refresh
          PROVE  i \in lost' \/ \E d \in Caller : req'[d].got = i
      <4>1. client'.refresh = client.refresh
        BY <2>4, <3>2
      <4>2. i \in lost \/ \E d \in Caller : req[d].got = i
        BY <1>2, <3>2, <4>1 DEF NewestComes
      <4>3. lost \subseteq lost'
        BY <1>6, <3>2 DEF KeepsToItself, Loses
      <4>4. req[c].got = i => i \in lost'
        <5>1. CASE Loses(c)
          BY <5>1 DEF Loses
        <5>2. CASE KeepsToItself(c)
          BY <1>2, <1>3, <5>2 DEF KeepsToItself, Awaited
        <5>3. QED
          BY <1>6, <3>2, <5>1, <5>2
      <4>5. QED
        BY <2>2, <4>2, <4>3, <4>4
    <3>3. QED
      BY <1>6, <3>1, <3>2 DEF NewestComes
  <2>9. QED
    BY <2>3, <2>6, <2>7, <2>8
<1>7. ASSUME NEW c \in Caller, NEW w \in Worker, OthersKeep(c), Asks(c, w),
             made' = made, Len(session') = Len(session)
      PROVE  Goal
  <2>1. /\ call[w].at = "idle" /\ call'[w].at \notin {"idle", "reset"}
        /\ call'[w].session \in {0, req[c].refresh}
        /\ \A v \in Worker : v # w => call'[v] = call[v]
        /\ UNCHANGED <<client, lost>> /\ req[c].at \notin {"waiting", "store"}
        /\ req'[c].at = "waiting" /\ req'[c].worker = w
        /\ req'[c].got = 0 /\ req'[c].refresh \in {0, req[c].refresh}
    BY <1>7 DEF Asks, Waits
  <2>2. \A d \in Caller : d # c => /\ req'[d].at = req[d].at /\ req'[d].worker = req[d].worker
                                   /\ req'[d].got = req[d].got /\ req'[d].refresh = req[d].refresh
    BY <1>7 DEF OthersKeep
  <2>3. \A d \in Caller : ~Waits(d, w)
    BY <1>2, <2>1 DEF Awaited, Waits
  <2>4. ASSUME NEW v \in Worker, call'[v].at # "idle"
        PROVE  \E d \in Caller : Waits(d, v)'
    <3>1. CASE v = w
      BY <2>1, <3>1 DEF Waits
    <3>2. CASE v # w
      <4>1. PICK d \in Caller : Waits(d, v)
        BY <1>2, <2>1, <2>4, <3>2 DEF Awaited
      <4>2. d # c
        BY <2>1, <4>1 DEF Waits
      <4>3. QED
        BY <2>2, <4>1, <4>2 DEF Waits
    <3>3. QED
      BY <3>1, <3>2
  <2>5. ASSUME NEW d \in Caller, NEW e \in Caller, NEW v \in Worker, Waits(d, v)', Waits(e, v)'
        PROVE  d = e
    <3>1. \A f \in Caller : f # c /\ Waits(f, v)' => Waits(f, v) /\ v # w
      BY <2>2, <2>3 DEF Waits
    <3>2. Waits(c, v)' => v = w
      BY <2>1 DEF Waits
    <3>3. QED
      BY <1>2, <2>5, <3>1, <3>2 DEF Awaited
  <2>6. ASSUME NEW d \in Caller
        PROVE  /\ req'[d].at = "waiting" =>
                    req'[d].worker \in Worker /\ call'[req'[d].worker].at # "idle"
               /\ req'[d].got # 0 =>
                    \/ req'[d].at = "store"
                    \/ req'[d].at = "waiting" /\ call'[req'[d].worker].at = "reset"
    <3>1. CASE d = c
      BY <2>1, <3>1
    <3>2. CASE d # c
      <4>1. req[d].at = "waiting" => req[d].worker # w
        BY <2>3 DEF Waits
      <4>2. QED
        BY <1>2, <2>1, <2>2, <3>2, <4>1 DEF Awaited
    <3>3. QED
      BY <3>1, <3>2
  <2>7. Awaited'
    BY <2>4, <2>5, <2>6 DEF Awaited
  <2>8. ASSUME NEW d \in Caller, req'[d].got # 0
        PROVE  /\ req[d].got = req'[d].got
               /\ client'.refresh # req[d].got
               /\ \A e \in Caller : /\ req'[e].refresh # req[d].got
                                    /\ e # d => req'[e].got # req[d].got
               /\ \A v \in Worker : call'[v].session # req[d].got
               /\ \A i \in DOMAIN made' : made'[i] # req[d].got
    <3>1. req[d].got = req'[d].got /\ req[d].got # 0
      BY <2>1, <2>2, <2>8
    <3>2. /\ client.refresh # req[d].got
          /\ \A e \in Caller : /\ req[e].refresh # req[d].got
                               /\ e # d => req[e].got # req[d].got
          /\ \A v \in Worker : call[v].session # req[d].got
          /\ \A i \in DOMAIN made : made[i] # req[d].got
      BY <1>2, <3>1 DEF UnknownYet
    <3>3. \A e \in Caller : /\ req'[e].refresh # req[d].got
                            /\ e # d => req'[e].got # req[d].got
      BY <2>1, <2>2, <3>1, <3>2
    <3>4. \A v \in Worker : call'[v].session # req[d].got
      BY <2>1, <3>1, <3>2
    <3>5. QED
      BY <1>7, <2>1, <3>1, <3>2, <3>3, <3>4
  <2>9. UnknownYet'
    BY <2>8 DEF UnknownYet
  <2>10. InTable'
    BY <1>2, <1>3, <1>7, <2>1 DEF InTable
  <2>11. NewestComes'
    <3>1. \A i \in DOMAIN made : \A d \in Caller : req[d].got = i => req'[d].got = i
      BY <1>2, <1>3, <2>1, <2>2 DEF Awaited
    <3>2. QED
      BY <1>2, <1>7, <2>1, <3>1 DEF NewestComes
  <2>12. QED
    BY <2>7, <2>9, <2>10, <2>11
<1>8. ASSUME NEW w \in Worker, ServerStep(w)
      PROVE  Goal
  <2> DEFINE n == Len(session) + 1
             Issues == /\ Len(session') = n /\ made' = Append(made, call[w].session)
                       /\ call[w].at = "issue" /\ call'[w].at \in {"reset", "idle"}
             Rests == /\ Len(session') = Len(session) /\ made' = made
                      /\ call'[w].at # "reset"
  <2>1. /\ UNCHANGED <<client, lost>> /\ call[w].at # "idle"
        /\ \A v \in Worker : v # w => call'[v].at = call[v].at
        /\ \A v \in Worker : call'[v].session \in {0, call[v].session}
        /\ call[w].at = "reset" => call'[w].at = "idle"
        /\ Issues \/ Rests
    BY <1>8, ServerTells
  <2>2. PICK c \in Caller : Waits(c, w)
    BY <1>2, <2>1 DEF Awaited
  <2>3. \A d \in Caller : d # c => ~Waits(d, w) /\ req'[d] = req[d]
    BY <1>2, <1>8, <2>2, HeardTells DEF Awaited
  <2>4. /\ req'[c].got = IF Issues THEN n ELSE req[c].got
        /\ req'[c].refresh \in {0, req[c].refresh}
        /\ call'[w].at # "idle" => req'[c].at = "waiting" /\ req'[c].worker = w
        /\ call'[w].at = "idle" =>
             /\ req'[c].at # "waiting"
             /\ req'[c].got > 0 => req'[c].at = "store"
    <3>1. Len(session') > Len(session) <=> Issues
      BY <1>3, <2>1
    <3> HIDE DEF Issues
    <3>2. Issues => Len(session') = n
      BY DEF Issues
    <3>3. /\ req'[c].got = IF Issues THEN n ELSE req[c].got
          /\ req'[c].refresh \in {0, req[c].refresh}
          /\ call'[w].at # "idle" => Waits(c, w)'
          /\ call'[w].at = "idle" =>
               req'[c].at = IF req'[c].got > 0 THEN "store" ELSE IF req[c].op = "logout"
                            THEN "clear" ELSE "idle"
      BY <1>8, <2>2, <3>1, <3>2, HeardTells
    <3>4. QED
      BY <3>3 DEF Waits
  <2>5. /\ req[c].at = "waiting" /\ req[c].worker = w
        /\ req[c].got # 0 => call[w].at = "reset"
    BY <1>2, <2>2 DEF Waits, Awaited
  <2>6. Issues => req[c].got = 0
    BY <2>5
  <2> HIDE DEF n
  <2>7. n \in Nat /\ n > Len(session) /\ n # 0
    BY <1>3 DEF n
  <2>8. ASSUME NEW v \in Worker, call'[v].at # "idle"
        PROVE  \E d \in Caller : Waits(d, v)'
    <3>1. CASE v = w
      BY <2>4, <2>8, <3>1 DEF Waits
    <3>2. CASE v # w
      <4>1. PICK d \in Caller : Waits(d, v)
        BY <1>2, <2>1, <2>8, <3>2 DEF Awaited
      <4>2. d # c
        BY <2>5, <3>2, <4>1 DEF Waits
      <4>3. QED
        BY <2>3, <4>1, <4>2 DEF Waits
    <3>3. QED
      BY <3>1, <3>2
  <2>9. ASSUME NEW d \in Caller, NEW e \in Caller, NEW v \in Worker, Waits(d, v)', Waits(e, v)'
        PROVE  d = e
    <3>1. \A f \in Caller : Waits(f, v)' => Waits(f, v)
      BY <2>3, <2>4, <2>5 DEF Waits
    <3>2. QED
      BY <1>2, <2>9, <3>1 DEF Awaited
  <2>10. ASSUME NEW d \in Caller
         PROVE  /\ req'[d].at = "waiting" =>
                     req'[d].worker \in Worker /\ call'[req'[d].worker].at # "idle"
                /\ req'[d].got # 0 =>
                     \/ req'[d].at = "store"
                     \/ req'[d].at = "waiting" /\ call'[req'[d].worker].at = "reset"
    <3>1. CASE d = c
      <4>1. req'[c].got \in Nat
        BY <1>3, <2>4, <2>7
      <4>2. CASE call'[w].at = "idle"
        BY <2>4, <3>1, <4>1, <4>2
      <4>3. CASE call'[w].at # "idle"
        <5>1. req'[c].got # 0 => call'[w].at = "reset"
          BY <2>1, <2>4, <2>5, <4>3
        <5>2. QED
          BY <2>4, <3>1, <4>3, <5>1
      <4>4. QED
        BY <4>2, <4>3
    <3>2. CASE d # c
      <4>1. req'[d] = req[d] /\ (req[d].at = "waiting" => req[d].worker # w)
        BY <2>3, <3>2 DEF Waits
      <4>2. QED
        BY <1>2, <2>1, <4>1 DEF Awaited
    <3>3. QED
      BY <3>1, <3>2
  <2>11. Awaited'
    BY <2>8, <2>9, <2>10 DEF Awaited
  <2>12. \A d \in Caller : req'[d].refresh \in {0, req[d].refresh}
    BY <2>3, <2>4
  <2>13. \A i \in DOMAIN made' : \/ i \in DOMAIN made /\ made'[i] = made[i]
                                 \/ Issues /\ i = n /\ made'[i] = call[w].session
    BY <1>2, <1>3, <1>4, <2>1 DEF InTable, n, ClientTypeOK
  <2>14. ASSUME NEW d \in Caller, req'[d].got # 0, req'[d].got = req[d].got
         PROVE  /\ client'.refresh # req'[d].got
                /\ \A e \in Caller : /\ req'[e].refresh # req'[d].got
                                     /\ e # d => req'[e].got # req'[d].got
                /\ \A v \in Worker : call'[v].session # req'[d].got
                /\ \A i \in DOMAIN made' : made'[i] # req'[d].got
    <3>1. /\ client.refresh # req[d].got
          /\ \A e \in Caller : /\ req[e].refresh # req[d].got
                               /\ e # d => req[e].got # req[d].got
          /\ \A v \in Worker : call[v].session # req[d].got
          /\ \A i \in DOMAIN made : made[i] # req[d].got
      BY <1>2, <2>14 DEF UnknownYet
    <3>2. req[d].got # n
      BY <1>3, <2>7
    <3>3. \A e \in Caller : req'[e].got \in {req[e].got, n}
      BY <2>3, <2>4
    <3>4. QED
      BY <2>1, <2>12, <2>13, <2>14, <3>1, <3>2, <3>3
  <2>15. ASSUME Issues
         PROVE  /\ client'.refresh # n
                /\ \A e \in Caller : /\ req'[e].refresh # n
                                     /\ e # c => req'[e].got # n
                /\ \A v \in Worker : call'[v].session # n
                /\ \A i \in DOMAIN made' : made'[i] # n
    <3>1. client'.refresh # n
      BY <1>3, <2>1, <2>7
    <3>2. \A e \in Caller : req'[e].refresh # n /\ (e # c => req'[e].got # n)
      BY <1>3, <2>3, <2>7, <2>12
    <3>3. \A v \in Worker : call[v].session # n
      BY <1>2, <1>3, <1>4, <2>7 DEF InTable
    <3>4. \A v \in Worker : call'[v].session # n
      BY <2>1, <2>7, <3>3
    <3>5. \A i \in DOMAIN made : made[i] # n
      BY <1>2, <1>3, <2>7 DEF InTable
    <3>6. QED
      BY <2>13, <3>1, <3>2, <3>3, <3>4, <3>5
  <2>16. UnknownYet'
    <3>1. \A d \in Caller : req'[d].got = req[d].got \/ (Issues /\ d = c /\ req'[d].got = n)
      BY <2>3, <2>4
    <3>2. QED
      BY <2>14, <2>15, <3>1 DEF UnknownYet
  <2>17. InTable'
    <3>1. Len(made') = Len(session')
      BY <1>2, <1>3, <1>4, <2>1 DEF InTable, n, ClientTypeOK
    <3>2. Len(session) <= Len(session')
      BY <1>3, <2>1 DEF n
    <3>3. \A i \in DOMAIN made' : made'[i] <= Len(session) /\ made'[i] \in Nat
      BY <1>2, <1>3, <1>4, <2>13 DEF InTable
    <3>4. \A v \in Worker : call'[v].session <= Len(session) /\ call'[v].session \in Nat
      BY <1>2, <1>3, <1>4, <2>1 DEF InTable
    <3>5. Len(session') \in Nat
      BY <1>3, <2>1, <2>7
    <3>6. QED
      BY <1>3, <3>1, <3>2, <3>3, <3>4, <3>5 DEF InTable
  <2>18. ASSUME client'.refresh # 0, NEW i \in DOMAIN made', made'[i] = client'.refresh
         PROVE  i \in lost' \/ \E d \in Caller : req'[d].got = i
    <3>1. CASE Issues /\ i = n
      BY <2>4, <3>1
    <3>2. CASE i \in DOMAIN made /\ made'[i] = made[i]
      <4>1. i \in lost \/ \E d \in Caller : req[d].got = i
        BY <1>2, <2>1, <2>18, <3>2 DEF NewestComes
      <4>2. \A d \in Caller : req[d].got = i => req'[d].got = i
        BY <1>3, <2>3, <2>4, <2>6, <3>2
      <4>3. QED
        BY <2>1, <4>1, <4>2
    <3>3. QED
      BY <2>13, <3>1, <3>2
  <2>19. NewestComes'
    BY <2>18 DEF NewestComes
  <2>20. QED
    BY <2>11, <2>16, <2>17, <2>19
<1>9. CASE UNCHANGED allVars
  BY <1>5, <1>9 DEF allVars, vars, sessionVars, clientVars
<1>10. CASE Tick /\ UNCHANGED clientVars
  <2>1. Len(session') = Len(session)
    <3>1. /\ session' = [i \in DOMAIN session |-> session'[i]]
          /\ \A i \in DOMAIN session : session'[i] \in Session
      BY <1>10, TickSequel DEF Sequel
    <3>2. DOMAIN session' = DOMAIN session
      BY <3>1
    <3>3. QED
      BY <3>1, <3>2, TableTyped
  <2>2. QED
    BY <1>5, <1>10, <2>1 DEF Tick, clientVars
<1>11. ASSUME NEW c \in Caller, ClientStep(c)
       PROVE  Goal
  <2>1. made' = made /\ Len(session') = Len(session)
    BY <1>1, <1>11, OwnStepLeaves
  <2>2. QED
    BY <1>1, <1>2, <1>6, <1>7, <1>11, <2>1, GoroutineMoves
<1>12. ~Exit
  BY <1>1 DEF Exit
<1>13. QED
  BY <1>1, <1>8, <1>9, <1>10, <1>11, <1>12 DEF ClientNext

-----------------------------------------------------------------------------
(* Exchanges of a refresh token.                                           *)

Asking(c) == req[c].at \in {"check", "refresh"}

\* The requests of clients: a refresh is revoking its session or issuing the
\* next, and a logout is the only one to revoke all.
Orderly ==
    /\ InTable
    /\ \A w \in Worker :
         /\ call[w].op \in {"none", "login", "refresh", "logout"}
         /\ call[w].op = "refresh" => /\ call[w].at \in {"revokeOne", "issue"}
                                      /\ code = ErrAccessTokenInvalid
         /\ call[w].op # "refresh" => call[w].session = 0
         /\ call[w].at = "revokeOne" => call[w].op = "refresh"
         /\ call[w].at = "revokeAll" => call[w].op = "logout"

\* A token that works was not exchanged, and no request is about to issue.
Unspent ==
    \A i \in DOMAIN session : session[i].live
      => /\ \A j \in DOMAIN made : made[j] # i
         /\ \A w \in Worker : call[w].op = "refresh" /\ call[w].session = i
                              => call[w].at = "revokeOne"

\* With a code that it does not know, a client asks for no pair.
NeverAsked ==
    code # ErrAccessTokenInvalid
      => (\A c \in Caller : ~Asking(c)) /\ \A j \in DOMAIN made : made[j] = 0

FewExchanges ==
    \A i \in DOMAIN session :
      Cardinality(Exchanged(i)) + Cardinality(Exchanging(i)) <= Cardinality(Worker)

ExchangesHeld == Clients # {} => Orderly /\ Unspent /\ NeverAsked /\ FewExchanges

\* What this server answers stays, and only a client that knows it asks.
LEMMA CodeTells ==
  ASSUME TypeOK, ClientTypeOK, [ClientNext]_allVars, Clients # {}
  PROVE  /\ code' = code
         /\ code # ErrAccessTokenInvalid /\ (\A c \in Caller : ~Asking(c))
              => \A c \in Caller : ~Asking(c)'
<1>1. ASSUME NEW c \in Caller, ClientStep(c)
      PROVE  code' = code
  BY <1>1 DEF ClientStep, Me, LoginPassword, Logout, loginCmd, logoutCmd, payCmd, meCmd, NextCall,
     Method, Command, Begin, doWithRetry, doRaw, refreshLocked, Send, Answered, Refused,
     RequestLost, ReadRefresh, CheckVersion, RefreshServed, RefreshRefused, AnswerLost, Store,
     LoginServed, LogoutServed, Clear, persistTokens
<1>2. ASSUME NEW c \in Caller, ClientStep(c), code # ErrAccessTokenInvalid,
             \A d \in Caller : ~Asking(d), NEW d \in Caller
      PROVE  ~Asking(d)'
  BY <1>2, OwnCallTyped DEF Asking
<1>3. ASSUME NEW w \in Worker, ServerStep(w), NEW d \in Caller, ~Asking(d)
      PROVE  ~Asking(d)'
  <2>1. req[d] \in ClientCall
    BY DEF ClientTypeOK
  <2>2. ServerMove
    BY <1>3 DEF ServerStep, ServerMove
  <2>3. req'[d] = IF req[d].at = "waiting" /\ req[d].worker = w THEN Heard(req[d], w) ELSE req[d]
    BY <1>3 DEF ServerStep
  <2>4. Heard(req[d], w).at \in {req[d].at, "store", "clear", "idle"}
    BY <2>1, <2>2, HeardTyped
  <2>5. QED
    BY <1>3, <2>3, <2>4 DEF Asking
<1>4. ASSUME NEW w \in Worker, ServerStep(w)
      PROVE  code' = code
  BY <1>4 DEF ServerStep
<1>5. Exit \/ UNCHANGED clientVars => UNCHANGED <<code, req>>
  BY DEF Exit, clientVars
<1>6. UNCHANGED <<code, req>> => \A c \in Caller : Asking(c)' = Asking(c)
  BY DEF Asking
<1>7. UNCHANGED allVars => UNCHANGED clientVars
  BY DEF allVars
<1>8. \/ \E c \in Caller : ClientStep(c)
      \/ \E w \in Worker : ServerStep(w)
      \/ Exit \/ UNCHANGED clientVars
  BY <1>7 DEF ClientNext
<1>9. QED
  BY <1>1, <1>2, <1>3, <1>4, <1>5, <1>6, <1>8

\* A request of a goroutine begins, for what module Sessions keeps of it.
Starts(c) ==
    \E w \in Worker : \E x \in Call :
      /\ call[w].at = "idle" /\ Turn(w, x)
      /\ \/ x.op \in {"login", "logout"} /\ x.session = 0 /\ x.at \in {"rate", "revokeAll"}
         \/ /\ x.op = "refresh" /\ x.at = "revokeOne" /\ Asking(c)
            /\ x.session \in DOMAIN session /\ session[x.session].live
      /\ x.at = "revokeAll" => x.op = "logout"
      /\ x.op = "logout" => \E i \in DOMAIN session' : session'[i].out

LEMMA OwnStepStarts ==
  ASSUME TypeOK, ClientTypeOK, NEW c \in Caller, ClientStep(c)
  PROVE  /\ \/ UNCHANGED <<call, session>>
            \/ Starts(c)
         /\ DOMAIN session' = DOMAIN session
         /\ \A i \in DOMAIN session : /\ session'[i].live = session[i].live
                                      /\ session[i].out => session'[i].out
         /\ lost' = lost \/ faults' = faults + 1
<1> DEFINE Rows == /\ DOMAIN session' = DOMAIN session
                   /\ \A i \in DOMAIN session : /\ session'[i].live = session[i].live
                                                /\ session[i].out => session'[i].out
<1>1. UNCHANGED session => Rows
  OBVIOUS
<1>2. ASSUME NEW op, Begin(c, op)
      PROVE  UNCHANGED <<call, session, lost>>
  BY <1>2 DEF Begin, vars, sessionVars
<1>3. CASE \/ doWithRetry(c) \/ CheckVersion(c) \/ RefreshRefused(c) \/ Store(c)
           \/ Clear(c) \/ persistTokens(c)
  BY <1>1, <1>3 DEF doWithRetry, doRaw, Send, Answered, Refused, RequestLost, ReadRefresh,
     CheckVersion, RefreshRefused, Store, Clear, persistTokens, vars, sessionVars
<1>4. CASE AnswerLost(c)
  BY <1>1, <1>4 DEF AnswerLost, sessionVars
<1>5. ASSUME NEW w \in Worker, LoginServed(c, w)
      PROVE  Starts(c) /\ UNCHANGED <<session, lost>>
  <2>1. PICK u \in User : LoginStart(w, u, user[u].password, 0)
    BY <1>5 DEF LoginServed
  <2> DEFINE x == Asked(u, user[u].password, 0)
  <2>2. user[u].password \in 1 .. MaxPassword
    BY DEF TypeOK
  <2>3. x \in Call /\ x.at = "rate" /\ x.op = "login" /\ x.session = 0
    BY <2>2, AskedTyped, Bounds DEF Asked, Idle
  <2>4. call[w].at = "idle" /\ Turn(w, x) /\ UNCHANGED session
    BY <2>1 DEF LoginStart, Turn, sessionVars
  <2> HIDE DEF x
  <2>5. Starts(c)
    BY <2>3, <2>4 DEF Starts
  <2>6. QED
    BY <1>5, <2>4, <2>5 DEF LoginServed
<1>6. ASSUME NEW w \in Worker, RefreshServed(c, w)
      PROVE  Starts(c) /\ UNCHANGED <<session, lost>>
  <2> DEFINE i == req[c].refresh
  <2>1. i \in DOMAIN session /\ Asking(c)
    BY <1>6 DEF RefreshServed, ClientTypeOK, ClientCall, Pairs, TypeOK, Asking
  <2>2. RefreshFind(w, i) /\ UNCHANGED lost
    BY <1>6 DEF RefreshServed
  <2> HIDE DEF i
  <2> DEFINE row == session[i]
             x == [Idle EXCEPT !.at = "revokeOne", !.op = "refresh", !.user = row.user,
                               !.session = i, !.password = row.password,
                               !.crossed = row.crossed]
  <2>3. call[w].at = "idle" /\ Turn(w, x) /\ UNCHANGED session /\ row.live
    BY <2>2 DEF RefreshFind, Turn, sessionVars, IsActive
  <2>4. row \in Session /\ i \in Nat
    BY <2>1, RowTyped
  <2> HIDE DEF row
  <2>5. x \in Call /\ x.at = "revokeOne" /\ x.op = "refresh" /\ x.session = i
    BY <2>4, IdleTyped DEF Call, Stages, Session
  <2> HIDE DEF x
  <2>6. Starts(c)
    BY <2>1, <2>3, <2>5 DEF Starts, row
  <2>7. QED
    BY <2>2, <2>3, <2>6
<1>7. ASSUME NEW w \in Worker, LogoutServed(c, w)
      PROVE  Starts(c) /\ Rows /\ UNCHANGED lost
  <2> DEFINE i == req[c].pair
             x == LoggingOut(i)
  <2>1. i \in DOMAIN session
    BY <1>7 DEF LogoutServed, ClientTypeOK, ClientCall, Pairs, TypeOK
  <2>2. LogoutBlacklist(w, i) /\ UNCHANGED lost
    BY <1>7 DEF LogoutServed
  <2> HIDE DEF i
  <2>3. call[w].at = "idle" /\ Turn(w, x) /\ session' = Blacklisted(i)
    BY <2>2 DEF LogoutBlacklist, Turn
  <2>4. x \in Call /\ x.at = "revokeAll" /\ x.op = "logout" /\ x.session = 0
    BY <2>1, LoggingOutTyped DEF LoggingOut, Idle
  <2> HIDE DEF x
  <2>5. Rows /\ session'[i].out
    BY <2>1, <2>3, BlacklistedSequel
  <2>6. Starts(c)
    BY <2>1, <2>3, <2>4, <2>5 DEF Starts
  <2>7. QED
    BY <2>2, <2>5, <2>6
<1>8. QED
  BY <1>1, <1>2, <1>3, <1>4, <1>5, <1>6, <1>7
  DEF ClientStep, Me, LoginPassword, Logout, loginCmd, logoutCmd, payCmd, meCmd, NextCall,
      Method, Command, refreshLocked

\* A step of the server, for what it means to exchanges.
LEMMA ServerMakes ==
  ASSUME TypeOK, NEW w \in Worker, ServerStep(w)
  PROVE  /\ call[w].at # "idle"
         /\ \A v \in Worker : v # w => /\ call'[v].op = call[v].op /\ call'[v].at = call[v].at
                                       /\ call'[v].session = call[v].session
         /\ \/ call'[w] = Idle
            \/ /\ call'[w].op = call[w].op /\ call'[w].session = call[w].session
               /\ call'[w].at # "revokeOne"
               /\ call'[w].at = "revokeAll" => call[w].op = "change"
         /\ \/ Issue(w) /\ made' = Append(made, call[w].session)
            \/ ~Issue(w) /\ made' = made
         /\ call[w].op = "refresh" /\ call[w].at \in {"revokeOne", "issue"} =>
              \/ call'[w] = Idle /\ (Issue(w) \/ Fault(w))
              \/ call'[w].at = "issue" /\ RefreshRevoke(w)
<1>1. LoginStep(w) \/ SessionStep(w) \/ Fault(w)
  BY DEF ServerStep
<1>2. ServerMove
  BY <1>1 DEF ServerMove
<1>3. call[w].at # "idle"
  BY ServerTells
<1>4. \/ Issue(w) /\ made' = Append(made, call[w].session)
      \/ ~Issue(w) /\ made' = made
  <2>1. CASE Issue(w)
    BY <1>2, <2>1, IssueTyped, PairsStay DEF ServerStep
  <2>2. CASE ~Issue(w)
    <3>1. \A v \in Worker : Issue(v) => v = w
      <4>1. ASSUME NEW v \in Worker, Issue(v)
            PROVE  call[v].at = "issue" /\ call'[v].at # "issue"
        <5>1. Done(v) \/ Go(v, "reset")
          BY <4>1 DEF Issue
        <5>2. call[v].at = "issue"
          BY <4>1 DEF Issue
        <5>3. Done(v) => call'[v].at # "issue"
          BY DoneTurn, TurnTyped DEF Idle
        <5>4. Go(v, "reset") => call'[v].at # "issue"
          BY <5>2, CallTyped DEF Go, TypeOK, Call
        <5>5. QED
          BY <5>1, <5>2, <5>3, <5>4
      <4>2. \A v \in Worker : v # w => call'[v].at = call[v].at
        BY ServerTells
      <4>3. QED
        BY <4>1, <4>2
    <3>2. Len(session') = Len(session) /\ Len(session) \in Nat
      BY <1>2, <2>2, <3>1, TableStays, PairsStay
    <3>3. QED
      BY <2>2, <3>2 DEF ServerStep
  <2>3. QED
    BY <2>1, <2>2
<1>5. CASE RevokeAll(w)
  <2>1. /\ call'[w] = Idle
        /\ \A v \in Worker : v # w =>
             \/ call'[v] = call[v]
             \/ call[v] \in Call /\ call'[v] = [call[v] EXCEPT !.crossed = TRUE]
    BY <1>5, CrossingTyped
  <2>2. \A q \in Call : /\ [q EXCEPT !.crossed = TRUE].at = q.at
                        /\ [q EXCEPT !.crossed = TRUE].op = q.op
                        /\ [q EXCEPT !.crossed = TRUE].session = q.session
    BY DEF Call
  <2>3. call[w].at = "revokeAll"
    BY <1>5 DEF RevokeAll
  <2>4. QED
    BY <1>3, <1>4, <2>1, <2>2, <2>3
<1>6. CASE ~RevokeAll(w)
  <2>1. PICK x \in Call \cup {Idle} : Turn(w, x) /\ (x = Idle \/ GoesOnAs(w, x))
    BY <1>1, <1>6, GoesOnTurn
  <2>2. call'[w] = x /\ \A v \in Worker : v # w => call'[v] = call[v]
    BY <2>1, TurnTyped
  <2>3. \/ x = Idle
        \/ /\ x.op = call[w].op /\ x.session = call[w].session /\ x.at # "revokeOne"
           /\ x.at = "revokeAll" => call[w].op = "change"
    BY <2>1 DEF GoesOnAs, ChangeWrite
  <2>4. ASSUME call[w].op = "refresh", call[w].at \in {"revokeOne", "issue"}
        PROVE  \/ call'[w] = Idle /\ (Issue(w) \/ Fault(w))
               \/ call'[w].at = "issue" /\ RefreshRevoke(w)
    <3>1. RefreshRevoke(w) \/ Issue(w) \/ Fault(w)
      BY <1>1, <2>4 DEF LoginStep, SessionStep, LoginRate, LoginFind, LoginIncr, LoginExpire,
         LoginLock, LoginReset, RevokeAll, ChangeWrite, EnrollWrite, VerifyWrite, DisableWrite
    <3>2. Done(w) => call'[w] = Idle
      BY DoneTurn, TurnTyped
    <3>3. Issue(w) => Done(w)
      BY <2>4 DEF Issue
    <3>4. Fault(w) => Done(w)
      BY <2>4 DEF Fault, AfterError
    <3>5. Go(w, "issue") => call'[w].at = "issue"
      BY <1>3, CallTyped DEF Go, TypeOK, Call
    <3>6. QED
      BY <3>1, <3>2, <3>3, <3>4, <3>5 DEF RefreshRevoke
  <2>5. QED
    BY <1>3, <1>4, <2>2, <2>3, <2>4
<1>7. QED
  BY <1>5, <1>6

\* One set of at most so many elements: one more pair is made only when the
\* request that asked for it is over.
LEMMA CountsStay ==
  ASSUME NEW S, NEW S2, NEW T, NEW T2, IsFiniteSet(S), T \subseteq Worker, T2 \subseteq Worker,
         Cardinality(S) + Cardinality(T) <= Cardinality(Worker),
         \/ S2 = {}
         \/ S2 = S /\ T2 \subseteq T
         \/ \E k : \E w \in T : S2 = S \cup {k} /\ T2 \subseteq T \ {w}
  PROVE  Cardinality(S2) + Cardinality(T2) <= Cardinality(Worker)
<1>1. /\ IsFiniteSet(Worker) /\ IsFiniteSet(T) /\ IsFiniteSet(T2)
      /\ Cardinality(T2) <= Cardinality(Worker)
  BY SessionsAssumption, FS_Subset DEF SessionsAssumption
<1>2. /\ Cardinality(S) \in Nat /\ Cardinality(T) \in Nat /\ Cardinality(T2) \in Nat
      /\ Cardinality(Worker) \in Nat
  BY <1>1, FS_CardinalityType
<1>3. CASE S2 = {}
  <2>1. Cardinality(S2) = 0
    BY <1>3, FS_EmptySet
  <2>2. QED
    BY <1>1, <1>2, <2>1
<1>4. CASE S2 = S /\ T2 \subseteq T
  <2>1. Cardinality(T2) <= Cardinality(T)
    BY <1>1, <1>4, FS_Subset
  <2>2. QED
    BY <1>2, <1>4, <2>1
<1>5. ASSUME NEW k, NEW w \in T, S2 = S \cup {k}, T2 \subseteq T \ {w}
      PROVE  Cardinality(S2) + Cardinality(T2) <= Cardinality(Worker)
  <2>1. Cardinality(S2) \in Nat /\ Cardinality(S2) <= Cardinality(S) + 1
    <3>1. CASE k \in S
      <4>1. S2 = S
        BY <1>5, <3>1
      <4>2. QED
        BY <1>2, <4>1
    <3>2. CASE k \notin S
      <4>1. Cardinality(S \cup {k}) = Cardinality(S) + 1
        BY <3>2, FS_AddElement
      <4>2. QED
        BY <1>2, <1>5, <4>1
    <3>3. QED
      BY <3>1, <3>2
  <2>2. IsFiniteSet(T \ {w}) /\ Cardinality(T \ {w}) = Cardinality(T) - 1
    BY <1>1, <1>5, FS_RemoveElement
  <2>3. Cardinality(T2) <= Cardinality(T) - 1
    BY <1>5, <2>2, FS_Subset
  <2>4. QED
    BY <1>2, <2>1, <2>3
<1>6. QED
  BY <1>3, <1>4, <1>5

\* The sets that FewExchanges counts.
LEMMA FewStay ==
  ASSUME NEW i, FewExchanges, i \in DOMAIN session \/ Exchanged(i)' = {}, Len(made) \in Nat,
         DOMAIN made = 1 .. Len(made),
         \/ Exchanged(i)' = {}
         \/ Exchanged(i)' = Exchanged(i) /\ Exchanging(i)' \subseteq Exchanging(i)
         \/ \E k : \E w \in Exchanging(i) :
              /\ Exchanged(i)' = Exchanged(i) \cup {k}
              /\ Exchanging(i)' \subseteq Exchanging(i) \ {w}
  PROVE  Cardinality(Exchanged(i)') + Cardinality(Exchanging(i)') <= Cardinality(Worker)
<1> DEFINE S == Exchanged(i)
           T == Exchanging(i)
<1>1. T \subseteq Worker /\ T' \subseteq Worker
  BY DEF Exchanging
<1>2. IsFiniteSet(S)
  <2>1. S \subseteq 1 .. Len(made)
    BY DEF Exchanged
  <2>2. IsFiniteSet(1 .. Len(made))
    BY FS_Interval
  <2>3. QED
    BY <2>1, <2>2, FS_Subset
<1>3. CASE i \in DOMAIN session
  <2>1. Cardinality(S) + Cardinality(T) <= Cardinality(Worker)
    BY <1>3 DEF FewExchanges
  <2> HIDE DEF S, T
  <2>2. QED
    BY <1>1, <1>2, <2>1, CountsStay DEF S, T
<1>4. CASE Exchanged(i)' = {}
  <2>1. IsFiniteSet(Worker)
    BY SessionsAssumption DEF SessionsAssumption
  <2>2. Cardinality(T') \in Nat /\ Cardinality(T') <= Cardinality(Worker)
    BY <1>1, <2>1, FS_Subset, FS_CardinalityType
  <2>3. Cardinality(S') = 0
    BY <1>4, FS_EmptySet
  <2>4. QED
    BY <2>2, <2>3, <2>1, FS_CardinalityType
<1>5. QED
  BY <1>3, <1>4

\* A step of a goroutine makes no pair; a request for one it begins with a
\* token that works, for which there is none yet.
LEMMA StartKeeps ==
  ASSUME TypeOK, ClientTypeOK, Orderly, Unspent, NeverAsked, FewExchanges,
         NEW c \in Caller, ClientStep(c), code' = code
  PROVE  Orderly' /\ Unspent' /\ FewExchanges'
<1>1. /\ made' = made /\ Len(session') = Len(session) /\ DOMAIN session' = DOMAIN session
      /\ \A i \in DOMAIN session : session'[i].live = session[i].live
  BY OwnStepLeaves, OwnStepStarts
<1>2. /\ Len(session) \in Nat /\ DOMAIN session = 1 .. Len(session)
      /\ Len(made) \in Nat /\ DOMAIN made = 1 .. Len(made)
  BY DEF TypeOK, ClientTypeOK
<1>3. CASE UNCHANGED call
  <2>1. Orderly'
    BY <1>1, <1>3 DEF Orderly, InTable
  <2>2. Unspent'
    BY <1>1, <1>3 DEF Unspent
  <2>3. ASSUME NEW i \in DOMAIN session
        PROVE  Exchanged(i)' = Exchanged(i) /\ Exchanging(i)' = Exchanging(i)
    BY <1>1, <1>3 DEF Exchanged, Exchanging
  <2>4. FewExchanges'
    BY <1>1, <1>2, <2>3, FewStay DEF FewExchanges
  <2>5. QED
    BY <2>1, <2>2, <2>4
<1>4. CASE Starts(c)
  <2>1. PICK w \in Worker, x \in Call :
          /\ call[w].at = "idle" /\ Turn(w, x)
          /\ \/ x.op \in {"login", "logout"} /\ x.session = 0 /\ x.at \in {"rate", "revokeAll"}
             \/ /\ x.op = "refresh" /\ x.at = "revokeOne" /\ Asking(c)
                /\ x.session \in DOMAIN session /\ session[x.session].live
          /\ x.at = "revokeAll" => x.op = "logout"
    BY <1>4 DEF Starts
  <2>2. call'[w] = x /\ \A v \in Worker : v # w => call'[v] = call[v]
    BY <2>1, TurnTyped
  <2>3. x.op = "refresh" => code = ErrAccessTokenInvalid
    BY <2>1 DEF NeverAsked
  <2>4. Orderly'
    BY <1>1, <1>2, <2>1, <2>2, <2>3 DEF Orderly, InTable
  <2>5. Unspent'
    BY <1>1, <2>1, <2>2 DEF Unspent
  <2>6. ASSUME NEW i \in DOMAIN session
        PROVE  \/ Exchanged(i)' = {}
               \/ Exchanged(i)' = Exchanged(i) /\ Exchanging(i)' \subseteq Exchanging(i)
    <3>1. Exchanged(i)' = Exchanged(i)
      BY <1>1 DEF Exchanged
    <3>2. CASE session[i].live
      BY <3>1, <3>2 DEF Unspent, Exchanged
    <3>3. CASE ~session[i].live
      BY <2>1, <2>2, <3>1, <3>3 DEF Exchanging
    <3>4. QED
      BY <3>2, <3>3
  <2>7. FewExchanges'
    BY <1>1, <1>2, <2>6, FewStay DEF FewExchanges
  <2>8. QED
    BY <2>4, <2>5, <2>7
<1>5. QED
  BY <1>3, <1>4, OwnStepStarts

\* A pair is made by a request whose token is revoked already.
LEMMA ServerKeeps ==
  ASSUME TypeOK, ClientTypeOK, Orderly, Unspent, NeverAsked, FewExchanges,
         NEW w \in Worker, ServerStep(w), code' = code
  PROVE  /\ Orderly' /\ Unspent' /\ FewExchanges'
         /\ code # ErrAccessTokenInvalid => \A j \in DOMAIN made' : made'[j] = 0
<1>1. /\ Len(session) \in Nat /\ DOMAIN session = 1 .. Len(session)
      /\ Len(made) \in Nat /\ DOMAIN made = 1 .. Len(made) /\ made \in Seq(Nat)
      /\ Len(made) = Len(session)
  BY DEF TypeOK, ClientTypeOK, Orderly, InTable
<1>2. \A v \in Worker : call[v].session \in Nat /\ call[v].session <= Len(session)
  BY CallTyped, IdleTyped DEF Call, Orderly, InTable
<1>3. /\ call[w].at # "idle"
      /\ \A v \in Worker : v # w => /\ call'[v].op = call[v].op /\ call'[v].at = call[v].at
                                    /\ call'[v].session = call[v].session
      /\ \/ call'[w] = Idle
         \/ /\ call'[w].op = call[w].op /\ call'[w].session = call[w].session
            /\ call'[w].at # "revokeOne"
            /\ call'[w].at = "revokeAll" => call[w].op = "change"
      /\ call[w].op = "refresh" /\ call[w].at \in {"revokeOne", "issue"} =>
           \/ call'[w] = Idle /\ (Issue(w) \/ Fault(w))
           \/ call'[w].at = "issue" /\ RefreshRevoke(w)
  BY ServerMakes
<1>4. Idle.op = "none" /\ Idle.at = "idle" /\ Idle.session = 0
  BY DEF Idle
<1>5. /\ \A v \in Worker : /\ call'[v].op \in {"none", "login", "refresh", "logout"}
                           /\ call'[v].op = "refresh" => /\ call'[v].at \in {"revokeOne", "issue"}
                                                         /\ code = ErrAccessTokenInvalid
                           /\ call'[v].op # "refresh" => call'[v].session = 0
                           /\ call'[v].at = "revokeOne" => call'[v].op = "refresh"
                           /\ call'[v].at = "revokeAll" => call'[v].op = "logout"
      /\ \A v \in Worker : call'[v].session <= Len(session)
  <2>1. ASSUME NEW v \in Worker, v # w
        PROVE  /\ call'[v].op \in {"none", "login", "refresh", "logout"}
               /\ call'[v].op = "refresh" => /\ call'[v].at \in {"revokeOne", "issue"}
                                             /\ code = ErrAccessTokenInvalid
               /\ call'[v].op # "refresh" => call'[v].session = 0
               /\ call'[v].at = "revokeOne" => call'[v].op = "refresh"
               /\ call'[v].at = "revokeAll" => call'[v].op = "logout"
               /\ call'[v].session <= Len(session)
    BY <1>2, <1>3, <2>1 DEF Orderly
  <2>2. /\ call'[w].op \in {"none", "login", "refresh", "logout"}
        /\ call'[w].op = "refresh" => /\ call'[w].at \in {"revokeOne", "issue"}
                                      /\ code = ErrAccessTokenInvalid
        /\ call'[w].op # "refresh" => call'[w].session = 0
        /\ call'[w].at = "revokeOne" => call'[w].op = "refresh"
        /\ call'[w].at = "revokeAll" => call'[w].op = "logout"
        /\ call'[w].session <= Len(session)
    BY <1>1, <1>2, <1>3, <1>4 DEF Orderly
  <2>3. QED
    BY <2>1, <2>2
<1>6. \A i : Exchanging(i)' \subseteq Exchanging(i)
  BY <1>3, <1>4 DEF Exchanging
<1>7. CASE Issue(w)
  <2>1. /\ Len(session') = Len(session) + 1 /\ session' \in Seq(Session)
        /\ \A i \in DOMAIN session' : \/ i \in DOMAIN session /\ session'[i] = session[i]
                                      \/ i = Len(session) + 1
    BY <1>7, IssueTyped
  <2>2. made' = Append(made, call[w].session)
    BY <1>7, ServerMakes
  <2>3. /\ DOMAIN made' = DOMAIN made \cup {Len(made) + 1} /\ Len(made') = Len(made) + 1
        /\ \A j \in DOMAIN made : made'[j] = made[j]
        /\ made'[Len(made) + 1] = call[w].session
    BY <1>1, <1>2, <2>2
  <2>4. Orderly'
    <3>1. \A j \in DOMAIN made' : made'[j] \in Nat /\ made'[j] <= Len(session)
      BY <1>1, <1>2, <2>3 DEF InTable, Orderly
    <3>2. \A v \in Worker : call'[v].session \in Nat
      BY <1>2, <1>3, <1>4
    <3>3. InTable'
      BY <1>1, <1>5, <2>1, <2>3, <3>1, <3>2 DEF InTable
    <3>4. QED
      BY <1>5, <3>3 DEF Orderly
  <2>5. call[w].op # "refresh" => call[w].session = 0
    BY DEF Orderly
  <2>6. \/ call[w].at = "issue" /\ call'[w].op # "refresh"
        \/ call[w].op # "refresh"
    BY <1>3, <1>4, <1>7 DEF Issue, RefreshRevoke, Orderly
  <2>7. Unspent'
    <3>1. ASSUME NEW i \in DOMAIN session', session'[i].live
          PROVE  /\ \A j \in DOMAIN made' : made'[j] # i
                 /\ \A v \in Worker : call'[v].op = "refresh" /\ call'[v].session = i
                                      => call'[v].at = "revokeOne"
      <4>1. CASE i = Len(session) + 1
        <5>1. \A j \in DOMAIN made' : made'[j] <= Len(session) /\ made'[j] \in Nat
          BY <1>1, <1>2, <2>3 DEF Orderly, InTable
        <5>2. \A v \in Worker : call'[v].session # i
          <6>1. \A v \in Worker : call'[v].session \in {0, call[v].session}
            BY <1>3, <1>4
          <6>2. QED
            BY <1>1, <1>2, <4>1, <6>1
        <5>3. QED
          BY <1>1, <4>1, <5>1, <5>2
      <4>2. CASE i \in DOMAIN session /\ session'[i] = session[i]
        <5>1. \A j \in DOMAIN made : made[j] # i
          BY <3>1, <4>2 DEF Unspent
        <5>2. call[w].session # i
          <6>1. call[w].op = "refresh" /\ call[w].session = i => call[w].at = "revokeOne"
            BY <3>1, <4>2 DEF Unspent
          <6>2. call[w].at = "issue"
            BY <1>7 DEF Issue
          <6>3. i # 0
            BY <1>1, <4>2
          <6>4. QED
            BY <2>5, <6>1, <6>2, <6>3
        <5>3. \A v \in Worker : call[v].op = "refresh" /\ call[v].session = i
                                => call[v].at = "revokeOne"
          BY <3>1, <4>2 DEF Unspent
        <5>4. \A v \in Worker : call'[v].op = "refresh" /\ call'[v].session = i
                                => call'[v].at = "revokeOne"
          BY <1>3, <1>4, <5>2, <5>3
        <5>5. QED
          BY <2>3, <5>1, <5>2, <5>4
      <4>3. QED
        BY <2>1, <4>1, <4>2
    <3>2. QED
      BY <3>1 DEF Unspent
  <2>8. ASSUME NEW i \in DOMAIN session'
        PROVE  \/ Exchanged(i)' = {}
               \/ Exchanged(i)' = Exchanged(i) /\ Exchanging(i)' \subseteq Exchanging(i)
               \/ \E k : \E v \in Exchanging(i) :
                    /\ Exchanged(i)' = Exchanged(i) \cup {k}
                    /\ Exchanging(i)' \subseteq Exchanging(i) \ {v}
    <3>1. CASE call[w].session # i
      <4>1. Exchanged(i)' = Exchanged(i)
        BY <1>1, <2>3, <3>1 DEF Exchanged
      <4>2. QED
        BY <1>6, <4>1
    <3>2. CASE call[w].session = i
      <4>1. i # 0
        BY <2>1
      <4>2. call[w].op = "refresh" /\ w \in Exchanging(i)
        BY <2>5, <3>2, <4>1 DEF Exchanging
      <4>3. Exchanged(i)' = Exchanged(i) \cup {Len(made) + 1}
        BY <2>3, <3>2 DEF Exchanged
      <4>4. w \notin Exchanging(i)'
        BY <2>6, <4>2 DEF Exchanging
      <4>5. Exchanging(i)' \subseteq Exchanging(i) \ {w}
        BY <1>6, <4>4
      <4>6. QED
        BY <4>2, <4>3, <4>5
    <3>3. QED
      BY <3>1, <3>2
  <2>9. ASSUME NEW i \in DOMAIN session'
        PROVE  i \in DOMAIN session \/ Exchanged(i)' = {}
    <3>1. CASE i = Len(session) + 1
      <4>1. \A j \in DOMAIN made' : made'[j] <= Len(session) /\ made'[j] \in Nat
        BY <1>1, <1>2, <2>3 DEF Orderly, InTable
      <4>2. QED
        BY <1>1, <3>1, <4>1 DEF Exchanged
    <3>2. QED
      BY <2>1, <3>1
  <2>10. FewExchanges'
    BY <1>1, <2>8, <2>9, FewStay DEF FewExchanges
  <2>11. code # ErrAccessTokenInvalid => \A j \in DOMAIN made' : made'[j] = 0
    BY <2>3, <2>5 DEF NeverAsked, Orderly
  <2>12. QED
    BY <2>4, <2>7, <2>10, <2>11
<1>8. CASE ~Issue(w)
  <2>1. made' = made
    BY <1>8, ServerMakes
  <2>2. Len(session') = Len(session) /\ DOMAIN session' = DOMAIN session
    <3>1. Len(session') = Len(session)
      <4>1. Len(Append(made, call[w].session)) = Len(made) + 1
        BY <1>1, <1>2
      <4>2. QED
        BY <1>1, <2>1, <4>1, ServerTells
    <3>2. session' \in Seq(Session)
      <4>1. ServerMove
        BY DEF ServerStep, ServerMove
      <4>2. QED
        BY <4>1, SessionTypeStep
    <3>3. QED
      BY <1>1, <3>1, <3>2
  <2>3. \A i \in DOMAIN session : session'[i].live => session[i].live
    <3>1. CASE RefreshRevoke(w)
      BY <3>1, RevokedSequel DEF RefreshRevoke, Sequel
    <3>2. CASE RevokeAll(w)
      BY <3>2, RevokedAllSequel DEF RevokeAll, Sequel
    <3>3. UNCHANGED session \/ RefreshRevoke(w) \/ RevokeAll(w)
      BY <1>8 DEF ServerStep, LoginStep, SessionStep, LoginRate, LoginFind, LoginIncr, LoginExpire,
         LoginLock, LoginReset, ChangeWrite, EnrollWrite, VerifyWrite, DisableWrite, Fault,
         sessionVars
    <3>4. QED
      BY <3>1, <3>2, <3>3
  <2>4. Orderly'
    <3>1. InTable'
      BY <1>5, <2>1, <2>2 DEF InTable, Orderly
    <3>2. QED
      BY <1>5, <3>1 DEF Orderly
  <2>5. Unspent'
    <3>1. ASSUME NEW i \in DOMAIN session, session'[i].live
          PROVE  /\ \A j \in DOMAIN made : made[j] # i
                 /\ \A v \in Worker : call'[v].op = "refresh" /\ call'[v].session = i
                                      => call'[v].at = "revokeOne"
      <4>1. session[i].live
        BY <2>3, <3>1
      <4>2. \A v \in Worker : call[v].op = "refresh" /\ call[v].session = i
                                => call[v].at = "revokeOne"
        BY <4>1 DEF Unspent
      <4>3. ~(call'[w].op = "refresh" /\ call'[w].session = i)
        <5>1. ASSUME call'[w].op = "refresh", call'[w].session = i
              PROVE  FALSE
          <6>1. call[w].op = "refresh" /\ call[w].session = i /\ call'[w] # Idle
            BY <1>3, <1>4, <5>1
          <6>2. RefreshRevoke(w)
            BY <1>3, <6>1 DEF Orderly
          <6>3. ~session'[i].live
            BY <6>1, <6>2, RevokedSequel DEF RefreshRevoke
          <6>4. QED
            BY <3>1, <6>3
        <5>2. QED
          BY <5>1
      <4>4. \A j \in DOMAIN made : made[j] # i
        BY <4>1 DEF Unspent
      <4>5. QED
        BY <1>3, <4>2, <4>3, <4>4
    <3>2. QED
      BY <2>1, <2>2, <3>1 DEF Unspent
  <2>6. ASSUME NEW i \in DOMAIN session
        PROVE  Exchanged(i)' = Exchanged(i) /\ Exchanging(i)' \subseteq Exchanging(i)
    BY <1>6, <2>1 DEF Exchanged
  <2>7. FewExchanges'
    BY <1>1, <2>2, <2>6, FewStay DEF FewExchanges
  <2>8. QED
    BY <2>1, <2>4, <2>5, <2>7 DEF NeverAsked
<1>9. QED
  BY <1>7, <1>8

LEMMA ExchangesBegin == ClientInit => ExchangesHeld
<1> SUFFICES ASSUME ClientInit
             PROVE  Orderly /\ Unspent /\ NeverAsked /\ FewExchanges
  BY DEF ExchangesHeld
<1>1. /\ \A c \in Caller : req[c].at = "idle"
      /\ \A w \in Worker : call[w].at = "idle" /\ call[w].session = 0 /\ call[w].op = "none"
      /\ made = <<>> /\ session = <<>>
  BY DEF ClientInit, Init, Ready, Idle
<1>2. Len(made) = 0 /\ Len(session) = 0 /\ DOMAIN made = {} /\ DOMAIN session = {}
  BY <1>1
<1>3. QED
  BY <1>1, <1>2 DEF Orderly, InTable, Unspent, NeverAsked, FewExchanges, Asking

LEMMA ExchangesHeldStep ==
  TypeOK /\ ClientTypeOK /\ ExchangesHeld /\ [ClientNext]_allVars => ExchangesHeld'
<1> SUFFICES ASSUME TypeOK, ClientTypeOK, ExchangesHeld, [ClientNext]_allVars, Clients' # {}
             PROVE  Orderly' /\ Unspent' /\ NeverAsked' /\ FewExchanges'
  BY DEF ExchangesHeld
<1>1. Clients # {} /\ Orderly /\ Unspent /\ NeverAsked /\ FewExchanges
  BY SharedStays DEF Clients, ExchangesHeld
<1>2. /\ code' = code
      /\ code # ErrAccessTokenInvalid => \A c \in Caller : ~Asking(c)'
  BY <1>1, CodeTells DEF NeverAsked
<1>3. ASSUME \A j \in DOMAIN made' : code # ErrAccessTokenInvalid => made'[j] = 0
      PROVE  NeverAsked'
  BY <1>2, <1>3 DEF NeverAsked
<1>4. ASSUME NEW c \in Caller, ClientStep(c)
      PROVE  Orderly' /\ Unspent' /\ NeverAsked' /\ FewExchanges'
  <2>1. NeverAsked'
    BY <1>1, <1>3, <1>4, OwnStepLeaves DEF NeverAsked
  <2>2. QED
    BY <1>1, <1>2, <1>4, <2>1, StartKeeps
<1>5. ASSUME NEW w \in Worker, ServerStep(w)
      PROVE  Orderly' /\ Unspent' /\ NeverAsked' /\ FewExchanges'
  BY <1>1, <1>2, <1>3, <1>5, ServerKeeps
<1>6. ASSUME UNCHANGED <<call, made>>, Len(session') = Len(session),
             DOMAIN session' = DOMAIN session,
             \A i \in DOMAIN session : session'[i].live => session[i].live
      PROVE  Orderly' /\ Unspent' /\ NeverAsked' /\ FewExchanges'
  <2>1. Orderly'
    BY <1>1, <1>2, <1>6 DEF Orderly, InTable
  <2>2. Unspent'
    BY <1>1, <1>6 DEF Unspent
  <2>3. NeverAsked'
    BY <1>1, <1>3, <1>6 DEF NeverAsked
  <2>4. FewExchanges'
    BY <1>1, <1>6 DEF FewExchanges, Exchanged, Exchanging
  <2>5. QED
    BY <2>1, <2>2, <2>3, <2>4
<1>7. ASSUME session' = [i \in DOMAIN session |-> session'[i]],
             \A i \in DOMAIN session : Sequel(session', i)
      PROVE  /\ Len(session') = Len(session) /\ DOMAIN session' = DOMAIN session
             /\ \A i \in DOMAIN session : session'[i].live => session[i].live
  BY <1>7, TableTyped DEF Sequel
<1>8. CASE RefreshExpires /\ UNCHANGED clientVars
  <2>1. UNCHANGED <<call, made>>
    BY <1>8 DEF RefreshExpires, clientVars
  <2>2. QED
    BY <1>6, <1>7, <1>8, <2>1, RevokedSequel DEF RefreshExpires
<1>9. CASE Tick /\ UNCHANGED clientVars
  <2>1. UNCHANGED <<call, made>>
    BY <1>9 DEF Tick, clientVars
  <2>2. QED
    BY <1>6, <1>7, <1>9, <2>1, TickSequel
<1>10. CASE Exit
  BY <1>6, <1>10 DEF Exit, vars, sessionVars
<1>11. CASE UNCHANGED allVars
  BY <1>6, <1>11 DEF allVars, vars, sessionVars, clientVars
<1>12. QED
  BY <1>1, <1>4, <1>5, <1>8, <1>9, <1>10, <1>11 DEF ClientNext

\* However many goroutines of a client are refused at one time, the server makes
\* no more pairs from one refresh token than requests run at one time; and to a
\* client that is answered with another code than the SDK's, it makes none.
THEOREM ExchangesAreBounded == ClientSpec => []ExchangesBounded
<1>1. TypeOK /\ ClientTypeOK /\ ExchangesHeld => ExchangesBounded
  <2> SUFFICES ASSUME TypeOK, ClientTypeOK, ExchangesHeld, Clients # {}, NEW i \in DOMAIN session
               PROVE  Cardinality(Exchanged(i)) + Cardinality(Exchanging(i))
                        <= IF code = ErrAccessTokenInvalid THEN Cardinality(Worker) ELSE 0
    BY DEF ExchangesBounded
  <2>1. CASE code = ErrAccessTokenInvalid
    BY <2>1 DEF ExchangesHeld, FewExchanges
  <2>2. CASE code # ErrAccessTokenInvalid
    <3>1. i # 0
      BY DEF TypeOK
    <3>2. Exchanged(i) = {} /\ Exchanging(i) = {}
      BY <2>2, <3>1 DEF ExchangesHeld, NeverAsked, Orderly, Exchanged, Exchanging
    <3>3. QED
      BY <2>2, <3>2, FS_EmptySet
  <2>3. QED
    BY <2>1, <2>2
<1>2. QED
  BY <1>1, ExchangesBegin, ExchangesHeldStep, TypeCorrect, PTL DEF ClientSpec

-----------------------------------------------------------------------------
(* The refresh token that a client holds.                                  *)

LoggedOut == \E i \in DOMAIN session : session[i].out

\* While nothing failed and nobody logged out, a token works unless a pair was
\* made from it or is about to be.
Unhurt ==
    /\ faults = 0 => lost = {}
    /\ \A w \in Worker : call[w].op = "logout" => LoggedOut
    /\ faults = 0 /\ ~LoggedOut
       => \A i \in DOMAIN session :
            \/ session[i].live
            \/ \E w \in Worker : /\ call[w].op = "refresh" /\ call[w].at = "issue"
                                 /\ call[w].session = i
            \/ \E j \in DOMAIN made : made[j] = i

UnhurtHolds == Clients = {"client"} => Unhurt

LEMMA UnhurtStep ==
  TypeOK /\ ClientTypeOK /\ ExchangesHeld /\ UnhurtHolds /\ [ClientNext]_allVars => UnhurtHolds'
<1> SUFFICES ASSUME TypeOK, ClientTypeOK, ExchangesHeld, UnhurtHolds, [ClientNext]_allVars,
                    Clients' = {"client"}
             PROVE  Unhurt'
  BY DEF UnhurtHolds
<1>1. Clients = {"client"} /\ Unhurt /\ Orderly /\ "cli" \notin mix
  BY SharedStays DEF Clients, UnhurtHolds, ExchangesHeld
<1>2. faults \in Nat /\ (faults' = faults \/ faults' = faults + 1 \/ faults' = faults + 2)
  BY ClientIsServer, FaultsMove DEF TypeOK, vars
<1>3. Idle.op = "none"
  BY DEF Idle
<1>4. ASSUME UNCHANGED call, made' = made, lost' = lost \/ faults' = faults + 1,
             DOMAIN session' = DOMAIN session,
             \A i \in DOMAIN session : /\ session'[i].live = session[i].live
                                       /\ session[i].out => session'[i].out
      PROVE  Unhurt'
  BY <1>1, <1>2, <1>4 DEF Unhurt, LoggedOut
<1>5. ASSUME NEW c \in Caller, ClientStep(c)
      PROVE  Unhurt'
  <2>1. /\ made' = made /\ DOMAIN session' = DOMAIN session
        /\ lost' = lost \/ faults' = faults + 1
        /\ \A i \in DOMAIN session : /\ session'[i].live = session[i].live
                                     /\ session[i].out => session'[i].out
    BY <1>5, OwnStepLeaves, OwnStepStarts
  <2>2. CASE UNCHANGED call
    BY <1>4, <2>1, <2>2
  <2>3. CASE Starts(c)
    <3>1. PICK w \in Worker, x \in Call :
            /\ call[w].at = "idle" /\ Turn(w, x)
            /\ x.op = "logout" => \E i \in DOMAIN session' : session'[i].out
      BY <2>3 DEF Starts
    <3>2. call'[w] = x /\ \A v \in Worker : v # w => call'[v] = call[v]
      BY <3>1, TurnTyped
    <3>3. LoggedOut => LoggedOut'
      BY <2>1 DEF LoggedOut
    <3>4. \A v \in Worker : call'[v].op = "logout" => LoggedOut'
      BY <1>1, <3>1, <3>2, <3>3 DEF Unhurt, LoggedOut
    <3>5. faults' = 0 => lost' = {}
      BY <1>1, <1>2, <2>1 DEF Unhurt
    <3>6. ASSUME faults' = 0, ~LoggedOut', NEW i \in DOMAIN session'
          PROVE  \/ session'[i].live
                 \/ \E v \in Worker : /\ call'[v].op = "refresh" /\ call'[v].at = "issue"
                                      /\ call'[v].session = i
                 \/ \E j \in DOMAIN made' : made'[j] = i
      <4>1. \/ session[i].live
            \/ \E v \in Worker : /\ call[v].op = "refresh" /\ call[v].at = "issue"
                                 /\ call[v].session = i
            \/ \E j \in DOMAIN made : made[j] = i
        BY <1>1, <1>2, <2>1, <3>3, <3>6 DEF Unhurt
      <4>2. QED
        BY <2>1, <3>1, <3>2, <4>1
    <3>7. QED
      BY <3>4, <3>5, <3>6 DEF Unhurt
  <2>4. QED
    BY <1>5, <2>2, <2>3, OwnStepStarts
<1>6. ASSUME NEW w \in Worker, ServerStep(w)
      PROVE  Unhurt'
  <2>1. lost' = lost
    BY <1>6 DEF ServerStep
  <2>2. /\ \A v \in Worker : v # w => /\ call'[v].op = call[v].op /\ call'[v].at = call[v].at
                                      /\ call'[v].session = call[v].session
        /\ \/ call'[w] = Idle
           \/ call'[w].op = call[w].op /\ call'[w].session = call[w].session
        /\ \/ Issue(w) /\ made' = Append(made, call[w].session)
           \/ ~Issue(w) /\ made' = made
        /\ call[w].op = "refresh" /\ call[w].at \in {"revokeOne", "issue"} =>
             \/ call'[w] = Idle /\ (Issue(w) \/ Fault(w))
             \/ call'[w].at = "issue" /\ RefreshRevoke(w)
    BY <1>6, ServerMakes
  <2>3. /\ \A j \in DOMAIN made : j \in DOMAIN made' /\ made'[j] = made[j]
        /\ Issue(w) => \E j \in DOMAIN made' : made'[j] = call[w].session
    <3>1. /\ Len(made) \in Nat /\ DOMAIN made = 1 .. Len(made) /\ made \in Seq(Nat)
          /\ call[w].session \in Nat
      BY CallTyped, IdleTyped DEF ClientTypeOK, Call
    <3>2. CASE Issue(w)
      <4>1. made' = Append(made, call[w].session)
        BY <2>2, <3>2
      <4>2. /\ DOMAIN made' = 1 .. Len(made) + 1
            /\ \A j \in 1 .. Len(made) : made'[j] = made[j]
            /\ made'[Len(made) + 1] = call[w].session
        BY <3>1, <4>1
      <4>3. QED
        BY <3>1, <4>2
    <3>3. CASE ~Issue(w)
      BY <2>2, <3>3
    <3>4. QED
      BY <3>2, <3>3
  <2>4. \/ Issue(w) \/ RefreshRevoke(w) \/ RevokeAll(w)
        \/ UNCHANGED session
    BY <1>6 DEF ServerStep, LoginStep, SessionStep, LoginRate, LoginFind, LoginIncr, LoginExpire,
       LoginLock, LoginReset, ChangeWrite, EnrollWrite, VerifyWrite, DisableWrite, Fault,
       sessionVars
  <2>5. /\ \A i \in DOMAIN session : i \in DOMAIN session' /\ session'[i].out = session[i].out
        /\ \A i \in DOMAIN session' : i \notin DOMAIN session => session'[i].live
    <3>1. CASE Issue(w)
      <4>1. /\ session' = Append(session, Issued(call[w])) /\ Issued(call[w]) \in Session
            /\ session \in Seq(Session)
        BY <3>1, IssueTyped DEF TypeOK
      <4>2. Issued(call[w]).live
        BY DEF Issued
      <4> DEFINE row == Issued(call[w])
      <4> HIDE DEF row
      <4>3. QED
        BY <4>1, <4>2 DEF row
    <3>2. CASE RefreshRevoke(w)
      BY <3>2, RevokedSequel DEF RefreshRevoke
    <3>3. CASE RevokeAll(w)
      BY <3>3, RevokedAllSequel DEF RevokeAll
    <3>4. QED
      BY <2>4, <3>1, <3>2, <3>3
  <2>6. LoggedOut => LoggedOut'
    BY <2>5 DEF LoggedOut
  <2>7. \A v \in Worker : call'[v].op = "logout" => LoggedOut'
    BY <1>1, <1>3, <2>2, <2>6 DEF Unhurt
  <2>8. faults' = 0 => lost' = {}
    BY <1>1, <1>2, <2>1 DEF Unhurt
  <2>9. ASSUME faults' = 0, ~LoggedOut', NEW i \in DOMAIN session'
        PROVE  \/ session'[i].live
               \/ \E v \in Worker : /\ call'[v].op = "refresh" /\ call'[v].at = "issue"
                                    /\ call'[v].session = i
               \/ \E j \in DOMAIN made' : made'[j] = i
    <3>1. CASE i \notin DOMAIN session
      BY <2>5, <3>1
    <3>2. CASE i \in DOMAIN session
      <4>1. faults = 0 /\ ~LoggedOut
        BY <1>2, <2>6, <2>9
      <4>2. ~Fault(w) /\ ~RevokeAll(w)
        BY <1>1, <1>2, <2>9, <4>1 DEF Fault, RevokeAll, Orderly, Unhurt
      <4>3. CASE session[i].live
        <5>1. CASE RefreshRevoke(w) /\ call[w].session = i
          <6>1. call[w].op = "refresh" /\ call[w].at = "revokeOne"
            BY <1>1, <5>1 DEF RefreshRevoke, Orderly
          <6>2. ~Issue(w)
            BY <6>1 DEF Issue
          <6>3. call'[w].at = "issue"
            BY <2>2, <4>2, <6>1, <6>2
          <6>4. call'[w].op = "refresh" /\ call'[w].session = i
            BY <2>2, <5>1, <6>1, <6>3 DEF Idle
          <6>5. QED
            BY <6>3, <6>4
        <5>2. CASE ~(RefreshRevoke(w) /\ call[w].session = i)
          <6>1. session'[i] = session[i]
            <7>1. CASE Issue(w)
              BY <3>2, <7>1, IssueTyped DEF TypeOK
            <7>2. CASE RefreshRevoke(w)
              BY <3>2, <5>2, <7>2, RevokedSequel DEF RefreshRevoke
            <7>3. QED
              BY <2>4, <4>2, <7>1, <7>2
          <6>2. QED
            BY <4>3, <6>1
        <5>3. QED
          BY <5>1, <5>2
      <4>4. ASSUME NEW v \in Worker, call[v].op = "refresh", call[v].at = "issue",
                   call[v].session = i
            PROVE  \/ call'[v].op = "refresh" /\ call'[v].at = "issue" /\ call'[v].session = i
                   \/ \E j \in DOMAIN made' : made'[j] = i
        <5>1. CASE v # w
          BY <2>2, <4>4, <5>1
        <5>2. CASE v = w
          BY <2>2, <2>3, <4>2, <4>4, <5>2 DEF RefreshRevoke
        <5>3. QED
          BY <5>1, <5>2
      <4>5. ASSUME NEW j \in DOMAIN made, made[j] = i
            PROVE  \E k \in DOMAIN made' : made'[k] = i
        BY <2>3, <4>5
      <4>6. QED
        BY <1>1, <3>2, <4>1, <4>3, <4>4, <4>5 DEF Unhurt
    <3>3. QED
      BY <3>1, <3>2
  <2>10. QED
    BY <2>7, <2>8, <2>9 DEF Unhurt
<1>7. CASE Tick /\ UNCHANGED clientVars
  <2>1. UNCHANGED <<call, made, lost>>
    BY <1>7 DEF Tick, clientVars
  <2>2. /\ session' = [i \in DOMAIN session |-> session'[i]]
        /\ \A i \in DOMAIN session : /\ session'[i].live = session[i].live
                                     /\ session'[i].out = session[i].out
    BY <1>7, TickSequel
  <2>3. DOMAIN session' = DOMAIN session
    BY <2>2
  <2>4. QED
    BY <1>4, <2>1, <2>2, <2>3
<1>8. CASE UNCHANGED allVars
  BY <1>4, <1>8 DEF allVars, vars, sessionVars, clientVars
<1>9. ~Exit
  BY <1>1 DEF Exit
<1>10. QED
  BY <1>1, <1>5, <1>6, <1>7, <1>8, <1>9 DEF ClientNext

\* While no call of a program runs, its client never holds a refresh token that
\* was exchanged already, but for an exchange whose answer was lost; and the
\* token works, unless something failed or somebody logged out.  A pair is known
\* only to the call that is to store it until it does, so that none that
\* is exchanged is stored later; and a token is revoked only by a request that
\* is about to make a pair from it.
THEOREM HeldIsGood == ClientSpec => []HeldIsUsable
<1>1. ClientInit => NewestHolds /\ UnhurtHolds
  <2> SUFFICES ASSUME ClientInit
               PROVE  Awaited /\ UnknownYet /\ InTable /\ NewestComes /\ Unhurt
    BY DEF NewestHolds, UnhurtHolds
  <2>1. /\ \A c \in Caller : req[c].at = "idle" /\ req[c].got = 0
        /\ \A w \in Worker : call[w].at = "idle" /\ call[w].session = 0 /\ call[w].op = "none"
        /\ made = <<>> /\ session = <<>> /\ lost = {}
    BY DEF ClientInit, Init, Ready, Idle
  <2>2. Len(made) = 0 /\ Len(session) = 0 /\ DOMAIN made = {} /\ DOMAIN session = {}
    BY <2>1
  <2>3. Awaited /\ UnknownYet
    BY <2>1 DEF Awaited, UnknownYet, Waits
  <2>4. InTable
    BY <2>1, <2>2 DEF InTable
  <2>5. NewestComes
    BY <2>2 DEF NewestComes
  <2>6. Unhurt
    BY <2>1, <2>2 DEF Unhurt
  <2>7. QED
    BY <2>3, <2>4, <2>5, <2>6
<1>2. TypeOK /\ ClientTypeOK /\ NewestHolds /\ UnhurtHolds => HeldIsUsable
  <2> SUFFICES ASSUME TypeOK, ClientTypeOK, NewestHolds, UnhurtHolds, Clients = {"client"}, Quiet
               PROVE  /\ \A i \in DOMAIN made : made[i] # 0 /\ made[i] = client.refresh
                                                => i \in lost
                      /\ /\ client.refresh # 0 /\ faults = 0
                         /\ \A i \in DOMAIN session : ~session[i].out
                         => IsActive(client.refresh)
    BY DEF HeldIsUsable
  <2>1. \A c \in Caller : req[c].got = 0 /\ req[c].at = "idle"
    BY DEF NewestHolds, Awaited, Quiet
  <2>2. ASSUME NEW i \in DOMAIN made, made[i] # 0, made[i] = client.refresh
        PROVE  i \in lost
    <3>1. i # 0
      BY DEF ClientTypeOK
    <3>2. QED
      BY <2>1, <2>2, <3>1 DEF NewestHolds, NewestComes
  <2>3. ASSUME client.refresh # 0, faults = 0, \A i \in DOMAIN session : ~session[i].out
        PROVE  IsActive(client.refresh)
    <3>1. client.refresh \in DOMAIN session
      BY <2>3 DEF ClientTypeOK, Pairs, TypeOK
    <3>2. \A w \in Worker : call[w].at = "idle"
      BY <2>1 DEF NewestHolds, Awaited, Waits
    <3>3. \A i \in DOMAIN made : made[i] # client.refresh
      BY <2>2, <2>3 DEF UnhurtHolds, Unhurt
    <3>4. QED
      BY <2>3, <3>1, <3>2, <3>3 DEF UnhurtHolds, Unhurt, LoggedOut, IsActive
  <2>4. QED
    BY <2>2, <2>3
<1>3. QED
  BY <1>1, <1>2, ExchangesBegin, NewestHoldsStep, ExchangesHeldStep, UnhurtStep, TypeCorrect, PTL
  DEF ClientSpec

=============================================================================
