----------------------------- MODULE SignUpProofs -----------------------------
(***************************************************************************)
(* Proofs about SignUp for every set of addresses, subjects and requests,  *)
(* every allow-list, limit and bound.                                      *)
(***************************************************************************)
EXTENDS SignUp, FiniteSetTheorems, WellFoundedInduction, TLAPS

-----------------------------------------------------------------------------
(* Tables.                                                                 *)

LEMMA RowReplaced ==
  ASSUME NEW T, NEW s \in Seq(T), NEW i \in DOMAIN s, NEW r \in T
  PROVE  /\ [s EXCEPT ![i] = r] \in Seq(T)
         /\ Len([s EXCEPT ![i] = r]) = Len(s)
         /\ DOMAIN [s EXCEPT ![i] = r] = DOMAIN s
         /\ \A j \in DOMAIN s : [s EXCEPT ![i] = r][j] = IF j = i THEN r ELSE s[j]
<1>1. s \in [1 .. Len(s) -> T] /\ DOMAIN s = 1 .. Len(s) /\ Len(s) \in Nat
  OBVIOUS
<1>2. [s EXCEPT ![i] = r] \in [1 .. Len(s) -> T]
  BY <1>1
<1>3. QED
  BY <1>1, <1>2

LEMMA RowAppended ==
  ASSUME NEW T, NEW s \in Seq(T), NEW r \in T
  PROVE  /\ Append(s, r) \in Seq(T)
         /\ Len(Append(s, r)) = Len(s) + 1 /\ Len(s) \in Nat
         /\ DOMAIN s = 1 .. Len(s) /\ DOMAIN Append(s, r) = 1 .. Len(s) + 1
         /\ \A j \in DOMAIN s : Append(s, r)[j] = s[j]
         /\ Append(s, r)[Len(s) + 1] = r
OBVIOUS

Below == {mn \in Nat \X Nat : mn[1] < mn[2]}

\* A set of rows has a latest one.
LEMMA LatestThere ==
  ASSUME NEW n \in Nat, NEW S, S \subseteq 1 .. n, S # {}
  PROVE  \E i \in S : \A j \in S : j <= i
<1> DEFINE D == {n - i : i \in S}
<1>1. D \subseteq Nat /\ D # {}
  <2>1. \A i \in S : n - i \in Nat
    OBVIOUS
  <2>2. D \subseteq Nat
    BY <2>1
  <2>3. PICK i \in S : n - i \in D
    OBVIOUS
  <2>4. QED
    BY <2>2, <2>3
<1>2. IsWellFoundedOn(Below, Nat)
  BY NatLessThanWellFounded DEF OpToRel, Below
<1> HIDE DEF D
<1>3. PICK d \in D : \A y \in D : <<y, d>> \notin Below
  BY <1>1, <1>2, WFMin
<1>4. ASSUME NEW y \in D PROVE d <= y
  <2>1. y \in Nat /\ d \in Nat
    BY <1>1
  <2>2. ~(y < d)
    BY <1>3, <2>1 DEF Below
  <2>3. QED
    BY <2>1, <2>2
<1>5. PICK i \in S : d = n - i
  BY DEF D
<1>6. ASSUME NEW j \in S PROVE j <= i
  <2>1. n - j \in D /\ i \in Nat /\ j \in Nat
    BY DEF D
  <2>2. QED
    BY <1>4, <1>5, <2>1
<1>7. QED
  BY <1>6

LEMMA LatestFound ==
  ASSUME TypeOK, NEW e, NEW sc, FindLatestUnused(e, sc) # 0
  PROVE  FindLatestUnused(e, sc) \in Unused(e, sc)
<1>1. Unused(e, sc) # {} /\ Unused(e, sc) \subseteq 1 .. Len(code) /\ Len(code) \in Nat
  BY DEF FindLatestUnused, Unused, TypeOK
<1>2. \E i \in Unused(e, sc) : \A j \in Unused(e, sc) : j <= i
  BY <1>1, LatestThere
<1>3. QED
  BY <1>1, <1>2 DEF FindLatestUnused

-----------------------------------------------------------------------------
(* Requests.                                                               *)

Turn(w, x) == call' = [call EXCEPT ![w] = x]

\* The address had a registration code, and it is spent.
Proven(e) ==
    \E c \in DOMAIN code : code[c].email = e /\ code[c].scene = "register" /\ code[c].used

\* What a request knows at its stage.
Fits(c) ==
    /\ c.at \in {"sendExpire", "sendCreate", "regInc", "regMark", "regFind", "regCreate"}
         => c.email \in Email
    /\ c.at \in {"regInc", "regMark"}
         => /\ c.row \in DOMAIN code
            /\ code[c.row].email = c.email
            /\ code[c.row].scene = "register"
    /\ c.at \in {"regFind", "regCreate"} => Proven(c.email)
    /\ c.at \in {"cbSubject", "cbEmail", "cbLink", "cbCreate"} => Acceptable(c.id)
    /\ c.at = "cbLink" => c.row \in DOMAIN account

CallsFit == \A w \in Worker : Fits(call[w])

\* The requests that are about to write a code.
SendingCode == {w \in Worker : call[w].at \in {"sendExpire", "sendCreate"}}

RoomKept == Len(code) + Cardinality(SendingCode) <= MaxCodes

WorkerStep(w) ==
    \/ sendCode(w) \/ register(w) \/ oidcCallback(w)
    \/ SendCode(w) \/ Register(w) \/ CompleteAuth(w)
    \/ Fault(w)

LEMMA IdleTyped == Idle \in Call /\ Idle.at = "idle" /\ Fits(Idle)
<1>1. NoIdentity \in Identity
  BY DEF NoIdentity, Identity
<1>2. Idle \in Call /\ Idle.at = "idle"
  BY <1>1, SignUpAssumption DEF SignUpAssumption, Idle, Call, Stages
<1>3. QED
  BY <1>2 DEF Fits

LEMMA CallTyped ==
  ASSUME TypeOK, NEW w \in Worker
  PROVE  call[w] \in Call
BY DEF TypeOK

LEMMA TurnTyped ==
  ASSUME TypeOK, NEW w \in Worker, NEW x \in Call, Turn(w, x)
  PROVE  /\ call' \in [Worker -> Call]
         /\ call'[w] = x
         /\ \A v \in Worker : v # w => call'[v] = call[v]
BY DEF TypeOK, Turn

LEMMA GoTurn ==
  ASSUME TypeOK, NEW w \in Worker, NEW s \in Stages, Go(w, s)
  PROVE  \E x \in Call : /\ Turn(w, x) /\ x.at = s
                         /\ x.email = call[w].email /\ x.scene = call[w].scene
                         /\ x.row = call[w].row /\ x.id = call[w].id
<1> DEFINE x == [call[w] EXCEPT !.at = s]
<1>1. Turn(w, x)
  BY DEF Go, Turn, TypeOK
<1>2. /\ x \in Call /\ x.at = s
      /\ x.email = call[w].email /\ x.scene = call[w].scene
      /\ x.row = call[w].row /\ x.id = call[w].id
  BY CallTyped DEF Call
<1> HIDE DEF x
<1>3. QED
  BY <1>1, <1>2

LEMMA DoneTurn ==
  ASSUME NEW w \in Worker, Done(w)
  PROVE  Turn(w, Idle)
BY DEF Done, Turn

\* What a turn makes of a request: it is over, it begins, or it goes on.
Kept(w, x) ==
    x.email = call[w].email /\ x.scene = call[w].scene /\ x.row = call[w].row
    /\ x.id = call[w].id

BecomesAs(w, x) ==
    \/ x = Idle
    \/ /\ call[w].at = "idle" /\ x.at \in {"sendExpire", "sendCreate"} /\ x.email \in Email
       /\ CodeRoom /\ UNCHANGED code
    \/ /\ call[w].at = "idle" /\ x.at \in {"regInc", "regMark"} /\ x.email \in Email
       /\ x.row \in Unused(x.email, "register") /\ ~Exhausted(x.row) /\ UNCHANGED code
    \/ call[w].at = "idle" /\ x.at = "cbExchange"
    \/ call[w].at = "sendExpire" /\ x.at = "sendCreate" /\ Kept(w, x)
    \/ RegMark(w) /\ x.at = "regFind" /\ Kept(w, x)
    \/ call[w].at = "regFind" /\ x.at = "regCreate" /\ Kept(w, x)
    \/ call[w].at = "cbExchange" /\ x.at = "cbSubject" /\ Acceptable(x.id)
    \/ call[w].at = "cbSubject" /\ x.at = "cbEmail" /\ Kept(w, x)
    \/ call[w].at = "cbEmail" /\ x.at = "cbCreate" /\ x.id = call[w].id
    \/ call[w].at = "cbEmail" /\ x.at = "cbLink" /\ x.id = call[w].id /\ x.row \in DOMAIN account

LEMMA WorkerTurn ==
  ASSUME TypeOK, NEW w \in Worker, WorkerStep(w)
  PROVE  \E x \in Call : Turn(w, x) /\ BecomesAs(w, x)
<1> DEFINE Goal == \E x \in Call : Turn(w, x) /\ BecomesAs(w, x)
<1>1. ASSUME Done(w) PROVE Goal
  BY <1>1, DoneTurn, IdleTyped DEF BecomesAs
<1>2. ASSUME NEW e \in Email, NEW sc \in Scene, SendAllow(w, e, sc)
      PROVE  Goal
  <2>1. ASSUME NEW s \in {"sendExpire", "sendCreate"}, CodeRoom, Turn(w, Sending(s, e, sc))
        PROVE  Goal
    <3> DEFINE x == Sending(s, e, sc)
    <3>1. x \in Call /\ x.at = s /\ x.email = e
      BY IdleTyped DEF Sending, Call, Stages
    <3>2. call[w].at = "idle" /\ UNCHANGED code
      BY <1>2 DEF SendAllow
    <3> HIDE DEF x
    <3>3. BecomesAs(w, x)
      BY <2>1, <3>1, <3>2 DEF BecomesAs
    <3>4. QED
      BY <2>1, <3>1, <3>3 DEF x
  <2>2. QED
    BY <1>1, <1>2, <2>1 DEF SendAllow, Turn
<1>3. ASSUME NEW e \in Email, NEW v \in CodeValue, RegVerify(w, e, v)
      PROVE  Goal
  <2> DEFINE i == FindLatestUnused(e, "register")
             x(s) == [Idle EXCEPT !.at = s, !.email = e, !.row = i]
  <2>1. CASE Done(w)
    BY <1>1, <2>1
  <2>2. CASE ~Done(w)
    <3>1. PICK s \in {"regMark", "regInc"} : Turn(w, x(s))
      BY <1>3, <2>2 DEF RegVerify, Turn
    <3>2. i # 0 /\ ~Exhausted(i) /\ call[w].at = "idle" /\ UNCHANGED code
      BY <1>3, <2>2 DEF RegVerify
    <3>3. i \in Unused(e, "register") /\ i \in Nat
      BY <3>2, LatestFound DEF Unused, TypeOK
    <3> HIDE DEF i
    <3>4. x(s) \in Call /\ x(s).at = s /\ x(s).email = e /\ x(s).row = i
      BY <3>3, IdleTyped DEF Call, Stages
    <3> HIDE DEF x
    <3>5. BecomesAs(w, x(s))
      BY <3>2, <3>3, <3>4 DEF BecomesAs
    <3>6. QED
      BY <3>1, <3>4, <3>5
  <2>3. QED
    BY <2>1, <2>2
<1>4. ASSUME NEW s \in Stages, Go(w, s),
             \/ call[w].at = "idle" /\ s = "cbExchange"
             \/ call[w].at = "sendExpire" /\ s = "sendCreate"
             \/ RegMark(w) /\ s = "regFind"
             \/ call[w].at = "regFind" /\ s = "regCreate"
             \/ call[w].at = "cbSubject" /\ s = "cbEmail"
             \/ call[w].at = "cbEmail" /\ s = "cbCreate"
      PROVE  Goal
  <2>1. PICK x \in Call : Turn(w, x) /\ x.at = s /\ Kept(w, x)
    BY <1>4, GoTurn DEF Kept
  <2>2. BecomesAs(w, x)
    BY <1>4, <2>1 DEF BecomesAs, Kept
  <2>3. QED
    BY <2>1, <2>2
<1>5. ASSUME CbExchange(w) PROVE Goal
  <2>1. CASE Done(w)
    BY <1>1, <2>1
  <2>2. CASE ~Done(w)
    <3>1. PICK id \in Identity : /\ Acceptable(id)
                                 /\ Turn(w, [Idle EXCEPT !.at = "cbSubject", !.id = id])
      BY <1>5, <2>2 DEF CbExchange, Done, Turn
    <3> DEFINE x == [Idle EXCEPT !.at = "cbSubject", !.id = id]
    <3>2. x \in Call /\ x.at = "cbSubject" /\ x.id = id
      BY IdleTyped DEF Call, Stages
    <3> HIDE DEF x
    <3>3. BecomesAs(w, x)
      BY <1>5, <3>1, <3>2 DEF BecomesAs, CbExchange
    <3>4. QED
      BY <3>1, <3>2, <3>3 DEF x
  <2>3. QED
    BY <2>1, <2>2
<1>6. ASSUME CbEmail(w) PROVE Goal
  <2> DEFINE found == WithEmail(call[w].id.email)
             i == IF found = {} THEN 0 ELSE CHOOSE i \in found : TRUE
             s == IF found = {} THEN "cbCreate" ELSE "cbLink"
             x == [call[w] EXCEPT !.at = s, !.row = i]
  <2>1. Turn(w, x)
    BY <1>6 DEF CbEmail, Turn, TypeOK
  <2>2. i \in Nat /\ (s = "cbLink" => i \in DOMAIN account) /\ s \in {"cbCreate", "cbLink"}
    BY DEF WithEmail, TypeOK
  <2> HIDE DEF i, s
  <2>3. x \in Call /\ x.at = s /\ x.row = i /\ x.id = call[w].id
    BY <2>2, CallTyped DEF Call, Stages
  <2> HIDE DEF x
  <2>4. BecomesAs(w, x)
    BY <1>6, <2>2, <2>3 DEF BecomesAs, CbEmail
  <2>5. QED
    BY <2>1, <2>3, <2>4
<1>7. ASSUME Fault(w) PROVE Goal
  <2>1. CASE Done(w)
    BY <1>1, <2>1
  <2>2. CASE ~Done(w)
    <3>1. call[w].at \in DOMAIN AfterError /\ Go(w, AfterError[call[w].at])
      BY <1>7, <2>2 DEF Fault
    <3>2. \/ call[w].at = "sendExpire" /\ Go(w, "sendCreate")
          \/ call[w].at = "regFind" /\ Go(w, "regCreate")
          \/ call[w].at = "cbSubject" /\ Go(w, "cbEmail")
          \/ call[w].at = "cbEmail" /\ Go(w, "cbCreate")
      BY <3>1 DEF AfterError
    <3>3. QED
      BY <1>4, <3>2 DEF Stages
  <2>3. QED
    BY <2>1, <2>2
<1>8. ASSUME \/ SendExpire(w) \/ RegMark(w) \/ RegFind(w) \/ CbSubject(w)
             \/ \E s \in state : CbConsume(w, s)
      PROVE  Goal
  BY <1>1, <1>4, <1>8
  DEF SendExpire, RegMark, RegFind, CbSubject, CbConsume, Stages
<1>9. ASSUME SendCreate(w) \/ RegInc(w) \/ RegCreate(w) \/ CbLink(w) \/ CbCreate(w)
      PROVE  Goal
  BY <1>1, <1>9 DEF SendCreate, RegInc, RegCreate, CbLink, CbCreate
<1>10. QED
  BY <1>2, <1>3, <1>5, <1>6, <1>7, <1>8, <1>9
  DEF WorkerStep, sendCode, register, oidcCallback, SendCode, Register, CompleteAuth

-----------------------------------------------------------------------------
(* Tables, step by step.                                                   *)

\* A code keeps its address and its scene, and stays spent.
CodeGrows ==
    /\ DOMAIN code \subseteq DOMAIN code'
    /\ \A c \in DOMAIN code : /\ code'[c].email = code[c].email
                              /\ code'[c].scene = code[c].scene
                              /\ code[c].used => code'[c].used

LEMMA CodeSteps ==
  ASSUME [Next]_vars
  PROVE  \/ UNCHANGED code
         \/ \E w \in Worker : SendCreate(w) \/ RegInc(w) \/ RegMark(w)
         \/ CodeExpires
BY DEF Next, vars, sendCode, register, oidcCallback, SendCode, Register, CompleteAuth, Fault,
   SendAllow, RegVerify, CbConsume, SendExpire, RegFind, RegCreate, CbExchange, CbSubject,
   CbEmail, CbLink, CbCreate, WindowEnds, BeginAuth, StateExpires, SeedAdmin

LEMMA CodeRowStep ==
  ASSUME TypeOK, NEW i \in DOMAIN code, NEW r \in Code, code' = [code EXCEPT ![i] = r],
         r.email = code[i].email, r.scene = code[i].scene, code[i].used => r.used
  PROVE  code' \in Seq(Code) /\ Len(code') = Len(code) /\ CodeGrows
<1>1. code \in Seq(Code)
  BY DEF TypeOK
<1>2. QED
  BY <1>1, RowReplaced DEF CodeGrows

LEMMA SendCreateRow ==
  ASSUME TypeOK, CallsFit, NEW w \in Worker, SendCreate(w)
  PROVE  \E r \in Code : code' = Append(code, r) /\ r.attempts = 0
<1> DEFINE r(v) == [email |-> call[w].email, scene |-> call[w].scene, value |-> v,
                    attempts |-> 0, expired |-> FALSE, used |-> FALSE]
<1>1. call[w].email \in Email /\ call[w].scene \in Scene
  BY CallTyped DEF SendCreate, CallsFit, Fits, Call
<1>2. PICK v \in CodeValue : code' = Append(code, r(v))
  BY DEF SendCreate
<1>3. r(v) \in Code /\ r(v).attempts = 0
  BY <1>1 DEF Code
<1> HIDE DEF r
<1>4. QED
  BY <1>2, <1>3

LEMMA RegIncRow ==
  ASSUME TypeOK, CallsFit, NEW w \in Worker, RegInc(w)
  PROVE  /\ call[w].row \in DOMAIN code
         /\ \E r \in Code : /\ code' = [code EXCEPT ![call[w].row] = r]
                            /\ r.attempts = code[call[w].row].attempts + 1
                            /\ r.email = code[call[w].row].email
                            /\ r.scene = code[call[w].row].scene
                            /\ r.used = code[call[w].row].used
<1> DEFINE i == call[w].row
           r == [code[i] EXCEPT !.attempts = code[i].attempts + 1]
<1>1. i \in DOMAIN code
  BY DEF RegInc, CallsFit, Fits
<1>2. code' = [code EXCEPT ![i] = r]
  BY DEF RegInc
<1>3. code[i] \in Code
  BY <1>1 DEF TypeOK
<1>4. /\ r \in Code /\ r.attempts = code[i].attempts + 1 /\ r.email = code[i].email
      /\ r.scene = code[i].scene /\ r.used = code[i].used
  BY <1>3 DEF Code
<1> HIDE DEF r
<1>5. QED
  BY <1>1, <1>2, <1>4

LEMMA RegMarkRow ==
  ASSUME TypeOK, CallsFit, NEW w \in Worker, RegMark(w)
  PROVE  /\ call[w].row \in DOMAIN code
         /\ \E r \in Code : /\ code' = [code EXCEPT ![call[w].row] = r]
                            /\ r.attempts = code[call[w].row].attempts
                            /\ r.email = code[call[w].row].email
                            /\ r.scene = code[call[w].row].scene
                            /\ r.used
<1> DEFINE i == call[w].row
           r == [code[i] EXCEPT !.used = TRUE]
<1>1. i \in DOMAIN code
  BY DEF RegMark, CallsFit, Fits
<1>2. code' = [code EXCEPT ![i] = r]
  BY DEF RegMark
<1>3. code[i] \in Code
  BY <1>1 DEF TypeOK
<1>4. /\ r \in Code /\ r.attempts = code[i].attempts /\ r.email = code[i].email
      /\ r.scene = code[i].scene /\ r.used
  BY <1>3 DEF Code
<1> HIDE DEF r
<1>5. QED
  BY <1>1, <1>2, <1>4

LEMMA CodeExpiresRow ==
  ASSUME TypeOK, CodeExpires
  PROVE  \E i \in DOMAIN code, r \in Code :
           /\ code' = [code EXCEPT ![i] = r]
           /\ r.attempts = code[i].attempts
           /\ r.email = code[i].email /\ r.scene = code[i].scene /\ r.used = code[i].used
<1>1. PICK i \in DOMAIN code : code' = [code EXCEPT ![i].expired = TRUE]
  BY DEF CodeExpires
<1> DEFINE r == [code[i] EXCEPT !.expired = TRUE]
<1>2. code' = [code EXCEPT ![i] = r]
  BY <1>1
<1>3. code[i] \in Code
  BY <1>1 DEF TypeOK
<1>4. /\ r \in Code /\ r.attempts = code[i].attempts /\ r.email = code[i].email
      /\ r.scene = code[i].scene /\ r.used = code[i].used
  BY <1>3 DEF Code
<1> HIDE DEF r
<1>5. QED
  BY <1>1, <1>2, <1>4

LEMMA CodeStep ==
  ASSUME TypeOK, CallsFit, [Next]_vars
  PROVE  /\ code' \in Seq(Code) /\ CodeGrows
         /\ Len(code') = Len(code) \/ \E w \in Worker : SendCreate(w)
<1>1. code \in Seq(Code)
  BY DEF TypeOK
<1>2. CASE UNCHANGED code
  BY <1>1, <1>2 DEF CodeGrows
<1>3. ASSUME NEW w \in Worker, SendCreate(w)
      PROVE  code' \in Seq(Code) /\ CodeGrows
  <2>1. PICK r \in Code : code' = Append(code, r)
    BY <1>3, SendCreateRow
  <2>2. QED
    BY <1>1, <2>1, RowAppended DEF CodeGrows
<1>4. ASSUME NEW w \in Worker, RegInc(w) \/ RegMark(w)
      PROVE  code' \in Seq(Code) /\ CodeGrows /\ Len(code') = Len(code)
  BY <1>4, RegIncRow, RegMarkRow, CodeRowStep
<1>5. CASE CodeExpires
  BY <1>5, CodeExpiresRow, CodeRowStep
<1>6. QED
  BY <1>2, <1>3, <1>4, <1>5, CodeSteps

\* An account keeps its address and how it came to be.
AccountGrows ==
    /\ DOMAIN account \subseteq DOMAIN account'
    /\ \A i \in DOMAIN account : /\ account'[i].email = account[i].email
                                 /\ account'[i].by = account[i].by

\* A new account is a registration's, a sign-on's or the command's.
NewAccount(row) ==
    /\ row \in Account
    /\ \/ row.by = "seed"
       \/ row.by = "code" /\ Proven(row.email)
       \/ row.by = "oidc" /\ Allowed(row.email)

LEMMA AccountSteps ==
  ASSUME [Next]_vars
  PROVE  \/ UNCHANGED account
         \/ \E w \in Worker : RegCreate(w) \/ CbLink(w) \/ CbCreate(w)
         \/ \E e \in Email, role \in SeedRoles : SeedAdmin(e, role)
BY DEF Next, vars, sendCode, register, oidcCallback, SendCode, Register, CompleteAuth, Fault,
   SendAllow, RegVerify, CbConsume, SendExpire, SendCreate, RegInc, RegMark, RegFind,
   CbExchange, CbSubject, CbEmail, WindowEnds, CodeExpires, BeginAuth, StateExpires

\* What the table of accounts becomes.
AccountsBecome ==
    /\ account' \in Seq(Account) /\ AccountGrows
    /\ Len(account') <= MaxAccounts
    /\ \/ DOMAIN account' = DOMAIN account
       \/ \E row : NewAccount(row) /\ account' = Append(account, row)

LEMMA InsertStep ==
  ASSUME TypeOK, NEW row, NewAccount(row), Room, Insert(row)
  PROVE  AccountsBecome
<1>1. account \in Seq(Account) /\ row \in Account /\ Len(account) \in Nat
      /\ Len(account) <= MaxAccounts /\ MaxAccounts \in Nat
  BY SignUpAssumption DEF TypeOK, NewAccount, SignUpAssumption
<1>2. CASE UNCHANGED account
  BY <1>1, <1>2 DEF AccountsBecome, AccountGrows
<1>3. CASE account' = Append(account, row)
  BY <1>1, <1>3, RowAppended DEF AccountsBecome, AccountGrows, Room
<1>4. QED
  BY <1>2, <1>3 DEF Insert

LEMMA AccountStep ==
  ASSUME TypeOK, CallsFit, [Next]_vars
  PROVE  AccountsBecome
<1>1. /\ account \in Seq(Account) /\ Len(account) <= MaxAccounts
      /\ DOMAIN account = 1 .. Len(account) /\ Len(account) \in Nat
  BY DEF TypeOK
<1>2. CASE UNCHANGED account
  BY <1>1, <1>2 DEF AccountsBecome, AccountGrows
<1>3. ASSUME NEW w \in Worker, RegCreate(w)
      PROVE  AccountsBecome
  <2> DEFINE row == [email |-> call[w].email, subject |-> Nothing, role |-> "user",
                     by |-> "code"]
  <2>1. call[w].email \in Email /\ Proven(call[w].email)
    BY <1>3 DEF RegCreate, CallsFit, Fits
  <2>2. NewAccount(row)
    BY <2>1 DEF NewAccount, Account
  <2>3. QED
    BY <1>3, <2>2, InsertStep DEF RegCreate
<1>4. ASSUME NEW w \in Worker, CbCreate(w)
      PROVE  AccountsBecome
  <2> DEFINE row == [email |-> call[w].id.email, subject |-> call[w].id.subject,
                     role |-> RoleOf(call[w].id.email), by |-> "oidc"]
  <2>1. call[w].id \in Identity /\ Acceptable(call[w].id)
    BY <1>4, CallTyped DEF CbCreate, CallsFit, Fits, Call
  <2>2. NewAccount(row)
    BY <2>1 DEF NewAccount, Account, Acceptable, Identity, RoleOf
  <2>3. QED
    BY <1>4, <2>2, InsertStep DEF CbCreate
<1>5. ASSUME NEW w \in Worker, CbLink(w)
      PROVE  AccountsBecome
  <2> DEFINE i == call[w].row
             r == [account[i] EXCEPT !.subject = call[w].id.subject]
  <2>1. i \in DOMAIN account /\ account[i] \in Account
    BY <1>1, <1>5 DEF CbLink, CallsFit, Fits
  <2>2. UNCHANGED account \/ account' = [account EXCEPT ![i] = r]
    BY <1>5 DEF CbLink, LinkOIDCSubject
  <2>3. call[w].id.subject \in Subject \cup {Nothing}
    BY CallTyped DEF Call, Identity
  <2>4. r \in Account /\ r.email = account[i].email /\ r.by = account[i].by
    BY <2>1, <2>3 DEF Account
  <2> HIDE DEF r
  <2>5. CASE account' = [account EXCEPT ![i] = r]
    BY <1>1, <2>1, <2>4, <2>5, RowReplaced DEF AccountsBecome, AccountGrows
  <2>6. QED
    BY <1>2, <2>2, <2>5
<1>6. ASSUME NEW e \in Email, NEW role \in SeedRoles, SeedAdmin(e, role)
      PROVE  AccountsBecome
  <2>1. role \in {"user", "admin", "ops", "finance"}
    BY SignUpAssumption DEF SignUpAssumption
  <2>2. CASE WithEmail(e) = {}
    <3> DEFINE row == [email |-> e, subject |-> Nothing, role |-> role, by |-> "seed"]
    <3>1. NewAccount(row)
      BY <2>1 DEF NewAccount, Account
    <3>2. QED
      BY <1>6, <2>2, <3>1, InsertStep DEF SeedAdmin
  <2>3. CASE WithEmail(e) # {}
    <3> DEFINE seeded(i) == IF i \in WithEmail(e) THEN [account[i] EXCEPT !.role = role]
                            ELSE account[i]
    <3>1. account' = [i \in DOMAIN account |-> seeded(i)]
      BY <1>6, <2>3 DEF SeedAdmin
    <3>2. ASSUME NEW i \in DOMAIN account
          PROVE  /\ seeded(i) \in Account /\ seeded(i).email = account[i].email
                 /\ seeded(i).by = account[i].by
      <4>1. account[i] \in Account
        BY <1>1
      <4>2. QED
        BY <2>1, <4>1 DEF Account
    <3> HIDE DEF seeded
    <3>3. account' \in [1 .. Len(account) -> Account]
      BY <1>1, <3>1, <3>2
    <3>4. account' \in Seq(Account) /\ Len(account') = Len(account)
          /\ DOMAIN account' = DOMAIN account
      BY <1>1, <3>3
    <3>5. QED
      BY <1>1, <3>1, <3>2, <3>4 DEF AccountsBecome, AccountGrows
  <2>4. QED
    BY <2>2, <2>3
<1>7. QED
  BY <1>2, <1>3, <1>4, <1>5, <1>6, AccountSteps

-----------------------------------------------------------------------------
(* Requests, step by step.                                                 *)

LEMMA CallSteps ==
  ASSUME [Next]_vars
  PROVE  (\E w \in Worker : WorkerStep(w)) \/ UNCHANGED call
BY DEF Next, WorkerStep, vars, WindowEnds, CodeExpires, BeginAuth, StateExpires, SeedAdmin

LEMMA FitsOn ==
  ASSUME CodeGrows, AccountGrows, NEW c, Fits(c)
  PROVE  Fits(c)'
<1>1. \A e : Proven(e) => Proven(e)'
  BY DEF Proven, CodeGrows
<1>2. ASSUME c.at \in {"regInc", "regMark"}
      PROVE  /\ c.row \in DOMAIN code'
             /\ code'[c.row].email = c.email /\ code'[c.row].scene = "register"
  BY <1>2 DEF Fits, CodeGrows
<1>3. c.at = "cbLink" => c.row \in DOMAIN account'
  BY DEF Fits, AccountGrows
<1>4. Acceptable(c.id) => Acceptable(c.id)'
  BY DEF Acceptable, Allowed
<1>5. QED
  BY <1>1, <1>2, <1>3, <1>4 DEF Fits

LEMMA CallsFitStep ==
  ASSUME TypeOK, CallsFit, [Next]_vars
  PROVE  call' \in [Worker -> Call] /\ CallsFit'
<1>1. CodeGrows /\ AccountGrows
  BY CodeStep, AccountStep DEF AccountsBecome
<1>2. CASE UNCHANGED call
  BY <1>1, <1>2, FitsOn DEF CallsFit, TypeOK
<1>3. ASSUME NEW w \in Worker, WorkerStep(w)
      PROVE  call' \in [Worker -> Call] /\ CallsFit'
  <2>1. PICK x \in Call : Turn(w, x) /\ BecomesAs(w, x)
    BY <1>3, WorkerTurn
  <2>2. /\ call' \in [Worker -> Call] /\ call'[w] = x
        /\ \A v \in Worker : v # w => call'[v] = call[v]
    BY <2>1, TurnTyped
  <2>3. Fits(call[w])
    BY DEF CallsFit
  <2>4. CASE RegMark(w) /\ x.at = "regFind" /\ Kept(w, x)
    <3>1. call[w].at = "regMark" /\ x.email = call[w].email /\ x.email \in Email
      BY <2>3, <2>4 DEF RegMark, Kept, Fits
    <3>2. PICK i \in DOMAIN code : /\ i = call[w].row
                                   /\ code[i].email = x.email /\ code[i].scene = "register"
      BY <2>3, <3>1 DEF Fits
    <3>3. PICK r \in Code : /\ code' = [code EXCEPT ![i] = r]
                            /\ r.email = x.email /\ r.scene = "register" /\ r.used
      BY <2>4, <3>2, RegMarkRow
    <3>4. i \in DOMAIN code' /\ code'[i] = r
      BY <3>3
    <3>5. Proven(x.email)'
      BY <3>3, <3>4 DEF Proven
    <3>6. Fits(x)'
      BY <2>4, <3>1, <3>5 DEF Fits
    <3>7. QED
      BY <1>1, <2>2, <3>6, FitsOn DEF CallsFit
  <2>5. CASE ~(RegMark(w) /\ x.at = "regFind" /\ Kept(w, x))
    <3>1. CASE x = Idle
      BY <1>1, <2>2, <3>1, IdleTyped, FitsOn DEF CallsFit
    <3>2. CASE /\ x.at \in {"regInc", "regMark"} /\ x.email \in Email
               /\ x.row \in Unused(x.email, "register")
      <4>1. Fits(x)
        BY <3>2 DEF Fits, Unused
      <4>2. QED
        BY <1>1, <2>2, <4>1, FitsOn DEF CallsFit
    <3>3. CASE x # Idle /\ x.at \notin {"regInc", "regMark"}
      <4>1. Fits(x)
        <5>1. CASE x.at \in {"sendExpire", "sendCreate"}
          BY <2>1, <2>3, <2>5, <3>3, <5>1 DEF BecomesAs, Fits, Kept
        <5>2. CASE x.at \in {"cbSubject", "cbEmail", "cbLink", "cbCreate"}
          BY <2>1, <2>3, <2>5, <3>3, <5>2 DEF BecomesAs, Fits, Kept
        <5>3. CASE x.at \in {"cbExchange", "regFind", "regCreate"}
          BY <2>1, <2>3, <2>5, <3>3, <5>3 DEF BecomesAs, Fits, Kept
        <5>4. QED
          BY <2>1, <2>5, <3>3, <5>1, <5>2, <5>3 DEF BecomesAs
      <4>2. QED
        BY <1>1, <2>2, <4>1, FitsOn DEF CallsFit
    <3>4. QED
      BY <2>1, <2>5, <3>1, <3>2, <3>3 DEF BecomesAs
  <2>6. QED
    BY <2>4, <2>5
<1>4. QED
  BY <1>2, <1>3, CallSteps

-----------------------------------------------------------------------------
(* Counting requests.                                                      *)

One(b) == IF b THEN 1 ELSE 0

\* Two sets that differ by one element at most.
LEMMA OneMoves ==
  ASSUME NEW S, NEW T, NEW w, IsFiniteSet(S), S \ {w} = T \ {w}
  PROVE  /\ IsFiniteSet(T)
         /\ Cardinality(S) \in Nat /\ Cardinality(T) \in Nat
         /\ Cardinality(T) = Cardinality(S) - One(w \in S) + One(w \in T)
<1> DEFINE B == S \ {w}
<1>1. IsFiniteSet(B) /\ Cardinality(B) \in Nat
  BY FS_Subset, FS_CardinalityType
<1>2. w \notin B
  OBVIOUS
<1>3. IsFiniteSet(B \cup {w}) /\ Cardinality(B \cup {w}) = Cardinality(B) + 1
  BY <1>1, <1>2, FS_AddElement
<1>4. /\ w \in S => S = B \cup {w}
      /\ w \notin S => S = B
      /\ w \in T => T = B \cup {w}
      /\ w \notin T => T = B
  OBVIOUS
<1> HIDE DEF B
<1>5. /\ Cardinality(S) = Cardinality(B) + One(w \in S)
      /\ Cardinality(T) = Cardinality(B) + One(w \in T)
      /\ IsFiniteSet(T)
  BY <1>1, <1>3, <1>4 DEF One
<1>6. QED
  BY <1>1, <1>5 DEF One

LEMMA SomeRequests ==
  ASSUME NEW S, S \subseteq Worker
  PROVE  /\ IsFiniteSet(S) /\ Cardinality(S) \in Nat
         /\ Cardinality(Worker) \in Nat /\ Cardinality(S) <= Cardinality(Worker)
         /\ S # {} => Cardinality(Worker) >= 1
<1>1. IsFiniteSet(Worker)
  BY SignUpAssumption DEF SignUpAssumption
<1>2. IsFiniteSet(S) /\ Cardinality(S) <= Cardinality(Worker)
  BY <1>1, FS_Subset
<1>3. Cardinality(S) \in Nat /\ Cardinality(Worker) \in Nat
  BY <1>1, <1>2, FS_CardinalityType
<1>4. S # {} => Cardinality(S) # 0
  BY <1>2, FS_EmptySet
<1>5. QED
  BY <1>2, <1>3, <1>4

LEMMA RoomKeptStep ==
  ASSUME TypeOK, CallsFit, RoomKept, [Next]_vars
  PROVE  RoomKept' /\ Len(code') <= MaxCodes
<1>1. /\ Cardinality(SendingCode) \in Nat /\ IsFiniteSet(SendingCode)
      /\ Cardinality(SendingCode') \in Nat
      /\ Len(code) \in Nat /\ MaxCodes \in Nat
  <2>1. SendingCode \subseteq Worker /\ SendingCode' \subseteq Worker
    BY DEF SendingCode
  <2>2. QED
    BY <2>1, SomeRequests, SignUpAssumption DEF SignUpAssumption, TypeOK
<1>2. SUFFICES RoomKept'
  <2>1. code' \in Seq(Code)
    BY CodeStep
  <2>2. QED
    BY <1>1, <2>1 DEF RoomKept
<1>3. CASE UNCHANGED call
  <2>1. SendingCode' = SendingCode
    BY <1>3 DEF SendingCode
  <2>2. \A w \in Worker : ~SendCreate(w)
    BY <1>3, CallTyped DEF SendCreate, Done, TypeOK, Idle, Call, Stages
  <2>3. QED
    BY <2>1, <2>2, CodeStep DEF RoomKept
<1>4. ASSUME NEW w \in Worker, WorkerStep(w)
      PROVE  RoomKept'
  <2>1. PICK x \in Call : Turn(w, x) /\ BecomesAs(w, x)
    BY <1>4, WorkerTurn
  <2>2. call'[w] = x /\ \A v \in Worker : v # w => call'[v] = call[v]
    BY <2>1, TurnTyped
  <2> DEFINE near(c) == c.at \in {"sendExpire", "sendCreate"}
  <2>3. SendingCode' \ {w} = SendingCode \ {w}
    BY <2>2 DEF SendingCode
  <2>4. (w \in SendingCode <=> near(call[w])) /\ (w \in SendingCode' <=> near(x))
    BY <2>2 DEF SendingCode
  <2>5. Cardinality(SendingCode')
        = Cardinality(SendingCode) - One(w \in SendingCode) + One(w \in SendingCode')
    BY <1>1, <2>3, OneMoves
  <2>6. CASE near(x) /\ ~near(call[w])
    <3>1. CodeRoom /\ UNCHANGED code
      BY <2>1, <2>6, IdleTyped DEF BecomesAs, RegMark
    <3>2. Len(code) + Cardinality(SendingCode) < MaxCodes
      BY <3>1 DEF CodeRoom, SendingCode
    <3>3. Cardinality(SendingCode') = Cardinality(SendingCode) + 1
      BY <1>1, <2>4, <2>5, <2>6 DEF One
    <3>4. QED
      BY <1>1, <3>1, <3>2, <3>3 DEF RoomKept
  <2>7. CASE SendCreate(w)
    <3>1. near(call[w]) /\ ~near(x)
      <4>1. Turn(w, Idle)
        BY <2>7, DoneTurn DEF SendCreate
      <4>2. x = Idle
        BY <2>2, <4>1, IdleTyped, TurnTyped
      <4>3. QED
        BY <2>7, <4>2, IdleTyped DEF SendCreate
    <3>2. Cardinality(SendingCode') = Cardinality(SendingCode) - 1
      BY <1>1, <2>4, <2>5, <3>1 DEF One
    <3>3. Len(code') = Len(code) + 1
      BY <2>7, SendCreateRow, RowAppended DEF TypeOK
    <3>4. QED
      BY <1>1, <3>2, <3>3 DEF RoomKept
  <2>8. CASE ~(near(x) /\ ~near(call[w])) /\ ~SendCreate(w)
    <3>1. Cardinality(SendingCode') <= Cardinality(SendingCode)
      BY <1>1, <2>4, <2>5, <2>8 DEF One
    <3>2. \A v \in Worker : ~SendCreate(v)
      <4>1. ASSUME NEW v \in Worker, SendCreate(v), v # w
            PROVE  FALSE
        <5>1. call[v].at = "sendCreate" /\ call'[v] = Idle
          BY <4>1, DoneTurn, IdleTyped, TurnTyped DEF SendCreate
        <5>2. QED
          BY <2>2, <4>1, <5>1, IdleTyped
      <4>2. QED
        BY <2>8, <4>1
    <3>3. QED
      BY <1>1, <3>1, <3>2, CodeStep DEF RoomKept
  <2>9. QED
    BY <2>6, <2>7, <2>8
<1>5. QED
  BY <1>3, <1>4, CallSteps

-----------------------------------------------------------------------------
(* Types.                                                                  *)

SentCount == [n : Nat, expires : BOOLEAN]

\* Only these steps touch the counters of SendCode.
LEMMA SentSteps ==
  ASSUME [Next]_vars
  PROVE  \/ UNCHANGED sent
         \/ \E w \in Worker : \/ SendExpire(w)
                              \/ \E e \in Email, sc \in Scene : SendAllow(w, e, sc)
         \/ WindowEnds
BY DEF Next, vars, sendCode, register, oidcCallback, SendCode, Register, CompleteAuth, Fault,
   RegVerify, CbConsume, SendCreate, RegInc, RegMark, RegFind, RegCreate, CbExchange,
   CbSubject, CbEmail, CbLink, CbCreate, CodeExpires, BeginAuth, StateExpires, SeedAdmin

\* What they make of one counter.
LEMMA SentRow ==
  ASSUME TypeOK, CallsFit, [Next]_vars, ~UNCHANGED sent
  PROVE  \E k \in Email \X Scene, x \in SentCount :
           /\ sent' = [sent EXCEPT ![k] = x]
           /\ \/ x.n = 0
              \/ x.expires
              \/ /\ sent[k].n > 0 /\ x.expires = sent[k].expires
              \/ \E w \in Worker : /\ call[w].at = "idle"
                                   /\ call'[w].at = "sendExpire"
                                   /\ <<call'[w].email, call'[w].scene>> = k
<1>1. sent \in [Email \X Scene -> SentCount]
  BY DEF TypeOK, SentCount
<1>2. ASSUME NEW w \in Worker, SendExpire(w)
      PROVE  \E k \in Email \X Scene, x \in SentCount :
               sent' = [sent EXCEPT ![k] = x] /\ x.expires
  <2> DEFINE k == <<call[w].email, call[w].scene>>
             x == [sent[k] EXCEPT !.expires = TRUE]
  <2>1. k \in Email \X Scene
    BY <1>2, CallTyped DEF SendExpire, CallsFit, Fits, Call
  <2>2. sent' = [sent EXCEPT ![k] = x]
    BY <1>2 DEF SendExpire
  <2>3. sent[k] \in SentCount
    BY <1>1, <2>1
  <2>4. x \in SentCount /\ x.expires
    BY <2>3 DEF SentCount
  <2> HIDE DEF x, k
  <2>5. QED
    BY <2>1, <2>2, <2>4
<1>3. ASSUME NEW w \in Worker, NEW e \in Email, NEW sc \in Scene, SendAllow(w, e, sc)
      PROVE  \E k \in Email \X Scene, x \in SentCount :
               /\ sent' = [sent EXCEPT ![k] = x]
               /\ \/ sent[k].n > 0 /\ x.expires = sent[k].expires
                  \/ /\ call[w].at = "idle" /\ call'[w].at = "sendExpire"
                     /\ <<call'[w].email, call'[w].scene>> = k
  <2> DEFINE k == <<e, sc>>
             n == sent[k].n + 1
             x == [sent[k] EXCEPT !.n = n]
             y == Sending(IF CountsFirst(n) THEN "sendExpire" ELSE "sendCreate", e, sc)
  <2>1. /\ sent' = [sent EXCEPT ![k] = x] /\ call[w].at = "idle"
        /\ call' = [call EXCEPT ![w] = y]
    BY <1>3, SentSteps DEF SendAllow
  <2>2. k \in Email \X Scene /\ sent[k] \in SentCount
    BY <1>1
  <2>3. n \in Nat /\ (n = 1 \/ sent[k].n > 0)
    BY <2>2 DEF SentCount
  <2>4. CountsFirst(n) <=> n = 1
    BY DEF CountsFirst
  <2> HIDE DEF n, k
  <2>5. x \in SentCount /\ x.expires = sent[k].expires
    BY <2>2, <2>3 DEF SentCount
  <2>6. n = 1 => /\ call'[w].at = "sendExpire"
                 /\ call'[w].email = e /\ call'[w].scene = sc
    <3>1. n = 1 => y = Sending("sendExpire", e, sc)
      BY <2>4
    <3>2. /\ Sending("sendExpire", e, sc).at = "sendExpire"
          /\ Sending("sendExpire", e, sc).email = e
          /\ Sending("sendExpire", e, sc).scene = sc
      BY IdleTyped DEF Sending, Call
    <3>3. call'[w] = y
      BY <2>1 DEF TypeOK
    <3>4. QED
      BY <3>1, <3>2, <3>3
  <2> HIDE DEF x, y
  <2>7. QED
    BY <2>1, <2>2, <2>3, <2>5, <2>6 DEF k
<1>4. CASE WindowEnds
  <2> DEFINE x == [n |-> 0, expires |-> FALSE]
  <2>1. PICK k \in Email \X Scene : sent' = [sent EXCEPT ![k] = x]
    BY <1>1, <1>4 DEF WindowEnds
  <2>2. x \in SentCount /\ x.n = 0
    BY DEF SentCount
  <2> HIDE DEF x
  <2>3. QED
    BY <2>1, <2>2
<1>5. QED
  BY <1>2, <1>3, <1>4, SentSteps

LEMMA RestTyped ==
  ASSUME TypeOK, [Next]_vars
  PROVE  begun' \in 0 .. MaxStates /\ state' \subseteq 1 .. begun' /\ faults' \in 0 .. MaxFaults
<1>1. /\ MaxStates \in Nat /\ MaxFaults \in Nat
      /\ begun \in 0 .. MaxStates /\ state \subseteq 1 .. begun /\ faults \in 0 .. MaxFaults
  BY SignUpAssumption DEF SignUpAssumption, TypeOK
<1>2. \/ UNCHANGED begun
      \/ BeginAuth
  BY DEF Next, vars, sendCode, register, oidcCallback, SendCode, Register, CompleteAuth, Fault,
     SendAllow, RegVerify, CbConsume, SendExpire, SendCreate, RegInc, RegMark, RegFind,
     RegCreate, CbExchange, CbSubject, CbEmail, CbLink, CbCreate, WindowEnds, CodeExpires,
     StateExpires, SeedAdmin
<1>3. BeginAuth \/ state' \subseteq state
  BY DEF Next, vars, sendCode, register, oidcCallback, SendCode, Register, CompleteAuth, Fault,
     SendAllow, RegVerify, CbConsume, Consume, SendExpire, SendCreate, RegInc, RegMark, RegFind,
     RegCreate, CbExchange, CbSubject, CbEmail, CbLink, CbCreate, WindowEnds, CodeExpires,
     StateExpires, SeedAdmin
<1>4. UNCHANGED faults \/ (faults < MaxFaults /\ faults' = faults + 1)
  BY DEF Next, vars, sendCode, register, oidcCallback, SendCode, Register, CompleteAuth, Fault,
     SendAllow, RegVerify, CbConsume, SendExpire, SendCreate, RegInc, RegMark, RegFind,
     RegCreate, CbExchange, CbSubject, CbEmail, CbLink, CbCreate, WindowEnds, CodeExpires,
     BeginAuth, StateExpires, SeedAdmin
<1>5. BeginAuth => /\ begun' \in 0 .. MaxStates /\ begun' = begun + 1
                   /\ state' = state \cup {begun'}
  BY <1>1 DEF BeginAuth, Save
<1>6. CASE BeginAuth
  <2>1. 1 .. begun \subseteq 1 .. begun + 1 /\ begun + 1 \in 1 .. begun + 1
    BY <1>1
  <2>2. state' \subseteq 1 .. begun'
    BY <1>1, <1>5, <1>6, <2>1
  <2>3. QED
    BY <1>1, <1>4, <1>5, <1>6, <2>2
<1>7. CASE ~BeginAuth
  <2>1. begun' = begun /\ state' \subseteq state
    BY <1>2, <1>3, <1>7
  <2>2. state' \subseteq 1 .. begun'
    BY <1>1, <2>1
  <2>3. faults' \in 0 .. MaxFaults
    BY <1>1, <1>4
  <2>4. QED
    BY <1>1, <2>1, <2>2, <2>3
<1>8. QED
  BY <1>6, <1>7

\* The types, what each request knows, and the room that it holds.
SignUpInv == TypeOK /\ CallsFit /\ RoomKept

LEMMA SignUpInvInit == Init => SignUpInv
<1> SUFFICES ASSUME Init PROVE SignUpInv
  OBVIOUS
<1>1. /\ MaxCodes \in Nat /\ MaxAccounts \in Nat /\ MaxStates \in Nat /\ MaxFaults \in Nat
  BY SignUpAssumption DEF SignUpAssumption
<1>2. \A w \in Worker : call[w] = Idle
  BY DEF Init
<1>3. TypeOK
  BY <1>1, IdleTyped DEF Init, TypeOK
<1>4. CallsFit
  BY <1>2, IdleTyped DEF CallsFit
<1>5. RoomKept
  <2>1. SendingCode = {}
    BY <1>2, IdleTyped DEF SendingCode
  <2>2. Cardinality(SendingCode) = 0
    BY <2>1, FS_EmptySet
  <2>3. Len(code) = 0
    BY DEF Init
  <2>4. QED
    BY <1>1, <2>2, <2>3 DEF RoomKept
<1>6. QED
  BY <1>3, <1>4, <1>5 DEF SignUpInv

LEMMA SignUpInvStep == SignUpInv /\ [Next]_vars => SignUpInv'
<1> SUFFICES ASSUME TypeOK, CallsFit, RoomKept, [Next]_vars
             PROVE  SignUpInv'
  BY DEF SignUpInv
<1>1. code' \in Seq(Code) /\ RoomKept' /\ Len(code') <= MaxCodes
  BY CodeStep, RoomKeptStep
<1>2. account' \in Seq(Account) /\ Len(account') <= MaxAccounts
  BY AccountStep DEF AccountsBecome
<1>3. call' \in [Worker -> Call] /\ CallsFit'
  BY CallsFitStep
<1>4. sent' \in [Email \X Scene -> SentCount]
  <2>1. sent \in [Email \X Scene -> SentCount]
    BY DEF TypeOK, SentCount
  <2>2. QED
    BY <2>1, SentRow
<1>5. QED
  BY <1>1, <1>2, <1>3, <1>4, RestTyped DEF SignUpInv, TypeOK, SentCount

LEMMA SignUpInvariant == Spec => []SignUpInv
BY SignUpInvInit, SignUpInvStep, PTL DEF Spec

\* Tables, counters, states and requests keep their types, and the rows fit in.
THEOREM TypeCorrect == Spec => []TypeOK
BY SignUpInvariant, PTL DEF SignUpInv

-----------------------------------------------------------------------------
(* Accounts.                                                               *)

\* An account that Register made has an address that a registration code was
\* sent to and spent for, one that OIDC made an address that the allow-lists
\* admit: for any lists, and however registrations, sign-ons and the command
\* interleave, since a request writes its account statements after its checks.
THEOREM AccountsProven == Spec => []AccountsAreProven
<1> DEFINE Origin(i) == /\ account[i].by = "code" => Proven(account[i].email)
                        /\ account[i].by = "oidc" => Allowed(account[i].email)
           Inv == \A i \in DOMAIN account : Origin(i)
<1>1. Init => Inv
  BY DEF Init
<1>2. SignUpInv /\ Inv /\ [Next]_vars => Inv'
  <2> SUFFICES ASSUME TypeOK, CallsFit, Inv, [Next]_vars, NEW i \in DOMAIN account'
               PROVE  /\ account'[i].by = "code" => Proven(account[i].email)'
                      /\ account'[i].by = "oidc" => Allowed(account'[i].email)
    BY DEF SignUpInv, Allowed
  <2>1. CodeGrows /\ AccountsBecome
    BY CodeStep, AccountStep
  <2>2. \A e : Proven(e) => Proven(e)'
    BY <2>1 DEF CodeGrows, Proven
  <2>3. CASE i \in DOMAIN account
    <3>1. account'[i].by = account[i].by /\ account'[i].email = account[i].email
      BY <2>1, <2>3 DEF AccountsBecome, AccountGrows
    <3>2. Origin(i)
      BY <2>3
    <3>3. Proven(account[i].email) => Proven(account[i].email)'
      BY <2>1, <3>1 DEF CodeGrows, Proven
    <3>4. QED
      BY <3>1, <3>2, <3>3
  <2>4. CASE i \notin DOMAIN account
    <3>1. PICK row : NewAccount(row) /\ account' = Append(account, row)
      BY <2>1, <2>4 DEF AccountsBecome
    <3>2. account'[i] = row
      BY <2>4, <3>1, RowAppended DEF TypeOK, NewAccount
    <3>3. Proven(row.email) => Proven(account[i].email)'
      BY <2>1, <3>2 DEF CodeGrows, Proven
    <3>4. QED
      BY <3>1, <3>2, <3>3 DEF NewAccount
  <2>5. QED
    BY <2>3, <2>4
<1>3. Inv => AccountsAreProven
  BY DEF AccountsAreProven, Proven
<1>4. QED
  BY <1>1, <1>2, <1>3, SignUpInvariant, PTL DEF Spec

-----------------------------------------------------------------------------
(* Guesses.                                                                *)

\* The requests that are about to count a wrong guess at a code.
Guessing(c) == {w \in Worker : call[w].at = "regInc" /\ call[w].row = c}

\* Once a code is exhausted nobody joins those who have yet to count.
Held(c) == code[c].attempts + Cardinality(Guessing(c)) <= AttemptLimit - 1 + Cardinality(Worker)

GuessesHeld == \A c \in DOMAIN code : Held(c)

LEMMA GuessesHeldStep ==
  ASSUME TypeOK, CallsFit, GuessesHeld, [Next]_vars
  PROVE  GuessesHeld'
<1>1. AttemptLimit \in Nat /\ code \in Seq(Code)
  BY SignUpAssumption DEF SignUpAssumption, TypeOK
<1>2. \A c : /\ IsFiniteSet(Guessing(c)) /\ Cardinality(Guessing(c)) \in Nat
             /\ Cardinality(Guessing(c)') \in Nat
             /\ Cardinality(Worker) \in Nat
             /\ Cardinality(Guessing(c)') <= Cardinality(Worker)
  <2> TAKE c
  <2>1. Guessing(c) \subseteq Worker /\ Guessing(c)' \subseteq Worker
    BY DEF Guessing
  <2>2. QED
    BY <2>1, SomeRequests
<1>3. \A c \in DOMAIN code : code[c].attempts \in Nat
  <2>1. \A c \in DOMAIN code : code[c] \in Code
    BY <1>1
  <2>2. QED
    BY <2>1 DEF Code
<1>4. CASE UNCHANGED call
  <2>1. \A c : Guessing(c)' = Guessing(c)
    BY <1>4 DEF Guessing
  <2>2. UNCHANGED code \/ CodeExpires
    <3>1. \A w \in Worker : ~(SendCreate(w) \/ RegInc(w) \/ RegMark(w))
      BY <1>4, CallTyped DEF SendCreate, RegInc, RegMark, Done, Go, TypeOK, Idle, Call, Stages
    <3>2. QED
      BY <3>1, CodeSteps
  <2>3. DOMAIN code' = DOMAIN code /\ \A c \in DOMAIN code : code'[c].attempts = code[c].attempts
    BY <1>1, <2>2, CodeExpiresRow
  <2>4. QED
    BY <2>1, <2>3 DEF GuessesHeld, Held
<1>5. ASSUME NEW w \in Worker, WorkerStep(w)
      PROVE  GuessesHeld'
  <2>1. PICK x \in Call : Turn(w, x) /\ BecomesAs(w, x)
    BY <1>5, WorkerTurn
  <2>2. call'[w] = x /\ \A v \in Worker : v # w => call'[v] = call[v]
    BY <2>1, TurnTyped
  <2> DEFINE at(y, c) == y.at = "regInc" /\ y.row = c
  <2>3. ASSUME NEW c
        PROVE  Cardinality(Guessing(c)')
               = Cardinality(Guessing(c)) - One(at(call[w], c)) + One(at(x, c))
    <3>1. Guessing(c)' \ {w} = Guessing(c) \ {w}
      BY <2>2 DEF Guessing
    <3>2. (w \in Guessing(c) <=> at(call[w], c)) /\ (w \in Guessing(c)' <=> at(x, c))
      BY <2>2 DEF Guessing
    <3>3. Cardinality(Guessing(c)')
          = Cardinality(Guessing(c)) - One(w \in Guessing(c)) + One(w \in Guessing(c)')
      BY <1>2, <3>1, OneMoves
    <3>4. QED
      BY <3>2, <3>3 DEF One
  <2>4. \A v \in Worker : SendCreate(v) \/ RegInc(v) \/ RegMark(v) => v = w
    <3>1. ASSUME NEW v \in Worker, SendCreate(v) \/ RegInc(v) \/ RegMark(v), v # w
          PROVE  FALSE
      <4>1. call'[v].at \in {"idle", "regFind"}
            /\ call[v].at \in {"sendCreate", "regInc", "regMark"}
        BY <3>1, CallTyped, IdleTyped DEF SendCreate, RegInc, RegMark, Done, Go, TypeOK, Call, Stages
      <4>2. QED
        BY <2>2, <3>1, <4>1
    <3>2. QED
      BY <3>1
  <2>5. ASSUME NEW c \in DOMAIN code
        PROVE  Held(c)'
    <3>1. Held(c)
      BY DEF GuessesHeld
    <3>2. CASE at(x, c)
      <4>1. ~Exhausted(c) /\ UNCHANGED code
        BY <2>1, <3>2, IdleTyped DEF BecomesAs, RegMark
      <4>2. code'[c].attempts = code[c].attempts /\ code[c].attempts < AttemptLimit
        BY <1>1, <1>3, <4>1 DEF Exhausted
      <4>3. QED
        BY <1>1, <1>2, <1>3, <4>2 DEF Held
    <3>3. CASE ~at(x, c) /\ RegInc(w)
      <4>1. PICK r \in Code : /\ code' = [code EXCEPT ![call[w].row] = r]
                              /\ r.attempts = code[call[w].row].attempts + 1
        BY <3>3, RegIncRow
      <4>2. c = call[w].row => /\ code'[c].attempts = code[c].attempts + 1
                               /\ at(call[w], c)
        BY <1>1, <3>3, <4>1 DEF RegInc
      <4>3. c # call[w].row => code'[c].attempts = code[c].attempts /\ ~at(call[w], c)
        BY <1>1, <4>1
      <4> HIDE DEF at
      <4>4. CASE c = call[w].row
        <5>1. Cardinality(Guessing(c)') = Cardinality(Guessing(c)) - 1
          BY <1>2, <2>3, <3>3, <4>2, <4>4 DEF One
        <5>2. QED
          BY <1>1, <1>2, <1>3, <3>1, <4>2, <4>4, <5>1 DEF Held
      <4>5. CASE c # call[w].row
        <5>1. Cardinality(Guessing(c)') = Cardinality(Guessing(c))
          BY <1>2, <2>3, <3>3, <4>3, <4>5 DEF One
        <5>2. QED
          BY <3>1, <4>3, <4>5, <5>1 DEF Held
      <4>6. QED
        BY <4>4, <4>5
    <3>4. CASE ~at(x, c) /\ ~RegInc(w)
      <4>1. code'[c].attempts = code[c].attempts
        <5>1. ASSUME SendCreate(w) PROVE code'[c].attempts = code[c].attempts
          BY <1>1, <5>1, SendCreateRow, RowAppended
        <5>2. ASSUME RegMark(w) PROVE code'[c].attempts = code[c].attempts
          BY <1>1, <5>2, RegMarkRow
        <5>3. ASSUME CodeExpires PROVE code'[c].attempts = code[c].attempts
          BY <1>1, <5>3, CodeExpiresRow
        <5>4. QED
          BY <2>4, <3>4, <5>1, <5>2, <5>3, CodeSteps
      <4> HIDE DEF at
      <4>2. Cardinality(Guessing(c)') <= Cardinality(Guessing(c))
        BY <1>2, <2>3, <3>4 DEF One
      <4>3. QED
        BY <1>1, <1>2, <1>3, <3>1, <4>1, <4>2 DEF Held
    <3>5. QED
      BY <3>2, <3>3, <3>4
  <2>6. ASSUME NEW c \in DOMAIN code', c \notin DOMAIN code
        PROVE  Held(c)'
    <3>1. PICK r \in Code : code' = Append(code, r) /\ r.attempts = 0
      <4>1. ~UNCHANGED code /\ ~CodeExpires /\ ~RegInc(w) /\ ~RegMark(w)
        BY <1>1, <2>6, CodeExpiresRow, RegIncRow, RegMarkRow
      <4>2. SendCreate(w)
        BY <2>4, <4>1, CodeSteps
      <4>3. QED
        BY <4>2, SendCreateRow
    <3>2. code'[c].attempts = 0
      BY <1>1, <2>6, <3>1, RowAppended
    <3>3. \A v \in Worker : call[v].at = "regInc" => call[v].row # c
      BY <2>6 DEF CallsFit, Fits
    <3>4. ~at(x, c)
      BY <2>1, <2>6, IdleTyped DEF BecomesAs, Unused, RegMark
    <3>5. Guessing(c)' = {}
      BY <2>2, <3>3, <3>4 DEF Guessing
    <3>6. Cardinality(Guessing(c)') = 0 /\ Cardinality(Worker) >= 1
      <4>1. {w} \subseteq Worker
        OBVIOUS
      <4>2. QED
        BY <3>5, <4>1, FS_EmptySet, SomeRequests
    <3>7. QED
      BY <1>1, <1>2, <3>2, <3>6 DEF Held
  <2>7. QED
    BY <2>5, <2>6 DEF GuessesHeld
<1>6. QED
  BY <1>4, <1>5, CallSteps

\* A code takes no more wrong guesses than the limit and the requests that were
\* under way together when it was reached: for any number of requests, although
\* verifyCode reads the counter and adds to it in two statements.
THEOREM GuessingIsBounded == Spec => []GuessesBounded
<1>1. Init => GuessesHeld
  BY DEF Init, GuessesHeld
<1>2. SignUpInv /\ GuessesHeld /\ [Next]_vars => GuessesHeld'
  BY GuessesHeldStep DEF SignUpInv
<1>3. SignUpInv /\ GuessesHeld => GuessesBounded
  <2> SUFFICES ASSUME TypeOK, GuessesHeld, NEW c \in DOMAIN code
               PROVE  code[c].attempts < AttemptLimit + Cardinality(Worker)
    BY DEF SignUpInv, GuessesBounded
  <2>1. code[c].attempts \in Nat /\ AttemptLimit \in Nat /\ Held(c)
    <3>1. code[c] \in Code
      BY DEF TypeOK
    <3>2. QED
      BY <3>1, SignUpAssumption DEF SignUpAssumption, Code, GuessesHeld
  <2>2. Guessing(c) \subseteq Worker
    BY DEF Guessing
  <2>3. Cardinality(Guessing(c)) \in Nat /\ Cardinality(Worker) \in Nat
    BY <2>2, SomeRequests
  <2>4. QED
    BY <2>1, <2>3 DEF Held
<1>4. QED
  BY <1>1, <1>2, <1>3, SignUpInvariant, PTL DEF Spec

-----------------------------------------------------------------------------
(* Counters.                                                               *)

\* An address is refused for longer than the window only after a fault between
\* INCR and EXPIRE: a counter that counted has its expiry, or the request that
\* counted to one is about to set it.
THEOREM CountersDoExpire == Spec => []CountersExpire
<1>1. Init => CountersExpire
  BY DEF Init, CountersExpire
<1>2. SignUpInv /\ CountersExpire /\ [Next]_vars => CountersExpire'
  <2> DEFINE Coming(k) == \E w \in Worker : /\ call[w].at = "sendExpire"
                                            /\ <<call[w].email, call[w].scene>> = k
  <2> SUFFICES ASSUME TypeOK, CallsFit, CountersExpire, [Next]_vars,
                      NEW k \in DOMAIN sent', sent'[k].n > 0, ~sent'[k].expires
               PROVE  faults' > 0 \/ Coming(k)'
    BY DEF SignUpInv, CountersExpire
  <2>1. sent \in [Email \X Scene -> SentCount]
    BY DEF TypeOK, SentCount
  <2>2. faults \in Nat /\ faults' \in Nat /\ faults <= faults'
    <3>1. faults \in Nat
      BY SignUpAssumption DEF SignUpAssumption, TypeOK
    <3>2. faults' = faults \/ faults' = faults + 1
      BY DEF Next, vars, sendCode, register, oidcCallback, SendCode, Register, CompleteAuth,
         Fault, SendAllow, RegVerify, CbConsume, SendExpire, SendCreate, RegInc, RegMark,
         RegFind, RegCreate, CbExchange, CbSubject, CbEmail, CbLink, CbCreate, WindowEnds,
         CodeExpires, BeginAuth, StateExpires, SeedAdmin
    <3>3. QED
      BY <3>1, <3>2
  <2>3. ASSUME k \in DOMAIN sent, sent[k].n > 0, ~sent[k].expires
        PROVE  faults' > 0 \/ Coming(k)'
    <3>1. faults > 0 \/ Coming(k)
      BY <2>3 DEF CountersExpire
    <3>2. CASE faults > 0
      BY <2>2, <3>2
    <3>3. CASE Coming(k)
      <4>1. PICK v \in Worker : /\ call[v].at = "sendExpire"
                                /\ <<call[v].email, call[v].scene>> = k
        BY <3>3
      <4>2. CASE call'[v] = call[v]
        BY <4>1, <4>2
      <4>3. CASE call'[v] # call[v]
        <5>1. WorkerStep(v)
          <6>1. PICK w \in Worker : WorkerStep(w)
            BY <4>3, CallSteps
          <6>2. PICK x \in Call : Turn(w, x)
            BY <6>1, WorkerTurn
          <6>3. QED
            BY <4>3, <6>1, <6>2, TurnTyped
        <5>2. SendExpire(v) \/ Fault(v)
          BY <4>1, <5>1 DEF WorkerStep, sendCode, register, oidcCallback, SendCode, Register,
             CompleteAuth, SendAllow, RegVerify, CbConsume, SendCreate, RegInc, RegMark,
             RegFind, RegCreate, CbExchange, CbSubject, CbEmail, CbLink, CbCreate
        <5>3. ~SendExpire(v)
          BY <2>1, <2>3, <4>1 DEF SendExpire, SentCount
        <5>4. faults' = faults + 1
          BY <5>2, <5>3 DEF Fault
        <5>5. QED
          BY <2>2, <5>4
      <4>4. QED
        BY <4>2, <4>3
    <3>4. QED
      BY <3>1, <3>2, <3>3
  <2>4. CASE UNCHANGED sent
    BY <2>3, <2>4
  <2>5. CASE ~UNCHANGED sent
    <3>1. PICK j \in Email \X Scene, x \in SentCount :
            /\ sent' = [sent EXCEPT ![j] = x]
            /\ \/ x.n = 0
               \/ x.expires
               \/ sent[j].n > 0 /\ x.expires = sent[j].expires
               \/ Coming(j)'
      BY <2>5, SentRow
    <3>2. CASE k # j
      BY <2>1, <2>3, <3>1, <3>2
    <3>3. CASE k = j
      <4>1. sent'[k] = x
        BY <2>1, <3>1, <3>3
      <4>2. x.n # 0 /\ ~x.expires
        BY <4>1
      <4>3. CASE Coming(j)'
        BY <3>3, <4>3
      <4>4. CASE sent[j].n > 0 /\ x.expires = sent[j].expires
        BY <2>1, <2>3, <3>1, <3>3, <4>2, <4>4
      <4>5. QED
        BY <3>1, <4>2, <4>3, <4>4
    <3>4. QED
      BY <3>2, <3>3
  <2>6. QED
    BY <2>4, <2>5
<1>3. QED
  BY <1>1, <1>2, SignUpInvariant, PTL DEF Spec
=============================================================================
