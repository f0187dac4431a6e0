-------------------------------- MODULE SignUp --------------------------------
(***************************************************************************)
(* How accounts come to be (internal/user): emailed codes and Register,    *)
(* single sign-on by OIDC, and the seed-admin command.                     *)
(*                                                                         *)
(* Every statement on a table and every Redis command is a step of its     *)
(* own.  Nothing holds a lock from the check of a code, an email or a      *)
(* subject to the write that rests on it; the unique keys of table users   *)
(* decide who wins.  An account's password, traffic and tokens are left    *)
(* out: module Sessions has what a login does.                             *)
(***************************************************************************)
EXTENDS Integers, FiniteSets, Sequences

CONSTANTS
    Worker,        \* requests that may be under way at one time
    Email,         \* normalised addresses
    Subject,       \* subjects of the identity provider
    Scene,         \* what a code may be asked for, with "register" among them
    CodeValue,     \* what a code may read
    AttemptLimit,  \* wrong tries after which a code is refused: 5
    SendLimit,     \* codes per address and minute, 0 = any number
    AdminEmails, AllowedEmails, AllowedDomains,  \* the allow-lists of OIDC
    SeedRoles,     \* roles seed-admin is run with
    Nothing,       \* no subject, no email
    MaxCodes,      \* bound: rows of table email_codes
    MaxAccounts,   \* bound: rows of table users
    MaxStates,     \* bound: OIDC logins begun
    MaxFaults      \* bound: statements that fail

ASSUME SignUpAssumption ==
    /\ "register" \in Scene
    /\ AttemptLimit \in Nat /\ SendLimit \in Nat
    /\ AdminEmails \subseteq Email /\ AllowedEmails \subseteq Email
    /\ AllowedDomains \subseteq Email   \* the addresses under an allowed domain
    /\ SeedRoles \subseteq {"admin", "ops", "finance"}
    /\ Nothing \notin Email \cup Subject
    /\ {MaxCodes, MaxAccounts, MaxStates, MaxFaults} \subseteq Nat
    /\ IsFiniteSet(Worker)

VARIABLES
    code,     \* table email_codes by id
    sent,     \* Redis: the counter of SendCode for an address, and whether it expires
    account,  \* table users by id
    state,    \* Redis: OIDC states that are waiting for their callback
    begun,    \* OIDC states handed out so far
    call,     \* each request: its next statement and its locals
    faults    \* statements that failed

vars == <<code, sent, account, state, begun, call, faults>>

Code == [email : Email, scene : Scene, value : CodeValue, attempts : Nat,
         expired : BOOLEAN, used : BOOLEAN]

Account == [email : Email, subject : Subject \cup {Nothing},
            role : {"user", "admin", "ops", "finance"}, by : {"code", "oidc", "seed"}]

Identity == [subject : Subject \cup {Nothing}, email : Email \cup {Nothing},
             verified : BOOLEAN]

NoIdentity == [subject |-> Nothing, email |-> Nothing, verified |-> FALSE]

Stages == {"idle", "sendExpire", "sendCreate", "regInc", "regMark", "regFind",
           "regCreate", "cbExchange", "cbSubject", "cbEmail", "cbLink", "cbCreate"}

Idle == [at |-> "idle", email |-> Nothing, scene |-> "register", row |-> 0,
         id |-> NoIdentity]

Call == [at : Stages, email : Email \cup {Nothing}, scene : Scene, row : Nat,
         id : Identity]

TypeOK ==
    /\ code \in Seq(Code) /\ Len(code) <= MaxCodes
    /\ sent \in [Email \X Scene -> [n : Nat, expires : BOOLEAN]]
    /\ account \in Seq(Account) /\ Len(account) <= MaxAccounts
    /\ begun \in 0 .. MaxStates
    /\ state \subseteq 1 .. begun
    /\ call \in [Worker -> Call]
    /\ faults \in 0 .. MaxFaults

Init ==
    /\ code = <<>>
    /\ sent = [k \in Email \X Scene |-> [n |-> 0, expires |-> FALSE]]
    /\ account = <<>>
    /\ state = {}
    /\ begun = 0
    /\ call = [w \in Worker |-> Idle]
    /\ faults = 0

Go(w, stage) == call' = [call EXCEPT ![w].at = stage]

\* The request is answered.
Done(w) == call' = [call EXCEPT ![w] = Idle]

-----------------------------------------------------------------------------
(* Codes.                                                                  *)

\* Room for one more code: a bound.
CodeRoom ==
    Len(code) + Cardinality({w \in Worker : call[w].at \in {"sendExpire", "sendCreate"}})
      < MaxCodes

Sending(stage, e, sc) == [Idle EXCEPT !.at = stage, !.email = e, !.scene = sc]

CountsFromZero(n) == n = 0

\* Whose EXPIRE it is.
CountsFirst(n) == n = 1

\* Limiter.Allow for SendCode: INCR, then EXPIRE by whoever counted to one;
\* over the limit the counter only grows, which is left out.
SendAllow(w, e, sc) ==
    /\ call[w].at = "idle"
    /\ LET n == sent[<<e, sc>>].n + 1
       IN \/ /\ SendLimit = 0
             /\ CodeRoom
             /\ call' = [call EXCEPT ![w] = Sending("sendCreate", e, sc)]
             /\ UNCHANGED sent
          \/ /\ n <= SendLimit
             /\ CodeRoom
             /\ sent' = [sent EXCEPT ![<<e, sc>>].n = n]
             /\ call' = [call EXCEPT ![w] =
                           Sending(IF CountsFirst(n) THEN "sendExpire" ELSE "sendCreate", e, sc)]
          \/ /\ n > SendLimit
             /\ SendLimit > 0
             /\ Done(w)
             /\ UNCHANGED sent
    /\ UNCHANGED <<code, account, state, begun, faults>>

SendExpire(w) ==
    /\ call[w].at = "sendExpire"
    /\ sent' = [sent EXCEPT ![<<call[w].email, call[w].scene>>].expires = TRUE]
    /\ Go(w, "sendCreate")
    /\ UNCHANGED <<code, account, state, begun, faults>>

\* The row of a code, and the mail with it.
SendCreate(w) ==
    /\ call[w].at = "sendCreate"
    /\ \E v \in CodeValue :
         code' = Append(code, [email |-> call[w].email, scene |-> call[w].scene,
                               value |-> v, attempts |-> 0, expired |-> FALSE,
                               used |-> FALSE])
    /\ Done(w)
    /\ UNCHANGED <<sent, account, state, begun, faults>>

\* The minute of a counter is over; one that lost its EXPIRE stays for good.
WindowEnds ==
    /\ \E k \in DOMAIN sent :
         /\ sent[k].expires
         /\ sent' = [sent EXCEPT ![k] = [n |-> 0, expires |-> FALSE]]
    /\ UNCHANGED <<code, account, state, begun, call, faults>>

\* Ten minutes are over.
CodeExpires ==
    /\ \E i \in DOMAIN code :
         /\ ~code[i].expired /\ ~code[i].used
         /\ code' = [code EXCEPT ![i].expired = TRUE]
    /\ UNCHANGED <<sent, account, state, begun, call, faults>>

UnusedOfAnyScene(e, sc) == {i \in DOMAIN code : code[i].email = e /\ ~code[i].used}

Unused(e, sc) == {i \in DOMAIN code : code[i].email = e /\ code[i].scene = sc /\ ~code[i].used}

\* FindLatestUnused: 0 when there is none.
FindLatestUnused(e, sc) ==
    IF Unused(e, sc) = {} THEN 0
    ELSE CHOOSE i \in Unused(e, sc) : \A j \in Unused(e, sc) : j <= i

ExhaustedLate(i) == code[i].attempts > AttemptLimit

Exhausted(i) == code[i].attempts >= AttemptLimit

Matches(i, v) == code[i].value = v

\* verifyCode up to its first write; the row is judged as it was read.
RegVerify(w, e, v) ==
    /\ call[w].at = "idle"
    /\ LET i == FindLatestUnused(e, "register")
       IN IF i = 0 \/ code[i].expired \/ Exhausted(i) THEN Done(w)
          ELSE call' = [call EXCEPT ![w] =
                   [Idle EXCEPT !.at = IF Matches(i, v) THEN "regMark" ELSE "regInc",
                                !.email = e, !.row = i]]
    /\ UNCHANGED <<code, sent, account, state, begun, faults>>

\* IncAttempts; the error of it is ignored, the request is refused either way.
RegInc(w) ==
    /\ call[w].at = "regInc"
    /\ code' = [code EXCEPT ![call[w].row].attempts = @ + 1]
    /\ Done(w)
    /\ UNCHANGED <<sent, account, state, begun, faults>>

\* MarkUsed, which does not ask whether the code was used meanwhile.
RegMark(w) ==
    /\ call[w].at = "regMark"
    /\ code' = [code EXCEPT ![call[w].row].used = TRUE]
    /\ Go(w, "regFind")
    /\ UNCHANGED <<sent, account, state, begun, faults>>

-----------------------------------------------------------------------------
(* Table users.                                                            *)

WithEmail(e) == {i \in DOMAIN account : account[i].email = e}

WithSubject(s) == {i \in DOMAIN account : account[i].subject = s}

\* Create; the unique keys refuse a second row with the email or the subject.
Insert(row) ==
    IF WithEmail(row.email) # {} \/ (row.subject # Nothing /\ WithSubject(row.subject) # {})
    THEN UNCHANGED account
    ELSE account' = Append(account, row)

\* Room for one more account: a bound.
Room == Len(account) < MaxAccounts

\* Register looks for the address only when the code is already spent.
RegFind(w) ==
    /\ call[w].at = "regFind"
    /\ IF WithEmail(call[w].email) # {} THEN Done(w) ELSE Go(w, "regCreate")
    /\ UNCHANGED <<code, sent, account, state, begun, faults>>

RegCreate(w) ==
    /\ call[w].at = "regCreate"
    /\ Room
    /\ Insert([email |-> call[w].email, subject |-> Nothing, role |-> "user", by |-> "code"])
    /\ Done(w)
    /\ UNCHANGED <<code, sent, state, begun, faults>>

\* seed-admin: a new row, or the role of the one that has the address.
SeedAdmin(e, role) ==
    /\ IF WithEmail(e) = {}
       THEN Room /\ Insert([email |-> e, subject |-> Nothing, role |-> role, by |-> "seed"])
       ELSE account' = [i \in DOMAIN account |->
                          IF i \in WithEmail(e) THEN [account[i] EXCEPT !.role = role]
                          ELSE account[i]]
    /\ UNCHANGED <<code, sent, state, begun, call, faults>>

-----------------------------------------------------------------------------
(* OIDC.                                                                   *)

\* Store.Save: SET with a TTL.
Save(s) == state' = state \cup {s}

BeginAuth ==
    /\ begun < MaxStates
    /\ begun' = begun + 1
    /\ Save(begun + 1)
    /\ UNCHANGED <<code, sent, account, call, faults>>

\* The state's five minutes are over.
StateExpires ==
    /\ \E s \in state : state' = state \ {s}
    /\ UNCHANGED <<code, sent, account, begun, call, faults>>

\* Store.Consume: GETDEL.
Consume(s) == s \in state /\ state' = state \ {s}

\* CompleteAuth with a state somebody was given; one that is not waiting ends it.
CbConsume(w, s) ==
    /\ call[w].at = "idle"
    /\ Consume(s)
    /\ Go(w, "cbExchange")
    /\ UNCHANGED <<code, sent, account, begun, faults>>

\* oidcAllowed: on a list, or under a domain; empty lists allow everybody.
Allowed(e) ==
    \/ e \in AdminEmails \cup AllowedEmails
    \/ IF AllowedDomains # {} THEN e \in AllowedDomains
       ELSE AllowedEmails = {} /\ AdminEmails = {}

Acceptable(id) ==
    /\ id.subject # Nothing
    /\ id.email # Nothing
    /\ id.verified
    /\ Allowed(id.email)

\* What the provider says of the user.
CbExchange(w) ==
    /\ call[w].at = "cbExchange"
    /\ \E id \in Identity :
         call' = [call EXCEPT ![w] = IF Acceptable(id)
                                     THEN [Idle EXCEPT !.at = "cbSubject", !.id = id]
                                     ELSE Idle]
    /\ UNCHANGED <<code, sent, account, state, begun, faults>>

\* findOrLinkOIDCUser: by subject, by email, or a new account.
CbSubject(w) ==
    /\ call[w].at = "cbSubject"
    /\ IF WithSubject(call[w].id.subject) # {} THEN Done(w) ELSE Go(w, "cbEmail")
    /\ UNCHANGED <<code, sent, account, state, begun, faults>>

CbEmail(w) ==
    /\ call[w].at = "cbEmail"
    /\ LET found == WithEmail(call[w].id.email)
       IN call' = [call EXCEPT ![w].at = IF found = {} THEN "cbCreate" ELSE "cbLink",
                               ![w].row = IF found = {} THEN 0 ELSE CHOOSE i \in found : TRUE]
    /\ UNCHANGED <<code, sent, account, state, begun, faults>>

LinkOIDCSubject(i, s) == account' = [account EXCEPT ![i].subject = s]

\* LinkOIDCSubject, over whatever subject the account had; the unique key
\* refuses a subject that another account has by now.
CbLink(w) ==
    /\ call[w].at = "cbLink"
    /\ IF WithSubject(call[w].id.subject) \subseteq {call[w].row}
       THEN LinkOIDCSubject(call[w].row, call[w].id.subject)
       ELSE UNCHANGED account
    /\ Done(w)
    /\ UNCHANGED <<code, sent, state, begun, faults>>

\* oidcIsAdmin.
RoleOf(e) == IF e \in AdminEmails THEN "admin" ELSE "user"

CbCreate(w) ==
    /\ call[w].at = "cbCreate"
    /\ Room
    /\ Insert([email |-> call[w].id.email, subject |-> call[w].id.subject,
               role |-> RoleOf(call[w].id.email), by |-> "oidc"])
    /\ Done(w)
    /\ UNCHANGED <<code, sent, state, begun, faults>>

\* Where a request goes on after a statement whose error it ignores or takes
\* for a row that is not there.
AfterError ==
    [sendExpire |-> "sendCreate", regFind |-> "regCreate",
     cbSubject |-> "cbEmail", cbEmail |-> "cbCreate"]

\* A statement fails or its process dies; what was written stays.
Fault(w) ==
    /\ call[w].at # "idle"
    /\ faults < MaxFaults
    /\ faults' = faults + 1
    /\ \/ Done(w)
       \/ call[w].at \in DOMAIN AfterError /\ Go(w, AfterError[call[w].at])
    /\ UNCHANGED <<code, sent, account, state, begun>>

-----------------------------------------------------------------------------

\* The HTTP handlers, with what a request may bring.
sendCode(w) == \E e \in Email, sc \in Scene : SendAllow(w, e, sc)

register(w) == \E e \in Email, v \in CodeValue : RegVerify(w, e, v)

oidcCallback(w) == \E s \in state : CbConsume(w, s)

\* And how the service goes on.
SendCode(w) == SendExpire(w) \/ SendCreate(w)

Register(w) == RegInc(w) \/ RegMark(w) \/ RegFind(w) \/ RegCreate(w)

CompleteAuth(w) == CbExchange(w) \/ CbSubject(w) \/ CbEmail(w) \/ CbLink(w) \/ CbCreate(w)

Next ==
    \/ \E w \in Worker :
         \/ sendCode(w) \/ register(w) \/ oidcCallback(w)
         \/ SendCode(w) \/ Register(w) \/ CompleteAuth(w)
         \/ Fault(w)
    \/ WindowEnds
    \/ CodeExpires
    \/ BeginAuth
    \/ StateExpires
    \/ \E e \in Email, role \in SeedRoles : SeedAdmin(e, role)

Spec == Init /\ [][Next]_vars

-----------------------------------------------------------------------------
(* Properties.                                                             *)

\* An account that Register made belongs to an address a registration code was
\* sent to and spent for; one that OIDC made belongs to an address the
\* allow-lists admit (the account is written statements after both checks).
AccountsAreProven ==
    \A i \in DOMAIN account :
        /\ account[i].by = "code" =>
             \E c \in DOMAIN code : code[c].email = account[i].email
                                    /\ code[c].scene = "register" /\ code[c].used
        /\ account[i].by = "oidc" => Allowed(account[i].email)

\* A code takes no more wrong guesses than the limit and the requests that
\* were under way together when it was reached (verifyCode reads the counter
\* and adds to it in two statements).
GuessesBounded ==
    \A c \in DOMAIN code : code[c].attempts < AttemptLimit + Cardinality(Worker)

\* A counter of SendCode that counted has its expiry, or its first request is
\* about to set it: an address is refused for longer than the window only
\* after a fault between INCR and EXPIRE (Limiter.Allow).
CountersExpire ==
    \A k \in DOMAIN sent :
        sent[k].n > 0 /\ ~sent[k].expires
        => \/ faults > 0
           \/ \E w \in Worker : /\ call[w].at = "sendExpire"
                                /\ <<call[w].email, call[w].scene>> = k
=============================================================================
