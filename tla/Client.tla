------------------------------- MODULE Client -------------------------------
(***************************************************************************)
(* The Go SDK and the command line tool on it (sdk/go/proxyvpn,            *)
(* sdk/cli/proxyvpnctl), composed with the sessions of the server: calls   *)
(* with an access token, the refresh when it is refused, logins and        *)
(* logouts, and the file in which the tool keeps its tokens.               *)
(*                                                                         *)
(* A Client may be used by several goroutines.  One action is one section  *)
(* under the client's mutex or one request; on the server a request is the *)
(* steps of module Sessions.  A pair of tokens is the number of its row in *)
(* session, 0 is none.                                                     *)
(***************************************************************************)
EXTENDS Sessions

CONSTANTS
    Caller,    \* goroutines that use the client
    AuthCodes  \* with which code a server refuses an access token

ASSUME ClientAssumption == AuthCodes \subseteq Nat

VARIABLES
    client,  \* the tokens the Client holds, and tokenVersion
    file,    \* the tool's credentials file
    req,     \* each goroutine: where its call is, and its locals
    code,    \* what this server answers (never changes)
    made,    \* by pair: the refresh token it was made from, 0 by a login
    lost     \* pairs whose answer was lost

clientVars == <<client, file, req, code, made, lost>>
allVars == <<vars, clientVars>>

\* The SDK's ErrAccessTokenInvalid.
ErrAccessTokenInvalid == 40101

\* pair, refresh, version: what the call read under the mutex; got: the pair
\* of the server's answer; second: the call was sent again.
Ready == [at |-> "idle", op |-> "none", pair |-> 0, refresh |-> 0, version |-> 0,
          got |-> 0, worker |-> "none", second |-> FALSE]

Nothing == [access |-> 0, refresh |-> 0, version |-> 0]

\* A pair of tokens, or none.
Pairs == 0 .. Len(session)

ClientCall == [at : {"idle", "login", "send", "request", "refused", "check", "refresh",
                     "waiting", "store", "clear", "save"},
               op : {"none", "login", "logout", "call"},
               pair : Pairs, refresh : Pairs, version : Nat, got : Pairs,
               worker : Worker \cup {"none"}, second : BOOLEAN]

ClientTypeOK ==
    /\ client \in [access : Pairs, refresh : Pairs, version : Nat]
    /\ file \in Pairs
    /\ req \in [Caller -> ClientCall]
    /\ \A c \in Caller : req[c].at \in {"check", "refresh"} => req[c].refresh # 0
    /\ code \in AuthCodes
    /\ made \in Seq(Nat)
    /\ lost \subseteq Pairs

\* Whether this behaviour is about clients, and of which kind.
Clients == mix \cap {"client", "cli"}

ClientInit ==
    /\ Init
    /\ client = Nothing
    /\ file = 0
    /\ req = [c \in Caller |-> Ready]
    /\ code \in AuthCodes
    /\ Clients = {} => code = ErrAccessTokenInvalid
    /\ made = <<>>
    /\ lost = {}

Quiet == \A c \in Caller : req[c].at = "idle"

\* A call that is sent once more; what it read before is of no use to it.
Again(r) == [Ready EXCEPT !.at = "send", !.op = r.op, !.second = TRUE]

\* A call ends.  Logout forgets the tokens however it ended.
End(r) == IF r.op = "logout" THEN [Ready EXCEPT !.at = "clear"] ELSE Ready

-----------------------------------------------------------------------------
(* The client's fields.                                                    *)

\* With the first refresh token left in place.
KeepRefresh(pair) ==
    [access |-> pair, refresh |-> IF client.refresh = 0 THEN pair ELSE client.refresh,
     version |-> client.version + 1]

WithTokens(pair) == [access |-> pair, refresh |-> pair, version |-> client.version + 1]

\* newClient of the tool: a new process, with the tokens of the file if there is one.
newClient == IF file = 0 THEN Nothing ELSE [access |-> file, refresh |-> file, version |-> 1]

\* A bound: a program logs in while it holds no tokens, before its other calls.
LoginRoom == client.refresh = 0 /\ Quiet

\* A goroutine begins an operation, with the fields of client'.
Begin(c, op) ==
    /\ req[c].at = "idle"
    /\ op = "logout" => client'.refresh # 0
    /\ req' = [req EXCEPT ![c] = [Ready EXCEPT !.at = IF op = "login" THEN "login" ELSE "send",
                                               !.op = op]]
    /\ UNCHANGED <<vars, file, code, made, lost>>

\* A method of a Client that goroutines share.
Method(c, op) ==
    /\ Clients = {"client"}
    /\ op = "login" => LoginRoom
    /\ UNCHANGED client
    /\ Begin(c, op)

\* A command of the tool is a process; here one at a time.
Command(c, op) ==
    /\ Clients = {"cli"}
    /\ Quiet
    /\ client = Nothing
    /\ client' = newClient
    /\ Begin(c, op)

\* The process goes on with another call.
NextCall(c) ==
    /\ Clients = {"cli"}
    /\ Quiet
    /\ client # Nothing
    /\ UNCHANGED client
    /\ Begin(c, "call")

-----------------------------------------------------------------------------
(* Requests.                                                               *)

\* doRaw reads the access token under the mutex, and sends the request.
Send(c) ==
    /\ req[c].at = "send"
    /\ req' = [req EXCEPT ![c].at = "request", ![c].pair = client.access]
    /\ UNCHANGED <<vars, client, file, code, made, lost>>

\* The server lets the call pass, and it is over.
Answered(c) ==
    /\ req[c].at = "request"
    /\ req[c].op = "call"
    /\ req[c].pair # 0
    /\ AuthRequired(req[c].pair)
    /\ req' = [req EXCEPT ![c] = Ready]
    /\ UNCHANGED <<lockoutVars, sessionVars, call, guesses, client, file, code, made, lost>>

\* It begins the logout, and answers when its statements are done.  A bound: the
\* SET of the blacklist fails in the mixes of Sessions only.
LogoutServed(c, w) ==
    /\ req[c].at = "request"
    /\ req[c].op = "logout"
    /\ req[c].pair # 0
    /\ LogoutBlacklist(w, req[c].pair)
    /\ req' = [req EXCEPT ![c].at = "waiting", ![c].worker = w, ![c].pair = 0]
    /\ UNCHANGED <<client, file, code, made, lost>>

\* The call came with a token that is good.
Passes(c) == req[c].pair # 0 /\ Accepted(req[c].pair)

\* It refuses the access token: the call is not sent a third time.
Refused(c) ==
    /\ req[c].at = "request"
    /\ ~Passes(c)
    /\ req' = [req EXCEPT ![c] = IF req[c].second THEN End(@) ELSE [@ EXCEPT !.at = "refused"]]
    /\ UNCHANGED <<vars, client, file, code, made, lost>>

\* An answer that is lost is no APIError: the call ends with it.
RequestLost(c) ==
    /\ req[c].at = "request"
    /\ faults < MaxFaults
    /\ faults' = faults + 1
    /\ req' = [req EXCEPT ![c] = End(@)]
    /\ UNCHANGED <<lockoutVars, sessionVars, call, guesses, client, file, code, made, lost>>

\* doWithRetry goes on only with the code it knows and a refresh token.
ReadRefresh(c) ==
    /\ req[c].at = "refused"
    /\ req' = [req EXCEPT ![c] =
         IF code = ErrAccessTokenInvalid /\ client.refresh # 0
         THEN [@ EXCEPT !.at = "check", !.pair = 0, !.refresh = client.refresh, !.version = client.version]
         ELSE End(@)]
    /\ UNCHANGED <<vars, client, file, code, made, lost>>

\* refreshLocked: when another call has stored tokens since, they will do.
CheckVersion(c) ==
    /\ req[c].at = "check"
    /\ req' = [req EXCEPT ![c] = IF client.version # req[c].version THEN Again(@)
                                 ELSE [@ EXCEPT !.at = "refresh", !.version = 0]]
    /\ UNCHANGED <<vars, client, file, code, made, lost>>

\* It released the mutex, and asks for a new pair.
RefreshServed(c, w) ==
    /\ req[c].at = "refresh"
    /\ RefreshFind(w, req[c].refresh)
    /\ req' = [req EXCEPT ![c].at = "waiting", ![c].worker = w, ![c].refresh = 0]
    /\ UNCHANGED <<client, file, code, made, lost>>

RefreshRefused(c) ==
    /\ req[c].at = "refresh"
    /\ ~IsActive(req[c].refresh)
    /\ req' = [req EXCEPT ![c] = End(@)]
    /\ UNCHANGED <<vars, client, file, code, made, lost>>

LoginServed(c, w) ==
    /\ req[c].at = "login"
    /\ \E u \in User : LoginStart(w, u, user[u].password, 0)
    /\ req' = [req EXCEPT ![c].at = "waiting", ![c].worker = w]
    /\ UNCHANGED <<client, file, code, made, lost>>

\* What the goroutine that waits for request w hears of a step of the server.
Heard(r, w) ==
    LET got == IF Len(session') > Len(session) THEN Len(session') ELSE r.got
    IN IF call'[w].at # "idle" THEN [r EXCEPT !.got = got]
       ELSE IF got > 0 THEN [r EXCEPT !.got = got, !.at = "store", !.worker = "none"]
       ELSE End(r)

\* A step of the server.  A bound: the statements of a login do not fail here.
ServerStep(w) ==
    /\ \/ LoginStep(w)
       \/ SessionStep(w)
       \/ call[w].op # "login" /\ Fault(w)
    /\ made' = IF Len(session') > Len(session) THEN Append(made, call[w].session) ELSE made
    /\ req' = [c \in Caller |-> IF req[c].at = "waiting" /\ req[c].worker = w
                                THEN Heard(req[c], w) ELSE req[c]]
    /\ UNCHANGED <<client, file, code, lost>>

\* The answer with the new pair does not arrive.
AnswerLost(c) ==
    /\ req[c].at = "store"
    /\ faults < MaxFaults
    /\ faults' = faults + 1
    /\ lost' = lost \cup {req[c].got}
    /\ req' = [req EXCEPT ![c] = End([@ EXCEPT !.got = 0])]
    /\ UNCHANGED <<lockoutVars, sessionVars, call, guesses, client, file, code, made>>

\* After a login the call is over, after a refresh it is sent again.
Store(c) ==
    /\ req[c].at = "store"
    /\ client' = WithTokens(req[c].got)
    /\ req' = [req EXCEPT ![c] =
         IF req[c].op # "login" THEN Again(@)
         ELSE IF "cli" \in mix THEN [@ EXCEPT !.at = "save"] ELSE Ready]
    /\ UNCHANGED <<vars, file, code, made, lost>>

\* Logout's last step; the tool then removes its file.
Clear(c) ==
    /\ req[c].at = "clear"
    /\ client' = [WithTokens(0) EXCEPT !.version = @]
    /\ file' = IF "cli" \in mix THEN 0 ELSE file
    /\ req' = [req EXCEPT ![c] = Ready]
    /\ UNCHANGED <<vars, code, made, lost>>

-----------------------------------------------------------------------------
(* The tool.                                                               *)

\* Only login saves the tokens.
persistTokens(c) ==
    /\ req[c].at = "save"
    /\ file' = client.refresh
    /\ req' = [req EXCEPT ![c] = Ready]
    /\ UNCHANGED <<vars, client, code, made, lost>>

\* The process of a command ends, with the tokens that it holds.
Exit ==
    /\ "cli" \in mix
    /\ Quiet
    /\ client # Nothing
    /\ client' = Nothing
    /\ UNCHANGED <<vars, file, req, code, made, lost>>
-----------------------------------------------------------------------------
doRaw(c) == Send(c) \/ Answered(c) \/ Refused(c) \/ RequestLost(c)

doWithRetry(c) == doRaw(c) \/ ReadRefresh(c)

refreshLocked(c) ==
    \/ CheckVersion(c)
    \/ \E w \in Worker : RefreshServed(c, w)
    \/ RefreshRefused(c)
    \/ AnswerLost(c)
    \/ Store(c)

LoginPassword(c) == Method(c, "login") \/ \E w \in Worker : LoginServed(c, w)

Logout(c) == Method(c, "logout") \/ (\E w \in Worker : LogoutServed(c, w)) \/ Clear(c)

\* Every other method of the SDK is one call through do.
Me(c) == Method(c, "call")

loginCmd(c) == Command(c, "login") \/ persistTokens(c)

logoutCmd(c) == Command(c, "logout")

\* me, and the other commands of one call.
meCmd(c) == Command(c, "call")

\* pay, which polls the order when it is told to watch, and sub.
payCmd(c) == meCmd(c) \/ NextCall(c)

ClientStep(c) ==
    \/ Me(c) \/ LoginPassword(c) \/ Logout(c)
    \/ loginCmd(c) \/ logoutCmd(c) \/ payCmd(c)
    \/ doWithRetry(c) \/ refreshLocked(c)

\* A bound: refresh tokens, which live for days, expire for the tool only.
ClientNext ==
    \/ Clients = {} /\ Next /\ UNCHANGED clientVars
    \/ Clients # {} /\ \E c \in Caller : ClientStep(c)
    \/ Clients # {} /\ \E w \in Worker : ServerStep(w)
    \/ Clients = {"cli"} /\ RefreshExpires /\ UNCHANGED clientVars
    \/ Clients # {} /\ Tick /\ UNCHANGED clientVars
    \/ Exit

ClientSpec == ClientInit /\ [][ClientNext]_allVars

-----------------------------------------------------------------------------
(* Properties.                                                             *)

\* An access token somebody logged out with passes AuthRequired only when the
\* look-up of the blacklist fails, whose error it drops: the entry lives until
\* the token would be refused anyway.
LetIn(i) ==
    \/ \E w \in Worker : \/ LogoutBlacklist(w, i)
                        \/ \E old \in 1 .. MaxPassword : ChangeFind(w, i, old)
                        \/ EnrollFind(w, i)
                        \/ \E n \in 1 .. MaxSecret : VerifyFind(w, i, n) \/ DisableFind(w, i, n)
    \/ \E c \in Caller : req[c].pair = i /\ Answered(c)

LoggedOutStaysOut ==
    [][\A i \in DOMAIN session : session[i].out
         => /\ LetIn(i) => faults' = faults + 1
            /\ (\E w \in Worker : LogoutUnlisted(w, i)) => faults' = faults + 2]_allVars

\* While no call runs, the refresh token that a Client holds is not one that was
\* exchanged for a pair already, but for a pair whose answer was lost; and with
\* no failure, and nobody logged out, it works.  However the calls of several
\* goroutines interleave, and whichever of two pairs made from one token
\* is stored last.  (Of the tool's file this is not true: a command that
\* refreshes does not save what it got.)
HeldIsUsable ==
    Clients = {"client"} /\ Quiet
    => /\ \A i \in DOMAIN made : made[i] # 0 /\ made[i] = client.refresh => i \in lost
       /\ /\ client.refresh # 0 /\ faults = 0
          /\ \A i \in DOMAIN session : ~session[i].out
          => IsActive(client.refresh)

\* The pairs made from the refresh token of a row, and the requests for more.
Exchanged(i) == {j \in DOMAIN made : made[j] = i}

Exchanging(i) ==
    {w \in Worker : call[w].op = "refresh" /\ call[w].session = i}

\* From one refresh token the server makes no more pairs than requests run at
\* one time, since it reads the row and revokes it in two statements, where the
\* SDK's docs promise one refresh for any number of goroutines.  And a client of
\* a server that answers with another code than the SDK's, as this one does,
\* never refreshes, where the docs say that it does so transparently.
ExchangesBounded ==
    Clients # {} => \A i \in DOMAIN session :
      Cardinality(Exchanged(i)) + Cardinality(Exchanging(i))
        <= IF code = ErrAccessTokenInvalid THEN Cardinality(Worker) ELSE 0
=============================================================================
