# TLA+ models of the proxy platform

This directory is a verification development of the Go services under `src/`:
TLA+ modules translated from the source, TLC configurations that check them on
small instances, and proofs that TLAPS checks for every value of the constants.
Modelled are the money path (an order, the attempts to pay for it, what is
delivered for it), accounts, sessions, nodes, traffic, tickets, the SLA roll-up and
the Go SDK. Every invariant and action property that a run checks is also a theorem,
for every value of the constants; the liveness properties are model-checked only.

    tlasany M.tla                               parse a module
    tlc -workers 2 -config Orders_core.cfg MCOrders    model-check (likewise the others)
    tlapm M.tla                                 check the proofs of M

| Module | Extends | What it is |
|---|---|---|
| `OrderLife` | | what billing promises of an order, without its statements |
| `Orders` | instantiates `OrderLife` | internal/billing: the order life cycle, one action per statement |
| `Payments` | `Orders` | internal/payment, the providers and the scanner on top of it |
| `UsdtScanner` | | the USDT scanner: blocks, forks, batches and the cursor |
| `Tickets` | | internal/ticket: owners and staff, whole-row saves |
| `SignUp` | | internal/user: codes, Register, single sign-on, seed-admin |
| `Lockout` | | internal/risk: the login lockout in Redis |
| `Sessions` | `Lockout` | internal/user: logins, tokens, passwords, second factor |
| `Client` | `Sessions` | sdk/go and proxyvpnctl against that server |
| `Nodes` | | internal/node and cmd/node-agent: registry, heartbeats, configurations, subscriptions |
| `Traffic` | | internal/traffic: usage, quotas, bans, sinks |
| `Sla` | | internal/sla: probes and the daily roll-up under the queue |
| `MC...` | the above | the instances that TLC checks |
| `PaymentsProofs` | `Payments` | the order life cycle; Orders implement OrderLife; Payments implement Orders; whose money pays for what |
| `UsdtScannerProofs` | `UsdtScanner` | no transfer is skipped or taken back |
| `TicketsProofs` | `Tickets` | who speaks and who reads; how long a close and an assignment last |
| `TrafficProofs` | `Traffic` | the sums of counted items; the events in the sinks |
| `SignUpProofs` | `SignUp` | what accounts rest on; how often a code is guessed |
| `SessionsProofs` | `Client` | revocation, passwords, the second factor, the lockout; the client's tokens |
| `NodesProofs` | `Nodes` | when a node goes offline; what an agent takes for known |
| `SlaProofs` | `Sla` | the report counts each probe once |

## 1. Inventory

Four kinds of process share one MySQL and one Redis: `cmd/api` (every user's and
node's request, the order sweep and the stale-node marker), `cmd/worker` (asynq
tasks: both of these again, the payment sweep, reconciliation, ban recomputation,
SLA probes and roll-up), `cmd/admin` and `cmd/user-web` (consoles), and
`cmd/node-agent` on each proxy node. The USDT scanner is complete code but no
process starts it at this commit: the worker has a 15 s task for it whose step is
left nil until live providers are configured (`cmd/worker/main.go:148`), and
`cmd/usdt-watcher` is a placeholder. The models run it as that task would.
Nothing is locked across statements: a handler runs in a goroutine
per request, and each repository call is a statement (a transaction of its own).
What the models call a *handler* or *worker* is such a goroutine; what they call
a *step* is one statement (or one Redis command, or one HTTP round trip) with
the code up to the next one.

| Component | State | Operations | Talks to | What is hard | What makes it correct |
|---|---|---|---|---|---|
| billing, orders (`internal/billing`) | `orders`, `coupons.used_count` | CreateOrder, QuoteCoupon, CancelOrder, HandlePaid/MockPay, ExpirePending | called by payment; calls user (ApplyPlan/Pack/Topup) | test and write in separate statements; two sweeps; dropped errors; no transaction around HandlePaid | the statements implement a life cycle; one order per key; the coupon's uses are counted; final orders stay final; nothing waits for ever |
| payment (`internal/payment`) | `payments`, `payment_addresses` | CreatePayment, HandleNotify, USDTReceived, ExpireOldPending, ReconcileChannel | providers, scanner; calls billing | repeated, late, concurrent callbacks; unique index; address pool; death between MarkPaid and HandlePaid | money settles its payer's order only; a paid row is kept; success is answered only for recorded money; addresses are one-time |
| providers (alipay, wechat, mock, usdt) | none | Create, VerifyNotify, Query | gateways, chain | when the trade number is known | what they tell the service is about the attempt that was charged |
| USDT scanner (`provider/usdt`) | `chain_scan_cursor` | Step, RunLoop | payment | overlapping Steps; forks; a first cursor | no confirmed transfer is skipped |
| traffic (`internal/traffic`) | `users.traffic_used`, `banned`, daily rows, Redis ban set, ClickHouse | ReportUsage, RecomputeBans, CurrentBans, sink fallback | node-agent, billing, administrators | two reports, a recomputation and a new plan race for the flag | no byte is lost or counted twice; each event is in a sink; the flag follows the quota in the end |
| node (`internal/node`) | `nodes` (token hash, status, last heartbeat) | CRUD, AgentRegister, AgentHeartbeat, MarkStale, AgentConfig, Subscription | node-agent, user | statements of heartbeat and marker cross | a node that beats is online; what a subscription lists is served |
| node-agent (`cmd/node-agent`) | known hash, file, running configuration, ban list | pull and apply, heartbeat, traffic upload | node, traffic | a reload fails after the hash was taken over; crashes between the steps | the running configuration is in the end the server's |
| user (`internal/user`) | users, sessions, codes, TOTP, OIDC states | SendCode, Register, Login, Refresh, Logout, ChangePassword, TOTP, OIDC | risk | read-compare-mark of codes; refresh against revocation; enrolment against verification | an account rests on a spent code or an allow-list; what was revoked stays revoked; the factor in use is proven |
| risk (`internal/risk`) | Redis fail and lock counters, devices | PreLogin, RegisterLoginFailure/Success, rotation | user | INCR then EXPIRE; check and count apart | guesses are bounded by threshold and concurrency |
| ticket (`internal/ticket`) | tickets, messages | Create, Reply, Close, AdminPatch, Assign, lists | | read and save of the whole row | a closed ticket and an assignment are undone only by who read the row before |
| sla (`internal/sla`) | probes, daily rows | RunOnce, Record, RollupDay, Summary | worker's queue | repeated, overlapping and late roll-ups | a day that was rolled up shows each probe once |
| sdk, cli (`sdk/go`, `sdk/cli`) | token pair, version, credentials file | calls, refresh and retry, login, logout | user | goroutines refused together; lost answers | a client at rest holds a token that works; one refresh token makes few pairs |
| report, audit | read-only SQL; log rows | | | none | |
| `internal/pkg`, `cmd/*` wiring, `web` | none of the system's | | | | environment of the models |

`PROJECT.json` lists the hazards of this code one by one, at the line where each
bites, with the property that covers it or the reason why none does.

## 2. Plan

Done, in this order: `Orders` with its runs and proofs; `Payments` composed on top
of it (it `EXTENDS Orders` and runs its actions inside its own); the refinement
`Payments => Orders`; the safety theorems of both; `UsdtScanner` with its theorems;
`Tickets`; `SignUp`; `Lockout` and `Sessions` (a composition: Login runs the
lockout's commands); `Nodes`, registry and agents together; `Traffic`;
`OrderLife` with the refinement `Orders => OrderLife`; `Client` composed with
`Sessions`; `Sla`.

Then the proofs, of the components in the order of what rests on them: orders and
payments, the scanner, tickets, traffic, sign-up, sessions, clients, nodes, SLA. The
modules are written for them: no `RECURSIVE` operator, parameters as constants with
named assumptions, one action per statement, invariants as named conjuncts.

Left: refinements of the smaller components (an abstract session that is open or
over, a counter that only grows, below `Sessions` and `Traffic`), as `OrderLife`
is for `Orders`; and the paths section 9 lists as not modelled, of which
`ReconcileChannel` becomes worth a module as soon as the worker is given providers.

## 3. `Orders`

| TLA+ | Code |
|---|---|
| `status`, `req`, `paidAt`, `paidCNY` | the columns of `orders` (`req` holds user, idempotency key and whether a coupon was used) |
| `life[o]` | now against `expire_at`: `live` before it, `due` at that instant, `past` after it |
| `applied[o]` | how often ApplyPlan/Pack/Topup added this order to the user's row (a ghost of `users`) |
| `couponUsed` | `coupons.used_count` of the one coupon |
| `answered[u,k]` | a ghost: the orders that CreateOrder calls of that user and key returned |
| `pc`, `cur`, `want` | where a handler stands between two statements, its order, its request |
| `faults` | statements that failed and handlers that died so far, bounded by `MaxFaults` |
| `CreateFindHit/Miss/Fails` .. `CreateConflict` | service.go CreateOrder and QuoteCoupon |
| `PaidFind`, `PaidMark`, `PaidCoupon`, `PaidApply` | HandlePaid and applyOrderEffects |
| `CancelFind`, `CancelWrite` | CancelOrder |
| `ExpirePending`, `Elapse`, `Fault` | the sweep, the clock, a failed statement or a dead process |

The three phases of `life` matter: `IsPayable` is `now < expire_at` and the sweep's
is `expire_at < now`, so that at that instant an order is neither payable nor
overdue. Errors the code drops (FindByIdempotency, CountUsedByUser, FindByCode and
IncrementUsage) are actions of their own that go on; every other error is `Fault`.
Prices and entitlements are not computed: `paidCNY` is only whether it is zero.

Safety. `ImplementsLife` is the refinement: with `stage` read as `status`, `delivered`
as `applied` and `holders[o]` as the handlers that found o pending and are not done
with it (`Writers(o)`), every behaviour of `Orders` is one of `OrderLife`. It says in
one formula what statements may do to an order between them: only who found it
pending may settle, deliver or cancel it, each such handler delivers once at most,
and the sweep ends pending orders only. It also shows what the code does *not*
promise: two holders may both deliver, and one may cancel what the other delivered.
`EffectBudget` is the strongest bound on double delivery that the code gives: every order's effects
are applied at most once per handler that can run at one time. `IdempotentCreate`
is the promise of the idempotency key for racing calls with dropped errors.
`CouponUsesCounted` relates a counter to the orders it
counts, minutes apart (that it stays within `total_quota`, `CouponWithinQuota`, is the
guard of one UPDATE and only proved). `RowsAgree` relates status, date, money and
delivery; the proofs rest on it. `ClosedIsFinal` is an action property: an order that is
final *and that no running call has read while it was pending* never changes.
The condition is what the code needs: without it a CancelOrder that read the order
pending cancels one that was paid and delivered meanwhile.

Liveness. `PendingEnds` and `PaidDelivers` need: a running handler goes on
(`WF(Step(h))`: goroutines are scheduled and statements return), the minute
ticker fires (`WF(ExpirePending)`) and time passes (`WF(Elapse(o))`). Clients owe
nothing: no fairness on calls.

## 4. `Payments`

| TLA+ | Code |
|---|---|
| `payment[p]` | the `payments` row with id p; `live` is `now < expired_at` |
| `pool[a]` | `payment_addresses.status` |
| `charged` | the environment: attempts whose customer paid at the gateway or on chain |
| `acked` | a ghost: charges whose notification was answered with success |
| `mocked` | a ghost: orders that a call of mock-pay found payable |
| `load` | what an instance lets one behaviour take on: orders, calls at one time, channels, failures (no state of the code) |
| `call[h]` | where a handler stands in CreatePayment or applyVerified, with its order, channel, address, row and the charge it was told about |
| `PayFind`, `ProviderCreate`, `PayInsert` | CreatePayment with the provider's Create and the pool's Allocate |
| `HandleNotify`, `USDTReceived` | how a notification comes in |
| `MockPay`, `OrderCall` | the routes of billing that run beside it |
| `Lookup`, `Fallback`, `SetTradeNo`, `MarkPaid`, `MarkUsed`, `Bill`, `Billing` | applyVerified, statement by statement; `Billing` runs HandlePaid's actions of `Orders` |
| `ExpireOldPending`, `PayElapse`, `PayFault` | the sweep, the clock, failures |
| `Charge`, `TradeOf` | external: gateways and chain, as the code relies on them |

Trade numbers are named by what fixes them. Alipay and wechat have one trade per
`out_trade_no`, which is our *order* number, and tell it in the callback only;
the mock provider mints one per attempt at once; a USDT hash belongs to the
attempt whose address was paid. That is where attempts are confused if they are:
`TradeOf` of two attempts of an order through alipay is the same. The unique index
on (channel, channel_trade_no) is modelled with the empty string as a value, as
the repository stores it.

A gateway repeats a notification at will, also concurrently and after the window
(`HandleNotify` is enabled for every charge for ever). The scanner's calls overlap as
well: `Scanner.RunLoop` is serial, but the worker's queue runs eight tasks at one
time and service.go:216-232 has no lock, so `USDTReceived` is enabled whenever a row
waits at the address.

That has a consequence. UpdateTradeNo (repo.go:170) writes by id, so that a handler that
picked a USDT row while it was pending writes its own hash after another transfer has
settled the row. `PaidPaymentIsKept` says that this is all: status, order, channel and
address of a paid row stay, the hash changes on USDT only, only by a handler that came to the
row before it was paid, and to the hash of that handler's transfer, which is another one of the
same customer (`MoneyGoesToPayer`). The record of the first transfer is gone then:
`AckMeansRecorded` therefore promises a paid order or *a* paid payment of the
order on that channel, not the row of each transfer.

The route `/orders/:no/mock-pay` is part of the composition: it is mounted for every
logged-in user in every environment (cmd/api/main.go:248-249). `OrdersPaidByMoney` has it as
its second case, and says that no callback or observation settles any other order.

`AddressesUsedOnce` states what the code does with addresses: none is ever free again
once an attempt has it, whatever ExpireOldPending's comment says. The pool of a long-lived
installation runs dry; what the code has in return is that late money at an
expired attempt's address is never the next customer's.

`RefinesOrders` says that the composition drives the orders through the
actions of `Orders` only (the map is the identity on the variables of `Orders`).

Liveness. `PaidInTimeIsAcked` and
`OldAttemptsEnd` need: handlers go on, the sweep runs, and of the
gateway's endless repeats of a notification that was not answered with success
one is served in the end (strong fairness on `HandleNotify` for some handler: a
goroutine is created per request, so one is always free again). Time need not
pass.

## 5. `UsdtScanner`

| TLA+ | Code |
|---|---|
| `head`, `block[t]`, `Mine`, `Fork` | the chain as NowBlock and ListTRC20Transfers show it (external) |
| `cursor`, `seed` | `chain_scan_cursor.last_block` now and before the first Step, 0 without a row |
| `run[w]` | the locals of a Step between two of its calls |
| `handed` | a ghost: transfers that USDTReceived was called with |
| `StepNow`, `StepGet`, `StepList`, `StepHand`, `StepHanded`, `StepSet` | Step, call by call |
| `StepFails` | a call fails, or the process dies between two |

The tip, the cursor and the list are read one after the other, so that another
Step and the chain run in between; `Cursor.Set` is an unconditional upsert, so an
older Step can move the cursor back. `NothingSkipped` says that this is harmless:
the blocks between the first cursor and the present one have all been handed on.
It needs `ForkDepth <= Confirmations`, as `HandedIsFinal` does, which is what
confirmations are for. `ConfirmedIsHanded` (liveness; the queue starts Steps, their
calls return, and only finitely many die) holds once the cursor has a row.

Two things the scanner does *not* promise. Without a row it never starts
(`NoRowNoScan`): `from = tip`, `from++`, `from > tip`, return; nothing in the
repository writes the first row, and the test starts at a cursor of 100. And a
transfer whose USDTReceived failed is not offered again, since errors are swallowed
(usdt.go:165) and the cursor moves on: `handed` means called, not recorded.

## 6. The other components

### `Tickets`

| TLA+ | Code |
|---|---|
| `ticket[t]`, `message[t]` | the row of `tickets`, and the ticket's rows of `ticket_messages` |
| `call[w]` | a request between two statements: what it asks and the copy of the row it read |
| `answer` | what the last answer told whom |
| `UserReply`/`AdminReply` (`ReplyGet`), `ReplyAppend`, `ReplySave` | service.Reply: Get, AppendMessage, Update |
| `CloseGet`, `CloseSave`, `AdminPatch`, `AdminAssign` (`PatchGet`), `PatchSave` | Close, AdminPatch, Assign |
| `Create`, `ListMine`, `AdminList`, `GetRow`, `ListMessages` | the others, with the page sizes and filters of Repo.List |

`Repo.Update` saves the whole row, so that of two requests the later one undoes the
columns of the earlier. `ClosedStaysClosed` and `AssignmentSticks` state how far this
goes: a close or an assignment is undone only by a request that read the row before.
`PeopleAreWhoTheySay`: who speaks as the owner is, who speaks as support is staff,
and answers show a customer only the customer's own tickets.

### `SignUp`

`code`, `account` and `state` are the tables `email_codes` and `users` and the OIDC states in
Redis; `sent` is SendCode's limiter with whether its key expires. `RegVerify`, `RegInc`,
`RegMark`, `RegFind`, `RegCreate` are Register with verifyCode; `CbConsume` .. `CbCreate` are
the OIDC callback (consume, exchange, allow-lists, find by subject, find by e-mail,
link, create); `SeedAdmin` is cmd/seed-admin. The unique keys of `users` decide races.
`AccountsAreProven` relates each account to the code or the allow-list behind it.
`GuessesBounded` is the bound that two statements (read the counter, add to it) leave:
the limit and the requests under way. `CountersExpire`: a limiter's key is without
an expiry only for a moment, or after a fault between INCR and EXPIRE.

### `Lockout`, `Sessions` and `Client`

`Lockout` keeps a Redis key with the time it has left; `RedisTick` lets one unit pass.
`Sessions` extends it: `LoginStart` .. `LoginReset` are Login with PreLogin, the check
and RegisterLoginFailure/Success as separate commands; `session[i]` is a row of
`refresh_tokens` together with the access token issued beside it (time to its exp,
time its blacklist entry has left). `RefreshFind`, `RefreshRevoke`, `RefreshCreate`;
`LogoutBlacklist`, `RevokeAll`; `ChangeFind`, `ChangeWrite`, `RevokeAll`; `EnrollFind/Write`,
`VerifyFind/Write`, `DisableFind/Write` are the other requests, a statement each.
`GuessesBounded`: threshold, plus the logins past PreLogin together, plus lost counts.
`AuthRequired` is the middleware with the error that it drops: a token on the blacklist
passes when the look-up fails, which costs a fault of `MaxFaults`; `LogoutUnlisted` is a Logout
whose SET fails and that goes on to the refresh tokens. `LoggedOutStaysOut` says of every
step that lets a logged-out token pass that a look-up failed in it; that the entry itself
is there long enough is due to `Skew <= Grace` (`SkewWithinGrace`: half a minute and a
minute), and the mutant drops the minute. `OldPasswordsSessionsEnd` names the windows in which a
session outlives a change of password: it was being issued during it, or the
revocation failed, whose error ChangePassword drops. `SecretInUseWasProven` is about EnrollTOTP beside VerifyTOTP: the second writes the secret it
read, so that an enrolment in between is overwritten and not enabled. `FactorStaysOn` is about
the other order: the step that turns the factor off is the last statement of a request of that
account, either a DisableTOTP that gave a valid code or an EnrollTOTP that read the row
while the factor was off. The second is a race that turns the factor off without a code.

`Client` adds the SDK: `client` is what a `Client` holds under its mutex, `req[c]` a
goroutine's call. `Send`, `Refused`, `ReadRefresh`, `CheckVersion`, `RefreshServed`, `Store`,
`Again`, `End` are doWithRetry and refreshLocked, each one section under the mutex or one
request; requests are served by the actions of `Sessions`. `Command`, `persistTokens`,
`NextCall`, `Exit` are the tool, with its file. `HeldIsUsable`: a client at rest does not hold a refresh token that it
already spent, unless an answer was lost; and if nothing failed and nobody logged out, what it
holds works. Of two pairs made from one token whichever is stored last is as good as the other.
`ExchangesBounded`: refreshLocked (auth.go:95-103) lets go of the mutex before the request, so
that calls refused together each pass the version check and send a refresh, and the server
reads the row and revokes it in two statements, so that it may honour more than one of
them. From one token it makes as many pairs as requests run at one time, and the instance
reaches that. The comment there and docs/sdk.md:36 and 89 say one.
AuthRequired answers 4001 (middleware.go:22-33) while the SDK refreshes on 40101 (errors.go), so
against this server no refresh is ever sent, and a call ends refused once its access token
is over: `AuthCodes` has both codes, and with 4001 the bound of `ExchangesBounded` is 0. The
tool saves tokens at login only, so that a command that refreshes leaves a spent
refresh token in the file.

### `Nodes`

`node[n]` is the row; `agent[n]` and `disk[n]` are the agent's memory, its file and what its
proxy runs; `pull[n]` and `beats[n]` are requests under way; `mark[m]` is a marker between its
tick and its UPDATE. Time is counted in heartbeat intervals, kept as ages; `Lag` is how
long a statement may take. `CreateNode`, `UpdateNode`, `DeleteNode`, `UserChanges` are what
administrators do; `PullFind` .. `Reload` are AgentConfig and pullAndApply. `RenderXray`,
`RenderSingBox`, `V2Ray`, `Clash`, `SingBox` say which inbounds a configuration or a
subscription contains. `OfflineOnlyWhenSilent` relates a marker's write to the
heartbeats that crossed it. `ListedIsServed` and `BannedLeave` compare, once edits and faults
have ended, what users are told with what proxies run; a reload that failed is
excepted, since the agent remembers the hash first (configloop.go:93) and never tries
again, and so is an inbound that neither engine renders.
Fairness: the agent's tickers and its requests go on, the markers run, time passes.

### `Traffic`

`quota[u]` is the user's columns, `daily` the roll-up table, `ch` and `fallback` the sinks, `listed`
the Redis set and `known` an agent's copy. A report's items pass `UserIDByToken`,
`IncrTrafficUsed`, `ReadUsed`, `UpsertDaily`, `OverQuota`, `SetBanned`, `BansAdd`, and its
events `SinkWrite` or `FallbackWrite`; each may fail as the code lets it.
`RecomputeBans` is the worker's task, whose service has no ban set (worker/main.go:113).
`ApplyPlan`, `PackApplied`, `TrafficAdjusted`, `BannedByAdmin` are the other writers. Each item is one unit, so
that `UsageAddsUp` can count: `traffic_used` plus what plans forgave is the items that
were added. `FlagFollowsQuota` (liveness; reports finish, the task runs again and again)
says that no stale write of the flag stays. The list at the agents has no such
property: CurrentBans reads Redis only, although its comment (service.go:153-155)
promises a fall-back, and after the key expired nobody is listed until a new report.

### `Sla`

`probes` and `daily` are the tables, `queue` and `task` the worker's queue and its handlers.
`Schedule` is one scheduler per worker process; `Retry` puts a task that failed or died
back. `SLARollupDaily` takes the day when it *runs* (worker/main.go:162), so a task that
waits past midnight rolls up another day and its own is never rolled up: `done` holds
the days a roll-up went through, and `ReportCountsProbes` is about those, without the
days that got a probe after they were read. `CHECK_DEADLOCK FALSE`: the model ends
on its last day.

## 7. Runs

| Run | Instance | States | Shows |
|---|---|---|---|
| `orders_core` | 2 handlers, 2 orders, 2 keys, quota 1, 1 fault, fairness | 99 078 | `TypeOK`, `ImplementsLife`, four more of safety and two of liveness |
| `payments_channels` | 2 attempts, 2 addresses, mock-pay; 1 order and 2 calls at a time on USDT or mock with failures and on both without, 2 orders and 1 call with failures | 1 019 588 | `OrdersPaidByMoney`, `MoneyGoesToPayer`, `AckMeansRecorded`, `AddressesUsedOnce`, `PaidPaymentIsKept`, `RefinesOrders` |
| `payments_live` | 1 order, 3 attempts, QR, 2 handlers, mock-pay, fairness | 25 784 | `PaidInTimeIsAcked`, `OldAttemptsEnd` |
| `scanner_overlap` | 2 Steps, 2 transfers, 6 blocks, batches of 2, forks of 2, 1 death, fairness | 144 228 | `NothingSkipped`, `NoRowNoScan`, `HandedIsFinal`, `ConfirmedIsHanded` |
| `tickets` | 2 requests, 2 customers, 1 of staff, 1 ticket, 2 messages, 1 fault | 356 719 | `PeopleAreWhoTheySay`, `ClosedStaysClosed`, `AssignmentSticks` |
| `signup` | 2 requests, 2 addresses, 2 subjects, 1 code row, 1 OIDC login, limit 2, 1 fault | 218 780 | `AccountsAreProven`, `GuessesBounded`, `CountersExpire` |
| `sessions` | 1 account, 2 requests, 2 goroutines, threshold 2, five mixes, 2 logins a minute, 1 fault | 1 516 822 | the seven properties of `Sessions` and `Client` |
| `nodes` | 1 node, 1 user, 1 marker, timeout 2, lag 1, 3 edits and faults, fairness | 284 082 | `OfflineOnlyWhenSilent`, `ListedIsServed`, `BannedLeave` |
| `traffic` | 2 reports of 1 user, one served with ClickHouse and one without, quota 2, 1 edit, 1 fault, fairness | 528 668 | `UsageAddsUp`, `EventsSurvive`, `FlagFollowsQuota` |
| `sla` | 2 schedulers, 2 handlers, 2 targets, 3 days, 1 fault | 820 631 | `ReportCountsProbes` |
| `payments_refused` | 2 orders, alipay | violation | a waiting attempt blocks the channel's next INSERT |
| `payments_lost` | alipay, death after MarkPaid | violation | the repeat is answered with success and nothing is delivered |

Bounds. Two handlers are where every race of two calls lives, and since statements
are atomic the races of three are chains of those; the theorems remove the bound.
Two orders with two keys let requests collide on one key and differ on another;
quota 1 with two coupon orders meets the quota's edge. Two attempts meet each
other on one channel or on two; three in `payments_live` let one be settled, one refused
and one follow. `Loads` splits `payments_channels` into four kinds of behaviour, since all of
it at once is too large for TLC: two calls and failures on USDT, the same on the mock
channel, two calls on both channels without failures, and two orders with a call at a time and
failures, in which the money of one order could settle the other. `MaxPayments` caps the rows,
and `MaxFaults` the faults; a load with `faults` lets the payment part fail at every
statement without a cap. Symmetry is used in runs of safety and action properties only,
whose formulas treat the permuted values alike.
Six blocks with two confirmations leave four to scan in two batches of two, enough
for one Step to overtake another by a batch; the runs start with and without a
row, on a chain that is too young to have a tip and on one that is not.
One ticket is enough, as requests meet on a row only. `sessions` gives each behaviour
one mix of operations, because those of different mixes touch different columns:
guessing; refresh, logout and change of password; the second factor; a client of two
goroutines; the tool. Threshold 2 with two logins passes the threshold by one,
which is the edge of `GuessesBounded`. One fault is one failed look-up of the
blacklist; a failed look-up and a failed SET in one Logout take two, which the theorem covers. In the clients' mixes logins do not fail in the
server (`LoginRoom` bounds them), refresh tokens expire under the tool only, and the tool
runs one command at a time. `nodes` shares three edits and faults (create, then two
edits, one of each, or two faults): the stale hash needs an edit and a fault, the
crossing of marker and heartbeat a `Lag` of one below a timeout of two. The second marker
(api and worker both run one) writes the same statement and is left out of the instance.
Two reports of two items and one edit let a new plan come between the sum and the
flag. Three days leave two to report on, with a roll-up that is late by one.

The two violations are disagreements with what the repository says of itself;
the lines are quoted in `PROJECT.json` under "findings". So are the following, which a passing
run carries: its property states what the code does, and would fail if it said what the
repository says.

- `/orders/:no/mock-pay` is called "dev/test only" (handler.go:49, sdk/go/proxyvpn/payment.go:40) and is
  mounted in every environment: `OrdersPaidByMoney` needs its second case.
- USDT addresses are said to be released after success or expiry (payment service.go:203-204,
  payment.go:51-52); none ever is: `AddressesUsedOnce`, third conjunct.
- HandleNotify on a paid payment is called a no-op (service.go:116-117); the hash of a paid USDT row can
  still be overwritten: `PaidPaymentIsKept`, second case.
- A logged-out token is said to be invalid (middleware.go:16-17, `开发顺序与稳定性检查.md:100`); it
  passes while Redis fails: `LoggedOutStaysOut` counts the failures.
- Switching the second factor off is said to take a current code (`开发顺序与稳定性检查.md:99`,
  api.md:124); an enrolment that began before does not need one: `FactorStaysOn`, second case.
- Goroutines that refresh together are said to send one request (sdk.md:36, auth.go:95) and a
  used refresh token to be void at once (`开发顺序与稳定性检查.md:97`): `ExchangesBounded`.
- The SDK is said to refresh transparently (client.go:5, transport.go:21-22, sdk.md:35); with the code that
  this server answers it never refreshes: `ExchangesBounded` with 4001.

Met while modelling as well, and not made into findings, since theorems or properties already say how far
the promise goes:

- HandlePaid is called idempotent (service.go:280, ports.go:100): with one handler it is
  (`SerialIsIdempotent`), with several it delivers at most once each (`EffectBudget`).
- CancelOrder is for orders "before payment" (service.go:260): `SerialCancelsBeforePayment`, and `Cancel` in
  `OrderLife` for several.
- docs/architecture.md:176 puts order and delivery into one transaction; they are not in
  one, and a failure in between leaves a paid order that delivered nothing.
- payment.go:3-4 wants one attempt per order to reach paid; two can.
- CurrentBans and the tool's file: see 6.
- the comment of AutoCancelExpired says "cancelled" and the sweep writes `expired`;
  CreateOrder's comment speaks of a matching *pending* order and the code returns one of
  any status; `整体服务框架.md:210` describes a unique tail of the USDT amount that is not
  implemented; IncrementUsage's refusal is dropped, so that more orders than
  `total_quota` can be paid with the coupon's discount; the per-user limit counts paid
  orders only; AdjustTraffic (admin_user.go:89) clamps a deduction at 0, which the
  quota check reads as no limit; a PUT cannot set a node's status to 0, which gorm's
  Updates skips (repo.go:152, `Updated`).

## 8. Proofs

Assumptions. Each module names those of its constants, and TLC evaluates them in every
run. Most say only that bounds are naturals, that forms and requests are well formed
and that placeholders (`NoOrder`, `Nobody`, `Unknown` ..) are no values. The others:

- `OrdersAssumption`, `SignUpAssumption`, `SessionsAssumption`: orders, handlers and
  requests under way are finite sets (bounds are counted in them). No bound on their size.
- `LockoutAssumption`: `MaxCount`, where the model's counter stops, lies above the threshold.
- `ConfirmedBlocksAreFinal` (`ForkDepth <= Confirmations`) and `SkewWithinGrace`
  (`Skew <= Grace`): what confirmations and the minute of grace are for.
- `PaymentsAssumption`: the channels are those that the providers know.
- `NodesAssumption`: forms name a known engine or none (handler.go refuses others).
- `SlaAssumption`: at least one target (without one the worker probes nothing), and no two
  of one name (a duty of the configuration: equal names would share their rows).

One is in the models and not in the assumptions: a statement on a row is atomic.

`PaymentsProofs`
- `TypeCorrect`. `RowsCorrect` with the strengthening `CallsAgree`: what a handler
  that has marked an order may still assume of it (it is paid, or a late
  CancelOrder overwrote it).
- `EffectsBounded`: `EffectBudget` is inductive given the above: PaidFind adds a
  handler only while nothing was applied, PaidApply trades a handler for an
  application.
- `SerialIsIdempotent`, `SerialCancelsBeforePayment`: with one handler the two
  promises that concurrent handlers break do hold; what is wrong
  is the concurrency and nothing else.
- `OrdersImplementLife`: the refinement. `LifeStep` relates each action of `Orders` to a step or
  a stutter of `OrderLife` (`StepIsLifeStep`, one case per action); it needs the types and
  `RowsInvariant`, which say that a handler past its read still holds an order that exists.
- `ClosedOrdersAreFinal`, `QuotaHolds`, `UsesAreCounted` (a counting argument over
  `CouponPaid` and `AtCoupon`), `CreateIsIdempotent` (with `KeysInv`: one order per key,
  and each recorded answer is it).
- `PayTypeCorrect` and `PaymentsRefineOrders` rest on `PayInv`: types, rows are numbered
  1..k without gaps, calls point to rows that exist and to charges that happened.
  `StepIsOrderStep` is the refinement's step.
- `AddressesOnce`: a claimed address left the pool and is never free again (`AddrInv`).
- `MoneyIsPayers`, `OrdersArePaidFor`: `TradesInv` (each trade number on a row belongs to
  an attempt of the same order and channel) and `NotesInv` (a handler works for the order
  of the charge it was told about) are inductive together. FindByAddress finds
  the charged attempt because addresses are one-time; FindByChannelTradeNo finds
  its order because a trade number names one order.
- `OrdersArePaidFor` besides: a handler in HandlePaid that no callback sent came from
  MockPay, which notes its order (`MockInv`).
- `PaidPaymentsAreKept`: a handler picks only pending rows, so that none comes to a paid one
  (`Keeping`), and what UpdateTradeNo writes over a paid row is, on QR channels, the row's own
  number, fixed by the order, and on mock what the unique index allows, the same.
  On USDT it may be another hash, and the handler that writes it is the property's witness.
- `AcksAreRecorded`: success is answered in three places, each with a paid order or a paid
  row of the order and channel, and both stay by `PaidStays` and `PaidAtMoves`.
- `PaymentsKeepBudget`: `EffectBudget` below the payments, through the refinement.

`UsdtScannerProofs`
- `NoTransferSkipped`, `FreshScannerIsIdle`, `HandedStaysFinal` from `ScanInv`: at
  each Step everything before its batch was handed on (whatever the cursor is by
  now), its list is handed on or still to do, and what was handed on or is to be
  scanned is confirmed, so that no fork moves a transfer behind a cursor
  (`ChainKeepsConfirmed`). No bound on blocks, batches, Steps or transfers.

`TicketsProofs`
- `TypeCorrect`; `NobodyIsImpersonated` with `CallsAgree`, what the copy in a request
  still says of the row whatever others have saved since: the owner and no more, since
  every save keeps it (`OwnersStay`). That is enough, as the checks of Reply and Get look
  at nothing else.
- `ClosedIsFinal`, `AssignmentsLast`: whoever changes the column saves a whole row, and
  the row it saves is its copy with what it asked for.

`TrafficProofs`
- `Walk` says where reports stand: at an item that exists (`ReportsWalk`), counting
  none before its turn (`CountedInTurn`), with the event of each item they count
  (`EventsHeld`). The statements are then sorted by what they do to the books
  (`ItemStep`: looks up, counts, rolls up, goes on ..), and the sums are proved of those kinds.
- `SumsAddUp`: `SumsAgree` and `RollUpAgrees`, whose two sides each step changes alike.
- `EventsAreKept`: `SinksInStep`, what the sinks have of a report by how far its batches are.

`SignUpProofs`
- `SignUpInv`: types, what a request knows at its stage (`CallsFit`: before an account is
  created its code is spent, or its identity is acceptable) and room in the table of codes for those who
  are about to write one (`RoomKept`). `AccountsProven`: codes stay spent and accounts keep
  their origin (`CodeGrows`, `AccountGrows`).
- `GuessingIsBounded`: `GuessesHeld`, that a code's attempts and the requests that have yet to
  add one are at most the limit less one and the number of requests that can run.
- `CountersDoExpire`: the request between INCR and EXPIRE, or the fault, is the witness.

`SessionsProofs`, all of `ClientSpec`, so that they hold of the server by itself and with clients
- `TypeCorrect`. The server's statements are sorted by what a call becomes (`BeginsAs`,
  `GoesOnAs`) and what its tables become; later proofs look at those kinds only.
- `LoggedOutIsOut`: `BlackHolds`, that the blacklist entry of a session somebody logged out with
  outlives the access token and its skew, so that to let it pass AuthRequired must take the
  failing branch.
- `FactorIsProven`, `FactorIsNotDropped`: `FactorHolds`, that a VerifyTOTP or DisableTOTP that
  is about to write has seen a valid code of the secret that it writes or takes off; of the
  steps that turn the factor off only the two of the property remain.
- `OldPasswordsEnd`: `OldHolds` carries the property to the calls that are about to issue
  tokens, and adds the change whose revocation is due (`RevocationDue`).
- `GuessingIsBounded`: `Within`. Before the lock each guess is in the counter, in a call
  that has yet to count or to lock, or lost with a fault; from the lock on only calls that
  are past PreLogin can guess.
- `HeldIsGood`: `NewestHolds`. Each request the server works on is one goroutine's that
  waits for it (`Awaited`), and nobody else knows the pair it will bring (`UnknownYet`), so
  that this pair was not spent when it is stored; `Unhurt`: while nothing failed and nobody logged
  out, a token is over only when a pair was made from it or is about to be.
- `ExchangesAreBounded`: `FewExchanges`, with `Unspent`. While a token works no pair was made
  from it; once it is over no request for it begins, and each pair takes one that is under way.
  With a code that the SDK does not know no call ever comes to ask (`NeverAsked`).

`NodesProofs`
- `NobodyHeardGoesOffline`: `HeardInTime`, that the heartbeat in a row is no older than the
  silence since the last one that was written and the lag of a statement. A heartbeat
  that is late by the lag overwrites a newer one, and this is all that it costs.
- `KnownWasApplied`: what an agent takes for known is in its file, and runs unless the
  reload is due or has failed. An answer that leaves the configuration out as unchanged
  loses nothing then; the exception is the failed reload that section 6 tells of.

`SlaProofs`
- `EachProbeCountsOnce`: a row of a day that no probe came late to is the day's count,
  whichever of the roll-ups wrote it (`RowsCount`, `WritersCount`), and a day that a roll-up went
  through has all its rows (`DoneCount`). The report's sums over rows and over probes
  are then sums of equal functions.

Only model-checked: the liveness properties (`PendingEnds`, `PaidDelivers`,
`PaidInTimeIsAcked`, `OldAttemptsEnd`, `ConfirmedIsHanded`, `ListedIsServed`, `BannedLeave`,
`FlagFollowsQuota`). They rest on fairness, which is stated with ENABLED and outside the
prover's reach. Induction over data is too: nothing is claimed of what a sum
over a function or sequence comes to, and the proofs use only that equal functions have equal sums.

## 9. Not modelled

- `ReconcileChannel`: the worker that schedules it constructs the service without
  providers, so that the loop finds none and returns.
- Catalogue CRUD, node groups, administrators' lists, report, audit, rate limits of a user: single
  statements or read-only queries.
- Devices and countries of logins (risk): best-effort rows and e-mails that no other
  code reads; `SubGuard` has no caller; rotating a subscription token is one statement.
- Latencies and percentiles of the SLA report; a probe is a success or a failure here.
- A second RecomputeBans beside the first, and usage items that carry the user's id and no
  token (`Traffic` resolves each item by its token).
- Web pages and the consoles: they appear as the nondeterministic environment.
- Signatures, HTTP, JSON, prices: no property here depends on them. Amounts agree
  by construction (`cents` in the payment service truncates past two digits).
- The windows of two attempts are not ordered among each other: an older one may
  still be open when a newer one closes. This allows more behaviours than the
  code has and removes none.
- Rows of MySQL are read and written atomically per statement; isolation between
  statements of one transaction is needed only in Allocate (FOR UPDATE SKIP
  LOCKED), which is one action.
