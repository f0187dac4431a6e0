------------------------------- MODULE Traffic -------------------------------
(***************************************************************************)
(* Usage, quotas and bans (internal/traffic): the reports of the agents,   *)
(* the sinks of their events, the ban flag that the api and the worker     *)
(* both write, and the ban list in Redis that the agents fetch; with the   *)
(* other writers of a quota, which are the administrators and the orders.  *)
(*                                                                         *)
(* One action is one statement or command; what a report or the worker     *)
(* read before is in its record, and may be out of date.  Bytes are        *)
(* counted in units of one report item.                                    *)
(***************************************************************************)
EXTENDS Integers, FiniteSets, Sequences

CONSTANTS
    User,         \* the users that reports name
    Unknown,      \* a subscription token of nobody
    Reports,      \* bound: the reports that agents send, as sequences of users
    Total,        \* what a plan or a pack grants, 0 = no limit
    ClickHouse,   \* the reports that a process with ClickHouse.Enabled serves
    Batch,        \* the batch RecomputeBans is called with
    MaxEdits,     \* bound: writes of quotas by administrators and orders
    MaxFaults     \* bound: statements and commands that fail

ASSUME TrafficAssumption ==
    /\ Unknown \notin User
    /\ \A r \in DOMAIN Reports : Reports[r] \in Seq(User \cup {Unknown})
    /\ Total \in Nat
    /\ ClickHouse \subseteq DOMAIN Reports
    /\ Batch \in Nat \ {0}
    /\ {MaxEdits, MaxFaults} \subseteq Nat

VARIABLES
    quota,     \* of table users: traffic_used, traffic_total, banned, plan_expire_at
    daily,     \* table traffic_daily, the days of a user together
    ch,        \* table traffic_events in ClickHouse: how often it has each event
    fallback,  \* table usage_event_fallback, likewise
    listed,    \* the ban list, a set in Redis
    known,     \* the ban list as an agent has it
    report,    \* each report: its next statement and its locals
    worker,    \* the RecomputeBans call of the worker
    counted,   \* by user: the items that were added to traffic_used, ever
    forgiven,  \* by user: of those, the ones a new plan reset
    lost,      \* what failures took from the roll-up and from the sinks
    edits,     \* writes so far
    faults     \* failures so far

recordVars == <<daily, ch, fallback, counted, lost>>
vars == <<quota, recordVars, listed, known, report, worker, forgiven, edits, faults>>

Report == DOMAIN Reports

\* An event is an item of a report.
Event == UNION {{<<r, i>> : i \in DOMAIN Reports[r]} : r \in Report}

UserOf(e) == Reports[e[1]][e[2]]

Plans == {"none", "ahead", "past"}

Steps == {"new", "item", "incr", "read", "daily", "check", "flag", "list",
          "sink", "fallback", "done"}

TypeOK ==
    /\ quota \in [User -> [used : Nat, total : Nat, banned : BOOLEAN, plan : Plans]]
    /\ daily \in [User -> Nat]
    /\ ch \in [Event -> Nat] /\ fallback \in [Event -> Nat]
    /\ listed \subseteq User /\ known \subseteq User
    /\ report \in [Report -> [at : Steps, i : Nat, j : Nat, used : Nat, events : Seq(Nat)]]
    /\ worker \in [at : {"idle", "ban", "find", "unban"}, ids : SUBSET User]
    /\ counted \in [User -> SUBSET Event]
    /\ forgiven \in [User -> Nat]
    /\ lost \in [daily : SUBSET Event, events : SUBSET Event]
    /\ edits \in 0 .. MaxEdits /\ faults \in 0 .. MaxFaults

Init ==
    /\ quota = [u \in User |-> [used |-> 0, total |-> Total, banned |-> FALSE, plan |-> "ahead"]]
    /\ daily = [u \in User |-> 0]
    /\ ch = [e \in Event |-> 0]
    /\ fallback = [e \in Event |-> 0]
    /\ listed = {}
    /\ known = {}
    /\ report = [r \in Report |-> [at |-> "new", i |-> 1, j |-> 1, used |-> 0, events |-> <<>>]]
    /\ worker = [at |-> "idle", ids |-> {}]
    /\ counted = [u \in User |-> {}]
    /\ forgiven = [u \in User |-> 0]
    /\ lost = [daily |-> {}, events |-> {}]
    /\ edits = 0
    /\ faults = 0

Fails == faults < MaxFaults /\ faults' = faults + 1

-----------------------------------------------------------------------------
(* ReportUsage, item after item, and the sinks after the last one.         *)

Item(r) == <<r, report[r].i>>
Goto(r, step) == report' = [report EXCEPT ![r].at = step]

\* The next item; after the last, the events go to the sink if there are any.
NextItem(r, row) ==
    report' = [report EXCEPT ![r] =
        IF row.i < Len(Reports[r]) THEN [row EXCEPT !.at = "item", !.i = @ + 1]
        ELSE [row EXCEPT !.at = IF row.events = <<>> THEN "done"
                                ELSE IF r \in ClickHouse THEN "sink" ELSE "fallback"]]

\* postUsage, with the bootstrap secret; agents do not send a report again.
PostUsage(r) ==
    /\ report[r].at = "new"
    /\ Goto(r, IF Reports[r] = <<>> THEN "done" ELSE "item")
    /\ UNCHANGED <<quota, recordVars, listed, known, worker, forgiven, edits, faults>>

\* The token's user; an item of nobody's, and one whose query fails, is
\* rejected.  The event is made before anything is counted.
UserIDByToken(r) ==
    /\ report[r].at = "item"
    /\ IF UserOf(Item(r)) = Unknown THEN NextItem(r, report[r])
       ELSE report' = [report EXCEPT ![r].at = "incr",
                                     ![r].events = Append(@, report[r].i)]
    /\ UNCHANGED <<quota, recordVars, listed, known, worker, forgiven, edits, faults>>

TokenFails(r) ==
    /\ report[r].at = "item"
    /\ Fails
    /\ NextItem(r, report[r])
    /\ UNCHANGED <<quota, recordVars, listed, known, worker, forgiven, edits>>

\* With the sum made from the one that was read for the item before.
IncrementedSum(r) == report[r].used + 1

\* The database adds: traffic_used = traffic_used + delta.
Incremented(r) == quota[UserOf(Item(r))].used + 1

IncrTrafficUsed(r) ==
    /\ report[r].at = "incr"
    /\ LET u == UserOf(Item(r))
       IN /\ quota' = [quota EXCEPT ![u].used = Incremented(r)]
          /\ counted' = [counted EXCEPT ![u] = @ \cup {Item(r)}]
    /\ Goto(r, "read")
    /\ UNCHANGED <<daily, ch, fallback, lost, listed, known, worker, forgiven, edits, faults>>

\* The UPDATE, or the SELECT after it, fails: the item is rejected, its event
\* and what was added stay, and the roll-up misses it.
IncrFails(r) ==
    /\ report[r].at \in {"incr", "read"}
    /\ Fails
    /\ NextItem(r, report[r])
    /\ lost' = IF report[r].at = "read" THEN [lost EXCEPT !.daily = @ \cup {Item(r)}] ELSE lost
    /\ UNCHANGED <<quota, daily, ch, fallback, counted, listed, known, worker, forgiven, edits>>

ReadUsed(r) ==
    /\ report[r].at = "read"
    /\ report' = [report EXCEPT ![r].at = "daily", ![r].used = quota[UserOf(Item(r))].used]
    /\ UNCHANGED <<quota, recordVars, listed, known, worker, forgiven, edits, faults>>

UpsertDaily(r) ==
    /\ report[r].at = "daily"
    /\ daily' = [daily EXCEPT ![UserOf(Item(r))] = @ + 1]
    /\ Goto(r, "check")
    /\ UNCHANGED <<quota, ch, fallback, counted, lost, listed, known, worker, forgiven,
                   edits, faults>>

DailyFails(r) ==
    /\ report[r].at = "daily"
    /\ Fails
    /\ lost' = [lost EXCEPT !.daily = @ \cup {Item(r)}]
    /\ Goto(r, "check")
    /\ UNCHANGED <<quota, daily, ch, fallback, counted, listed, known, worker, forgiven, edits>>

\* The quota as it is now, against the sum as it was when the item was added.
OverQuota(r, q) == q.total > 0 /\ report[r].used >= q.total

GetQuota(r) ==
    /\ report[r].at = "check"
    /\ LET q == quota[UserOf(Item(r))]
       IN IF OverQuota(r, q) /\ ~q.banned THEN Goto(r, "flag") ELSE NextItem(r, report[r])
    /\ UNCHANGED <<quota, recordVars, listed, known, worker, forgiven, edits, faults>>

SetBanned(r) ==
    /\ report[r].at = "flag"
    /\ quota' = [quota EXCEPT ![UserOf(Item(r))].banned = TRUE]
    /\ Goto(r, "list")
    /\ UNCHANGED <<recordVars, listed, known, worker, forgiven, edits, faults>>

\* Bans.Add; only the api process has the list.
BansAdd(r) ==
    /\ report[r].at = "list"
    /\ listed' = listed \cup {UserOf(Item(r))}
    /\ NextItem(r, report[r])
    /\ UNCHANGED <<quota, recordVars, known, worker, forgiven, edits, faults>>

\* GetQuota, SetBanned and Bans.Add fail in silence.
BanFails(r) ==
    /\ report[r].at \in {"check", "flag", "list"}
    /\ Fails
    /\ IF report[r].at = "flag" THEN Goto(r, "list") ELSE NextItem(r, report[r])
    /\ UNCHANGED <<quota, recordVars, listed, known, worker, forgiven, edits>>

\* chsink.Write inserts the events one by one.
SinkWrite(r) ==
    /\ report[r].at = "sink"
    /\ LET row == report[r]
       IN /\ ch' = [ch EXCEPT ![<<r, row.events[row.j]>>] = @ + 1]
          /\ report' = [report EXCEPT ![r] =
               IF row.j < Len(row.events) THEN [row EXCEPT !.j = @ + 1]
               ELSE [row EXCEPT !.at = "done"]]
    /\ UNCHANGED <<quota, daily, fallback, counted, lost, listed, known, worker, forgiven,
                   edits, faults>>

\* The first that fails sends all of them to the fallback.
SinkFails(r) ==
    /\ report[r].at = "sink"
    /\ Fails
    /\ Goto(r, "fallback")
    /\ UNCHANGED <<quota, recordVars, listed, known, worker, forgiven, edits>>

\* With only the events that come after the one that failed.
LaterEvents(r) == {<<r, report[r].events[j]>> : j \in report[r].j + 1 .. Len(report[r].events)}

ToFallback(r) == {<<r, report[r].events[j]>> : j \in DOMAIN report[r].events}

\* CreateInBatches: in one transaction.
FallbackWrite(r) ==
    /\ report[r].at = "fallback"
    /\ fallback' = [e \in Event |-> IF e \in ToFallback(r) THEN fallback[e] + 1 ELSE fallback[e]]
    /\ Goto(r, "done")
    /\ UNCHANGED <<quota, daily, ch, counted, lost, listed, known, worker, forgiven,
                   edits, faults>>

\* Its error is logged.
FallbackFails(r) ==
    /\ report[r].at = "fallback"
    /\ Fails
    /\ lost' = [lost EXCEPT !.events = @ \cup ToFallback(r)]
    /\ Goto(r, "done")
    /\ UNCHANGED <<quota, daily, ch, fallback, counted, listed, known, worker, forgiven, edits>>

-----------------------------------------------------------------------------
(* RecomputeBans, every minute in the worker.  The worker is built without *)
(* the ban list, so that only the flags are written.                       *)

Over(q) == (q.total > 0 /\ q.used >= q.total) \/ q.plan = "past"

BanCandidates == {u \in User : ~quota[u].banned /\ Over(quota[u])}

\* With the users who have no limit forgotten.
LimitedUnbanCandidates ==
    {u \in User : /\ quota[u].banned /\ quota[u].used < quota[u].total
                  /\ quota[u].plan # "past"}

UnbanCandidates == {u \in User : quota[u].banned /\ ~Over(quota[u])}

\* LIMIT without an order: any of them.
AtMost(n, S) == {T \in SUBSET S : T = S \/ Cardinality(T) = n}
Limited(S) == {T \in AtMost(Batch, S) : Cardinality(T) <= Batch}

ListBanCandidates ==
    /\ worker.at = "idle"
    /\ worker' \in [at : {"ban"}, ids : Limited(BanCandidates)]
    /\ UNCHANGED <<quota, recordVars, listed, known, report, forgiven, edits, faults>>

ListUnbanCandidates ==
    /\ worker.at = "find"
    /\ worker' \in [at : {"unban"}, ids : Limited(UnbanCandidates)]
    /\ UNCHANGED <<quota, recordVars, listed, known, report, forgiven, edits, faults>>

\* One user after the other, whose error is ignored.
SetFlag(u, written) ==
    /\ worker.at \in {"ban", "unban"}
    /\ u \in worker.ids
    /\ worker' = [worker EXCEPT !.ids = @ \ {u}]
    /\ quota' = IF written THEN [quota EXCEPT ![u].banned = (worker.at = "ban")] ELSE quota
    /\ UNCHANGED <<recordVars, listed, known, report, forgiven, edits>>

FlagWritten == \E u \in User : SetFlag(u, TRUE) /\ UNCHANGED faults
FlagFails == \E u \in User : SetFlag(u, FALSE) /\ Fails

FlagsWritten ==
    /\ worker.at \in {"ban", "unban"}
    /\ worker.ids = {}
    /\ worker' = [worker EXCEPT !.at = IF worker.at = "ban" THEN "find" ELSE "idle"]
    /\ UNCHANGED <<quota, recordVars, listed, known, report, forgiven, edits, faults>>

\* A query fails or the worker dies: the rest of the call is left out.
RecomputeFails ==
    /\ worker.at # "idle"
    /\ Fails
    /\ worker' = [at |-> "idle", ids |-> {}]
    /\ UNCHANGED <<quota, recordVars, listed, known, report, forgiven, edits>>

-----------------------------------------------------------------------------
(* The ban list: Redis loses it when its TTL ends, agents replace theirs.  *)

BanListExpires ==
    /\ listed # {}
    /\ listed' = {}
    /\ UNCHANGED <<quota, recordVars, known, report, worker, forgiven, edits, faults>>

\* The members of the set as they are: a list that Redis lost is empty to the
\* agents until something writes it again.
CurrentBans == listed

FetchBanlist ==
    /\ known # CurrentBans
    /\ known' = CurrentBans
    /\ UNCHANGED <<quota, recordVars, listed, report, worker, forgiven, edits, faults>>

-----------------------------------------------------------------------------
(* The other writers of the users' quotas.                                 *)

\* ApplyPlan: a new cycle begins at 0.
PlanApplied(q) == [q EXCEPT !.used = 0, !.total = Total, !.plan = "ahead"]

\* ApplyPack: more for this cycle; one with an expiry of its own moves the plan's.
PackApplied(q, own) ==
    [q EXCEPT !.total = @ + Total, !.plan = IF own THEN "ahead" ELSE @]

\* AdjustTraffic: a deduction stops at 0, which is no limit.
TrafficAdjusted(q, delta) ==
    [q EXCEPT !.total = IF @ + delta < 0 THEN 0 ELSE @ + delta]

\* The administrators' ban, which RecomputeBans does not tell from its own.
BannedByAdmin(q, banned) == [q EXCEPT !.banned = banned]

PlanEnds(q) == [q EXCEPT !.plan = IF @ = "none" THEN @ ELSE "past"]

EditQuota(u) ==
    /\ edits < MaxEdits
    /\ edits' = edits + 1
    /\ quota' \in {[quota EXCEPT ![u] = q] :
          q \in {PackApplied(quota[u], own) : own \in BOOLEAN}
                \cup {TrafficAdjusted(quota[u], delta) : delta \in {-Total - 1, -1, 1}}
                \cup {BannedByAdmin(quota[u], b) : b \in BOOLEAN}
                \cup {PlanEnds(quota[u])}}
    /\ UNCHANGED <<recordVars, listed, known, report, worker, forgiven, faults>>

ApplyPlan(u) ==
    /\ edits < MaxEdits
    /\ edits' = edits + 1
    /\ quota' = [quota EXCEPT ![u] = PlanApplied(@)]
    /\ forgiven' = [forgiven EXCEPT ![u] = Cardinality(counted[u])]
    /\ UNCHANGED <<recordVars, listed, known, report, worker, faults>>

-----------------------------------------------------------------------------
ReportStep(r) ==
    \/ UserIDByToken(r)
    \/ IncrTrafficUsed(r)
    \/ ReadUsed(r)
    \/ UpsertDaily(r)
    \/ GetQuota(r)
    \/ SetBanned(r)
    \/ BansAdd(r)
    \/ SinkWrite(r)
    \/ FallbackWrite(r)

ReportFault(r) ==
    \/ TokenFails(r)
    \/ IncrFails(r)
    \/ DailyFails(r)
    \/ BanFails(r)
    \/ SinkFails(r)
    \/ FallbackFails(r)

RecomputeStep ==
    \/ ListBanCandidates
    \/ FlagWritten
    \/ FlagsWritten
    \/ ListUnbanCandidates

RecomputeBans == RecomputeStep \/ FlagFails \/ RecomputeFails

Next ==
    \/ \E r \in Report : PostUsage(r) \/ ReportStep(r) \/ ReportFault(r)
    \/ RecomputeBans
    \/ BanListExpires \/ FetchBanlist
    \/ \E u \in User : EditQuota(u) \/ ApplyPlan(u)

\* A report that began goes on, and the worker's task runs again and again.
Fairness ==
    /\ \A r \in Report : WF_vars(ReportStep(r))
    /\ WF_vars(RecomputeStep)

Spec == Init /\ [][Next]_vars /\ Fairness

-----------------------------------------------------------------------------
(* Properties.                                                             *)

\* Each item that was counted is counted once in traffic_used since the plan
\* began, and once in the roll-up of the day, but for the ones whose report
\* still has to get there and the ones whose statement failed; however
\* reports, plans and recomputations interleave.
UnderWay(u) ==
    {e \in counted[u] : e[2] = report[e[1]].i /\ report[e[1]].at \in {"read", "daily"}}

UsageAddsUp ==
    \A u \in User :
      /\ quota[u].used + forgiven[u] = Cardinality(counted[u])
      /\ daily[u] = Cardinality((counted[u] \ UnderWay(u)) \ lost.daily)

\* When a report is over, each item that was counted has its event in
\* ClickHouse or in the fallback, in each at most once, unless both failed.
EventsSurvive ==
    /\ \A e \in Event : ch[e] <= 1 /\ fallback[e] <= 1
    /\ \A u \in User : \A e \in counted[u] :
         report[e[1]].at = "done" => ch[e] + fallback[e] > 0 \/ e \in lost.events

\* In the end the flag says who is over quota or past the plan's end, whatever
\* stale reads a report or a recomputation wrote it from: nobody who paid
\* stays banned, nobody who is over stays in.
FlagFollowsQuota == <>[](\A u \in User : quota[u].banned = Over(quota[u]))
=============================================================================
