---------------------------- MODULE TrafficProofs ----------------------------
(***************************************************************************)
(* Proofs about Traffic for every set of users, every list of reports,     *)
(* every batch, every plan and every number of edits and faults.           *)
(***************************************************************************)
EXTENDS Traffic, FiniteSetTheorems, TLAPS

-----------------------------------------------------------------------------
(* What the proofs rest on: where a report stands.                         *)

\* A report goes through these for each of its items.
AtItem == {"item", "incr", "read", "daily", "check", "flag", "list"}

\* The item a report stands at exists, is somebody's once its token was looked
\* up, and is counted when its sum is about to be read or rolled up.
ReportsWalk ==
    \A r \in Report :
      /\ report[r].at \in AtItem => report[r].i \in DOMAIN Reports[r]
      /\ report[r].at \in AtItem \ {"item"} => UserOf(Item(r)) \in User
      /\ report[r].at \in {"read", "daily"} => Item(r) \in counted[UserOf(Item(r))]

\* The report has counted or given up the item, and has rolled it up too.
Passed(e) ==
    \/ e[2] < report[e[1]].i
    \/ e[2] = report[e[1]].i /\ report[e[1]].at \notin {"new", "item", "incr"}

Settled(e) == Passed(e) /\ ~(e[2] = report[e[1]].i /\ report[e[1]].at \in {"read", "daily"})

\* No item is counted before its turn or for somebody else, and none is given
\* up for the roll-up before its turn.
CountedInTurn ==
    /\ \A u \in User :
         /\ IsFiniteSet(counted[u])
         /\ \A e \in counted[u] : UserOf(e) = u /\ Passed(e)
    /\ \A e \in lost.daily : Settled(e)
    /\ \A r \in Report : report[r].at = "new" => report[r].i = 1

\* The items of a report whose events it holds.
Held(r) == {report[r].events[m] : m \in DOMAIN report[r].events}

\* A report holds the event of an item before it counts it, and of no item twice.
EventsHeld ==
    /\ \A r \in Report :
         /\ \A m \in DOMAIN report[r].events :
              /\ report[r].events[m] \in DOMAIN Reports[r]
              /\ report[r].events[m] <= report[r].i
              /\ report[r].at \in {"new", "item"} => report[r].events[m] < report[r].i
         /\ \A m, n \in DOMAIN report[r].events :
              report[r].events[m] = report[r].events[n] => m = n
         /\ report[r].at \in AtItem \ {"item"} => report[r].i \in Held(r)
         /\ report[r].at \in AtItem \cup {"new"} => report[r].j = 1
         /\ report[r].at = "sink" => report[r].j \in DOMAIN report[r].events
    /\ \A u \in User : \A e \in counted[u] : e[2] \in Held(e[1])

\* What the sinks have of a report, by how far it is.
SinksInStep ==
    /\ \A e \in Event :
         /\ ch[e] <= 1 /\ fallback[e] <= 1
         /\ report[e[1]].at # "done" => fallback[e] = 0
         /\ report[e[1]].at \in AtItem \cup {"new"} => ch[e] = 0
    /\ \A r \in Report : \A m \in DOMAIN report[r].events :
         LET e == <<r, report[r].events[m]>>
         IN /\ report[r].at = "sink" => ch[e] = IF m < report[r].j THEN 1 ELSE 0
            /\ report[r].at = "done" => ch[e] + fallback[e] > 0 \/ e \in lost.events

-----------------------------------------------------------------------------
(* Types.                                                                  *)

ReportRow == [at : Steps, i : Nat, j : Nat, used : Nat, events : Seq(Nat)]

Quota == [used : Nat, total : Nat, banned : BOOLEAN, plan : Plans]

\* A report is a sequence of users and of nobody.
LEMMA ReportTyped ==
  ASSUME NEW r \in Report
  PROVE  /\ Reports[r] \in Seq(User \cup {Unknown})
         /\ Len(Reports[r]) \in Nat
         /\ DOMAIN Reports[r] = 1 .. Len(Reports[r])
BY TrafficAssumption DEF TrafficAssumption, Report

\* An event is a pair of a report and a place in it.
LEMMA EventShape ==
  ASSUME NEW e
  PROVE  e \in Event <=> /\ e = <<e[1], e[2]>>
                         /\ e[1] \in Report /\ e[2] \in DOMAIN Reports[e[1]]
<1>1. e \in Event <=> \E r \in Report : \E i \in DOMAIN Reports[r] : e = <<r, i>>
  BY DEF Event
<1>2. QED
  BY <1>1

\* Moving on changes the step of one report.
LEMMA GotoRow ==
  ASSUME TypeOK, NEW r \in Report, NEW step \in Steps, Goto(r, step)
  PROVE  /\ report' \in [Report -> ReportRow]
         /\ \A s \in Report : s # r => report'[s] = report[s]
         /\ report'[r].at = step /\ report'[r].i = report[r].i
         /\ report'[r].j = report[r].j /\ report'[r].used = report[r].used
         /\ report'[r].events = report[r].events
<1>1. report \in [Report -> ReportRow]
  BY DEF TypeOK, ReportRow
<1>2. [report[r] EXCEPT !.at = step] \in ReportRow
  BY <1>1 DEF ReportRow
<1>3. report' = [report EXCEPT ![r] = [report[r] EXCEPT !.at = step]]
  BY DEF Goto
<1>4. report'[r] = [report[r] EXCEPT !.at = step]
  BY <1>1, <1>3
<1>5. QED
  BY <1>1, <1>2, <1>3, <1>4 DEF ReportRow

\* So does going on to the next item, or to the sinks after the last one.
LEMMA NextItemRow ==
  ASSUME TypeOK, NEW r \in Report, NextItem(r, report[r])
  PROVE  /\ report' \in [Report -> ReportRow]
         /\ \A s \in Report : s # r => report'[s] = report[s]
         /\ report'[r].j = report[r].j /\ report'[r].used = report[r].used
         /\ report'[r].events = report[r].events
         /\ \/ /\ report[r].i < Len(Reports[r])
               /\ report'[r].at = "item" /\ report'[r].i = report[r].i + 1
            \/ /\ report[r].events = <<>>
               /\ report'[r].at = "done" /\ report'[r].i = report[r].i
            \/ /\ report[r].events # <<>>
               /\ report'[r].at \in {"sink", "fallback"} /\ report'[r].i = report[r].i
<1> DEFINE row == report[r]
           next == IF row.i < Len(Reports[r]) THEN [row EXCEPT !.at = "item", !.i = @ + 1]
                   ELSE [row EXCEPT !.at = IF row.events = <<>> THEN "done"
                                           ELSE IF r \in ClickHouse THEN "sink"
                                           ELSE "fallback"]
<1>1. report \in [Report -> ReportRow] /\ row \in ReportRow
  BY DEF TypeOK, ReportRow
<1>2. report' = [report EXCEPT ![r] = next]
  BY DEF NextItem
<1>3. report'[r] = next
  BY <1>1, <1>2
<1>4. CASE row.i < Len(Reports[r])
  <2>1. next = [row EXCEPT !.at = "item", !.i = @ + 1]
    BY <1>4
  <2> HIDE DEF next, row
  <2>2. row.i + 1 \in Nat
    BY <1>1 DEF ReportRow
  <2>3. /\ next.at = "item" /\ next.i = row.i + 1 /\ next.j = row.j
        /\ next.used = row.used /\ next.events = row.events
        /\ next \in ReportRow
    BY <1>1, <2>1, <2>2 DEF ReportRow, Steps
  <2>4. QED
    BY <1>1, <1>2, <1>3, <1>4, <2>3 DEF row
<1>5. ASSUME ~(row.i < Len(Reports[r])), NEW step \in {"done", "sink", "fallback"},
             next = [row EXCEPT !.at = step], step = "done" <=> row.events = <<>>
      PROVE  /\ next \in ReportRow /\ next.at = step /\ next.i = row.i /\ next.j = row.j
             /\ next.used = row.used /\ next.events = row.events
  <2> HIDE DEF next, row
  <2>1. QED
    BY <1>1, <1>5 DEF ReportRow, Steps
<1>6. CASE ~(row.i < Len(Reports[r])) /\ row.events = <<>>
  <2>1. next = [row EXCEPT !.at = "done"]
    BY <1>6
  <2>2. QED
    BY <1>1, <1>2, <1>3, <1>5, <1>6, <2>1
<1>7. CASE ~(row.i < Len(Reports[r])) /\ row.events # <<>> /\ r \in ClickHouse
  <2>1. next = [row EXCEPT !.at = "sink"]
    BY <1>7
  <2>2. QED
    BY <1>1, <1>2, <1>3, <1>5, <1>7, <2>1
<1>8. CASE ~(row.i < Len(Reports[r])) /\ row.events # <<>> /\ r \notin ClickHouse
  <2>1. next = [row EXCEPT !.at = "fallback"]
    BY <1>8
  <2>2. QED
    BY <1>1, <1>2, <1>3, <1>5, <1>8, <2>1
<1>9. QED
  BY <1>4, <1>6, <1>7, <1>8

\* What is written to a quota is a quota.
LEMMA QuotaTyped ==
  ASSUME NEW q \in Quota
  PROVE  /\ \A n \in Nat : [q EXCEPT !.used = n] \in Quota
         /\ \A b \in BOOLEAN : [q EXCEPT !.banned = b] \in Quota
         /\ PlanApplied(q) \in Quota
         /\ \A own \in BOOLEAN : PackApplied(q, own) \in Quota
         /\ \A delta \in Int : TrafficAdjusted(q, delta) \in Quota
         /\ \A b \in BOOLEAN : BannedByAdmin(q, b) \in Quota
         /\ PlanEnds(q) \in Quota
<1> USE TrafficAssumption DEF TrafficAssumption, Quota, Plans
<1>1. \A n \in Nat : [q EXCEPT !.used = n] \in Quota
  OBVIOUS
<1>2. \A b \in BOOLEAN : [q EXCEPT !.banned = b] \in Quota
  OBVIOUS
<1>3. PlanApplied(q) \in Quota
  BY DEF PlanApplied
<1>4. \A own \in BOOLEAN : PackApplied(q, own) \in Quota
  <2>1. PackApplied(q, TRUE) = [q EXCEPT !.total = @ + Total, !.plan = "ahead"]
    BY DEF PackApplied
  <2>2. PackApplied(q, FALSE) = [q EXCEPT !.total = @ + Total, !.plan = @]
    BY DEF PackApplied
  <2>3. q.total + Total \in Nat
    OBVIOUS
  <2>4. PackApplied(q, TRUE) \in Quota /\ PackApplied(q, FALSE) \in Quota
    BY <2>1, <2>2, <2>3
  <2>5. QED
    BY <2>4
<1>5. \A delta \in Int : TrafficAdjusted(q, delta) \in Quota
  BY DEF TrafficAdjusted
<1>6. \A b \in BOOLEAN : BannedByAdmin(q, b) \in Quota
  BY DEF BannedByAdmin
<1>7. PlanEnds(q) \in Quota
  BY DEF PlanEnds
<1>8. QED
  BY <1>1, <1>2, <1>3, <1>4, <1>5, <1>6, <1>7

\* An edit writes a quota, and leaves what was used.
LEMMA EditsTyped ==
  ASSUME TypeOK, NEW u \in User, EditQuota(u)
  PROVE  \E q \in Quota : quota' = [quota EXCEPT ![u] = q] /\ q.used = quota[u].used
<1>1. quota[u] \in Quota
  BY DEF TypeOK, Quota
<1>2. PICK q : /\ quota' = [quota EXCEPT ![u] = q]
              /\ q \in {PackApplied(quota[u], own) : own \in BOOLEAN}
                       \cup {TrafficAdjusted(quota[u], delta) : delta \in {-Total - 1, -1, 1}}
                       \cup {BannedByAdmin(quota[u], b) : b \in BOOLEAN}
                       \cup {PlanEnds(quota[u])}
  BY DEF EditQuota
<1>3. q \in Quota
  <2>1. {-Total - 1, -1, 1} \subseteq Int
    BY TrafficAssumption DEF TrafficAssumption
  <2>2. QED
    BY <1>1, <1>2, <2>1, QuotaTyped
<1>4. q.used = quota[u].used
  BY <1>1, <1>2 DEF PackApplied, TrafficAdjusted, BannedByAdmin, PlanEnds, Quota
<1>5. QED
  BY <1>2, <1>3, <1>4

\* A report stands at an item of its own, and that item is an event.
LEMMA ItemTyped ==
  ASSUME TypeOK, ReportsWalk, NEW r \in Report, report[r].at \in AtItem
  PROVE  /\ report[r].i \in DOMAIN Reports[r]
         /\ Item(r) = <<r, report[r].i>> /\ Item(r) \in Event
         /\ UserOf(Item(r)) \in User \cup {Unknown}
<1>1. report[r].i \in DOMAIN Reports[r]
  BY DEF ReportsWalk
<1>2. Reports[r][report[r].i] \in User \cup {Unknown}
  BY <1>1, ReportTyped
<1>3. QED
  BY <1>1, <1>2 DEF Item, UserOf, Event

\* The events a report hands to the sinks are events.
LEMMA HeldTyped ==
  ASSUME TypeOK, EventsHeld, NEW r \in Report, NEW m \in DOMAIN report[r].events
  PROVE  /\ <<r, report[r].events[m]>> \in Event
         /\ DOMAIN report[r].events = 1 .. Len(report[r].events)
         /\ report[r].events[m] \in Nat
<1>1. report[r].events[m] \in DOMAIN Reports[r]
  BY DEF EventsHeld
<1>2. report[r].events \in Seq(Nat)
  BY DEF TypeOK
<1>3. QED
  BY <1>1, <1>2 DEF Event

\* What keeps the types: a report stands at an item, and holds events.
Walk == ReportsWalk /\ CountedInTurn /\ EventsHeld

\* The sinks get events.
LEMMA ToFallbackTyped ==
  ASSUME TypeOK, EventsHeld, NEW r \in Report
  PROVE  ToFallback(r) \subseteq Event
BY HeldTyped DEF ToFallback

\* Every variable keeps its type through every statement and command.
LEMMA TypeStep == TypeOK /\ Walk /\ [Next]_vars => TypeOK'
<1> SUFFICES ASSUME TypeOK, Walk, [Next]_vars PROVE TypeOK'
  OBVIOUS
<1> USE DEF Walk
<1>a. /\ quota \in [User -> Quota]
      /\ report \in [Report -> ReportRow]
  BY DEF TypeOK, Quota, ReportRow
<1>f. Fails => faults' \in 0 .. MaxFaults
  BY TrafficAssumption DEF TypeOK, Fails, TrafficAssumption
<1>t. report' \in [Report -> ReportRow] <=>
        report' \in [Report -> [at : Steps, i : Nat, j : Nat, used : Nat, events : Seq(Nat)]]
  BY DEF ReportRow
<1>q. quota' \in [User -> Quota] <=>
        quota' \in [User -> [used : Nat, total : Nat, banned : BOOLEAN, plan : Plans]]
  BY DEF Quota
<1>1. ASSUME NEW r \in Report, PostUsage(r)
      PROVE  TypeOK'
  <2>1. \E step \in Steps : Goto(r, step)
    BY <1>1 DEF PostUsage, Steps
  <2>2. report' \in [Report -> ReportRow]
    BY <2>1, GotoRow
  <2>3. QED
    BY <1>1, <1>t, <2>2 DEF PostUsage, TypeOK, recordVars
<1>2. ASSUME NEW r \in Report, UserIDByToken(r)
      PROVE  TypeOK'
  <2>1. CASE UserOf(Item(r)) = Unknown
    BY <1>2, <1>t, <2>1, NextItemRow DEF UserIDByToken, TypeOK, recordVars
  <2>2. CASE UserOf(Item(r)) # Unknown
    <3> DEFINE row == [report[r] EXCEPT !.at = "incr", !.events = Append(@, report[r].i)]
    <3>1. report[r] \in ReportRow
      BY <1>a
    <3>2. row \in ReportRow
      <4>1. Append(report[r].events, report[r].i) \in Seq(Nat)
        BY <3>1 DEF ReportRow
      <4>2. QED
        BY <3>1, <4>1 DEF ReportRow, Steps
    <3>3. report' = [report EXCEPT ![r] = row]
      BY <1>2, <2>2 DEF UserIDByToken
    <3>4. report' \in [Report -> ReportRow]
      BY <1>a, <3>2, <3>3
    <3>5. QED
      BY <1>2, <1>t, <3>4 DEF UserIDByToken, TypeOK, recordVars
  <2>3. QED
    BY <2>1, <2>2
<1>3. ASSUME NEW r \in Report, TokenFails(r)
      PROVE  TypeOK'
  BY <1>3, <1>f, <1>t, NextItemRow DEF TokenFails, TypeOK, recordVars
<1>4. ASSUME NEW r \in Report, IncrTrafficUsed(r)
      PROVE  TypeOK'
  <2> DEFINE u == UserOf(Item(r))
  <2>1. u \in User /\ Item(r) \in Event
    BY <1>4, ItemTyped DEF IncrTrafficUsed, ReportsWalk, AtItem
  <2>2. quota[u] \in Quota /\ quota[u].used + 1 \in Nat
    BY <1>a, <2>1 DEF Quota
  <2>3. quota' = [quota EXCEPT ![u] = [quota[u] EXCEPT !.used = quota[u].used + 1]]
    BY <1>4 DEF IncrTrafficUsed, Incremented
  <2>4. quota' \in [User -> Quota]
    BY <1>a, <2>1, <2>2, <2>3, QuotaTyped
  <2>5. counted' \in [User -> SUBSET Event]
    BY <1>4, <2>1 DEF IncrTrafficUsed, TypeOK
  <2>6. report' \in [Report -> ReportRow]
    BY <1>4, GotoRow DEF IncrTrafficUsed, Steps
  <2>7. QED
    BY <1>4, <1>t, <1>q, <2>4, <2>5, <2>6 DEF IncrTrafficUsed, TypeOK
<1>5. ASSUME NEW r \in Report, IncrFails(r)
      PROVE  TypeOK'
  <2>1. Item(r) \in Event
    BY <1>5, ItemTyped DEF IncrFails, AtItem
  <2>2. lost' \in [daily : SUBSET Event, events : SUBSET Event]
    BY <1>5, <2>1 DEF IncrFails, TypeOK
  <2>3. QED
    BY <1>5, <1>f, <1>t, <2>2, NextItemRow DEF IncrFails, TypeOK
<1>6. ASSUME NEW r \in Report, ReadUsed(r)
      PROVE  TypeOK'
  <2>1. UserOf(Item(r)) \in User
    BY <1>6 DEF ReadUsed, ReportsWalk, AtItem
  <2>2. quota[UserOf(Item(r))].used \in Nat
    BY <2>1 DEF TypeOK
  <2>3. [report[r] EXCEPT !.at = "daily", !.used = quota[UserOf(Item(r))].used] \in ReportRow
    BY <1>a, <2>2 DEF ReportRow, Steps
  <2>4. report' = [report EXCEPT ![r] =
          [report[r] EXCEPT !.at = "daily", !.used = quota[UserOf(Item(r))].used]]
    BY <1>6 DEF ReadUsed
  <2>5. report' \in [Report -> ReportRow]
    BY <1>a, <2>3, <2>4
  <2>6. QED
    BY <1>6, <1>t, <2>5 DEF ReadUsed, TypeOK, recordVars
<1>7. ASSUME NEW r \in Report, UpsertDaily(r)
      PROVE  TypeOK'
  <2>1. UserOf(Item(r)) \in User
    BY <1>7 DEF UpsertDaily, ReportsWalk, AtItem
  <2>2. daily' \in [User -> Nat]
    BY <1>7, <2>1 DEF UpsertDaily, TypeOK
  <2>3. report' \in [Report -> ReportRow]
    BY <1>7, GotoRow DEF UpsertDaily, Steps
  <2>4. QED
    BY <1>7, <1>t, <2>2, <2>3 DEF UpsertDaily, TypeOK
<1>8. ASSUME NEW r \in Report, DailyFails(r)
      PROVE  TypeOK'
  <2>1. Item(r) \in Event
    BY <1>8, ItemTyped DEF DailyFails, AtItem
  <2>2. lost' \in [daily : SUBSET Event, events : SUBSET Event]
    BY <1>8, <2>1 DEF DailyFails, TypeOK
  <2>3. report' \in [Report -> ReportRow]
    BY <1>8, GotoRow DEF DailyFails, Steps
  <2>4. QED
    BY <1>8, <1>f, <1>t, <2>2, <2>3 DEF DailyFails, TypeOK
<1>9. ASSUME NEW r \in Report, GetQuota(r)
      PROVE  TypeOK'
  <2>1. Goto(r, "flag") \/ NextItem(r, report[r])
    BY <1>9 DEF GetQuota
  <2>2. report' \in [Report -> ReportRow]
    BY <2>1, GotoRow, NextItemRow DEF Steps
  <2>3. QED
    BY <1>9, <1>t, <2>2 DEF GetQuota, TypeOK, recordVars
<1>10. ASSUME NEW r \in Report, SetBanned(r)
       PROVE  TypeOK'
  <2> DEFINE u == UserOf(Item(r))
  <2>1. u \in User
    BY <1>10 DEF SetBanned, ReportsWalk, AtItem
  <2>2. quota' = [quota EXCEPT ![u] = [quota[u] EXCEPT !.banned = TRUE]]
    BY <1>10 DEF SetBanned
  <2>3. quota' \in [User -> Quota]
    BY <1>a, <2>1, <2>2, QuotaTyped
  <2>4. report' \in [Report -> ReportRow]
    BY <1>10, GotoRow DEF SetBanned, Steps
  <2>5. QED
    BY <1>10, <1>t, <1>q, <2>3, <2>4 DEF SetBanned, TypeOK, recordVars
<1>11. ASSUME NEW r \in Report, BansAdd(r)
       PROVE  TypeOK'
  <2>1. UserOf(Item(r)) \in User
    BY <1>11 DEF BansAdd, ReportsWalk, AtItem
  <2>2. QED
    BY <1>11, <1>t, <2>1, NextItemRow DEF BansAdd, TypeOK, recordVars
<1>12. ASSUME NEW r \in Report, BanFails(r)
       PROVE  TypeOK'
  <2>1. Goto(r, "list") \/ NextItem(r, report[r])
    BY <1>12 DEF BanFails
  <2>2. report' \in [Report -> ReportRow]
    BY <2>1, GotoRow, NextItemRow DEF Steps
  <2>3. QED
    BY <1>12, <1>f, <1>t, <2>2 DEF BanFails, TypeOK, recordVars
<1>13. ASSUME NEW r \in Report, SinkWrite(r)
       PROVE  TypeOK'
  <2> DEFINE row == report[r]
             e == <<r, row.events[row.j]>>
  <2>1. row.j \in DOMAIN row.events
    BY <1>13 DEF SinkWrite, EventsHeld
  <2>2. e \in Event
    BY <2>1, HeldTyped
  <2>3. ch' = [ch EXCEPT ![e] = @ + 1]
    BY <1>13 DEF SinkWrite
  <2>4. ch' \in [Event -> Nat]
    BY <2>2, <2>3 DEF TypeOK
  <2>5. row \in ReportRow /\ row.j + 1 \in Nat
    BY <1>a DEF ReportRow
  <2>6. \/ report' = [report EXCEPT ![r] = [row EXCEPT !.j = row.j + 1]]
        \/ report' = [report EXCEPT ![r] = [row EXCEPT !.at = "done"]]
    BY <1>13 DEF SinkWrite
  <2>7. [row EXCEPT !.j = row.j + 1] \in ReportRow /\ [row EXCEPT !.at = "done"] \in ReportRow
    BY <2>5 DEF ReportRow, Steps
  <2>8. report' \in [Report -> ReportRow]
    BY <1>a, <2>6, <2>7
  <2>9. QED
    BY <1>13, <1>t, <2>4, <2>8 DEF SinkWrite, TypeOK
<1>14. ASSUME NEW r \in Report, SinkFails(r)
       PROVE  TypeOK'
  BY <1>14, <1>f, <1>t, GotoRow DEF SinkFails, Steps, TypeOK, recordVars
<1>15. ASSUME NEW r \in Report, FallbackWrite(r)
       PROVE  TypeOK'
  <2>1. fallback' \in [Event -> Nat]
    BY <1>15 DEF FallbackWrite, TypeOK
  <2>2. report' \in [Report -> ReportRow]
    BY <1>15, GotoRow DEF FallbackWrite, Steps
  <2>3. QED
    BY <1>15, <1>t, <2>1, <2>2 DEF FallbackWrite, TypeOK
<1>16. ASSUME NEW r \in Report, FallbackFails(r)
       PROVE  TypeOK'
  <2>1. lost' \in [daily : SUBSET Event, events : SUBSET Event]
    BY <1>16, ToFallbackTyped DEF FallbackFails, TypeOK
  <2>2. report' \in [Report -> ReportRow]
    BY <1>16, GotoRow DEF FallbackFails, Steps
  <2>3. QED
    BY <1>16, <1>f, <1>t, <2>1, <2>2 DEF FallbackFails, TypeOK
<1>17. ASSUME RecomputeBans
       PROVE  TypeOK'
  <2> DEFINE WorkerType == [at : {"idle", "ban", "find", "unban"}, ids : SUBSET User]
  <2>1. worker' \in WorkerType
    BY <1>17 DEF RecomputeBans, RecomputeStep, ListBanCandidates, ListUnbanCandidates,
       FlagWritten, FlagFails, SetFlag, FlagsWritten, RecomputeFails, Limited, AtMost,
       BanCandidates, UnbanCandidates, TypeOK
  <2>2. UNCHANGED quota \/ \E u \in User, b \in BOOLEAN :
          quota' = [quota EXCEPT ![u] = [quota[u] EXCEPT !.banned = b]]
    BY <1>17 DEF RecomputeBans, RecomputeStep, ListBanCandidates, ListUnbanCandidates,
       FlagWritten, FlagFails, SetFlag, FlagsWritten, RecomputeFails
  <2>3. quota' \in [User -> Quota]
    BY <1>a, <2>2, QuotaTyped
  <2>4. /\ UNCHANGED <<recordVars, listed, known, report, forgiven, edits>>
        /\ Fails \/ UNCHANGED faults
    BY <1>17 DEF RecomputeBans, RecomputeStep, ListBanCandidates, ListUnbanCandidates,
       FlagWritten, FlagFails, SetFlag, FlagsWritten, RecomputeFails
  <2>5. QED
    BY <1>f, <1>q, <2>1, <2>3, <2>4 DEF TypeOK, recordVars
<1>18. ASSUME BanListExpires \/ FetchBanlist
       PROVE  TypeOK'
  BY <1>18 DEF BanListExpires, FetchBanlist, CurrentBans, TypeOK, recordVars
<1>19. ASSUME NEW u \in User, EditQuota(u)
       PROVE  TypeOK'
  <2>1. quota' \in [User -> Quota]
    BY <1>a, <1>19, EditsTyped
  <2>2. edits' \in 0 .. MaxEdits
    BY <1>19, TrafficAssumption DEF EditQuota, TypeOK, TrafficAssumption
  <2>3. QED
    BY <1>19, <1>q, <2>1, <2>2 DEF EditQuota, TypeOK, recordVars
<1>20. ASSUME NEW u \in User, ApplyPlan(u)
       PROVE  TypeOK'
  <2>1. quota' \in [User -> Quota]
    BY <1>a, <1>20, QuotaTyped DEF ApplyPlan
  <2>2. edits' \in 0 .. MaxEdits
    BY <1>20, TrafficAssumption DEF ApplyPlan, TypeOK, TrafficAssumption
  <2>3. Cardinality(counted[u]) \in Nat
    BY FS_CardinalityType DEF CountedInTurn
  <2>4. forgiven' \in [User -> Nat]
    BY <1>20, <2>3 DEF ApplyPlan, TypeOK
  <2>5. QED
    BY <1>20, <1>q, <2>1, <2>2, <2>4 DEF ApplyPlan, TypeOK, recordVars
<1>21. CASE UNCHANGED vars
  BY <1>21 DEF vars, recordVars, TypeOK
<1>22. QED
  BY <1>1, <1>2, <1>3, <1>4, <1>5, <1>6, <1>7, <1>8, <1>9, <1>10, <1>11, <1>12, <1>13,
     <1>14, <1>15, <1>16, <1>17, <1>18, <1>19, <1>20, <1>21
     DEF Next, ReportStep, ReportFault

-----------------------------------------------------------------------------
(* What a step does to the books: the statements by what they have in      *)
(* common.                                                                 *)

\* The report is at a step with the items and events it had.
Moves(r, step) ==
    /\ report'[r].at = step
    /\ report'[r].i = report[r].i /\ report'[r].j = report[r].j
    /\ report'[r].events = report[r].events
    /\ \A s \in Report : s # r => report'[s] = report[s]

\* Nothing is counted, and nobody's plan begins.
SameSums == \A u \in User : quota'[u].used = quota[u].used /\ forgiven'[u] = forgiven[u]

SameSinks == UNCHANGED <<ch, fallback>> /\ lost'.events = lost.events

\* The item is given up for the roll-up.
GivesUp(r) == lost'.daily = lost.daily \cup {Item(r)}

\* Edits, plans, bans and recomputations are outside the reports.
Outside ==
    /\ UNCHANGED <<report, daily, ch, fallback, counted, lost>>
    /\ \A u \in User :
         \/ quota'[u].used = quota[u].used /\ forgiven'[u] = forgiven[u]
         \/ quota'[u].used = 0 /\ forgiven'[u] = Cardinality(counted[u])

Begins(r) ==
    /\ report[r].at = "new"
    /\ Moves(r, IF Reports[r] = <<>> THEN "done" ELSE "item")
    /\ SameSums /\ SameSinks /\ UNCHANGED <<daily, counted, lost>>

LooksUp(r) ==
    /\ report[r].at = "item" /\ UserOf(Item(r)) \in User
    /\ report'[r].at = "incr"
    /\ report'[r].i = report[r].i /\ report'[r].j = report[r].j
    /\ report'[r].events = Append(report[r].events, report[r].i)
    /\ \A s \in Report : s # r => report'[s] = report[s]
    /\ SameSums /\ SameSinks /\ UNCHANGED <<daily, counted, lost>>

GoesOn(r) ==
    /\ report[r].at \in AtItem
    /\ NextItem(r, report[r])
    /\ IF report[r].at = "read" THEN GivesUp(r) ELSE report[r].at # "daily" /\ UNCHANGED lost
    /\ SameSums /\ SameSinks /\ UNCHANGED <<daily, counted>>

Counts(r) ==
    /\ report[r].at = "incr" /\ Moves(r, "read")
    /\ counted' = [counted EXCEPT ![UserOf(Item(r))] = @ \cup {Item(r)}]
    /\ \A u \in User :
         /\ quota'[u].used = quota[u].used + IF u = UserOf(Item(r)) THEN 1 ELSE 0
         /\ forgiven'[u] = forgiven[u]
    /\ SameSinks /\ UNCHANGED <<daily, lost>>

Proceeds(r) ==
    /\ <<report[r].at, report'[r].at>> \in {<<"read", "daily">>, <<"check", "flag">>,
                                           <<"flag", "list">>}
    /\ Moves(r, report'[r].at)
    /\ SameSums /\ SameSinks /\ UNCHANGED <<daily, counted, lost>>

RollsUp(r) ==
    /\ report[r].at = "daily" /\ Moves(r, "check")
    /\ \/ daily' = [daily EXCEPT ![UserOf(Item(r))] = @ + 1] /\ UNCHANGED lost
       \/ GivesUp(r) /\ UNCHANGED daily
    /\ SameSums /\ SameSinks /\ UNCHANGED counted

Stores(r) == SinkWrite(r) \/ SinkFails(r) \/ FallbackWrite(r) \/ FallbackFails(r)

ItemStep(r) == Begins(r) \/ LooksUp(r) \/ GoesOn(r) \/ Counts(r) \/ Proceeds(r) \/ RollsUp(r)

\* A write of a quota that leaves what was used.
LEMMA SameUsed ==
  ASSUME TypeOK, NEW u \in User, NEW q, q.used = quota[u].used,
         quota' = [quota EXCEPT ![u] = q]
  PROVE  \A v \in User : quota'[v].used = quota[v].used
BY DEF TypeOK

\* Every step is one of these.
LEMMA StepKinds ==
  TypeOK /\ Walk /\ [Next]_vars => Outside \/ \E r \in Report : ItemStep(r) \/ Stores(r)
<1> SUFFICES ASSUME TypeOK, Walk, [Next]_vars
             PROVE  Outside \/ \E r \in Report : ItemStep(r) \/ Stores(r)
  OBVIOUS
<1>a. quota \in [User -> Quota] /\ report \in [Report -> ReportRow]
  BY DEF TypeOK, Quota, ReportRow
<1>1. ASSUME NEW r \in Report, PostUsage(r)
      PROVE  Begins(r)
  BY <1>1, GotoRow DEF PostUsage, Steps, Begins, Moves, SameSums, SameSinks, recordVars
<1>2. ASSUME NEW r \in Report, UserIDByToken(r)
      PROVE  LooksUp(r) \/ GoesOn(r)
  <2>1. CASE UserOf(Item(r)) = Unknown
    BY <1>2, <2>1 DEF UserIDByToken, GoesOn, AtItem, SameSums, SameSinks, recordVars
  <2>2. CASE UserOf(Item(r)) # Unknown
    <3>1. UserOf(Item(r)) \in User
      BY <1>2, <2>2, ItemTyped DEF UserIDByToken, AtItem, Walk
    <3>2. report' = [report EXCEPT ![r] =
            [report[r] EXCEPT !.at = "incr", !.events = Append(@, report[r].i)]]
      BY <1>2, <2>2 DEF UserIDByToken
    <3>3. report'[r] = [report[r] EXCEPT !.at = "incr", !.events = Append(@, report[r].i)]
      BY <1>a, <3>2
    <3>4. /\ report'[r].at = "incr" /\ report'[r].i = report[r].i
          /\ report'[r].j = report[r].j
          /\ report'[r].events = Append(report[r].events, report[r].i)
      BY <1>a, <3>3 DEF ReportRow
    <3>5. \A s \in Report : s # r => report'[s] = report[s]
      BY <1>a, <3>2
    <3>6. QED
      BY <1>2, <3>1, <3>4, <3>5 DEF UserIDByToken, LooksUp, SameSums, SameSinks, recordVars
  <2>3. QED
    BY <2>1, <2>2
<1>3. ASSUME NEW r \in Report, TokenFails(r)
      PROVE  GoesOn(r)
  BY <1>3 DEF TokenFails, GoesOn, AtItem, SameSums, SameSinks, recordVars
<1>4. ASSUME NEW r \in Report, IncrTrafficUsed(r)
      PROVE  Counts(r)
  <2> DEFINE u == UserOf(Item(r))
  <2>1. u \in User
    BY <1>4 DEF IncrTrafficUsed, Walk, ReportsWalk, AtItem
  <2>2. quota' = [quota EXCEPT ![u] = [quota[u] EXCEPT !.used = quota[u].used + 1]]
    BY <1>4 DEF IncrTrafficUsed, Incremented
  <2>3. quota'[u].used = quota[u].used + 1
    BY <1>a, <2>1, <2>2 DEF Quota
  <2>4. \A v \in User : v # u => quota'[v].used = quota[v].used + 0
    BY <1>a, <2>2 DEF Quota
  <2>5. \A v \in User : quota'[v].used = quota[v].used + IF v = u THEN 1 ELSE 0
    BY <2>3, <2>4
  <2>6. Moves(r, "read")
    BY <1>4, GotoRow DEF IncrTrafficUsed, Steps, Moves
  <2>7. counted' = [counted EXCEPT ![u] = @ \cup {Item(r)}]
    BY <1>4 DEF IncrTrafficUsed
  <2>8. QED
    BY <1>4, <2>5, <2>6, <2>7 DEF IncrTrafficUsed, Counts, SameSinks
<1>5. ASSUME NEW r \in Report, IncrFails(r)
      PROVE  GoesOn(r)
  <2>1. lost' = IF report[r].at = "read" THEN [lost EXCEPT !.daily = @ \cup {Item(r)}]
                ELSE lost
    BY <1>5 DEF IncrFails
  <2>2. /\ lost'.events = lost.events
        /\ report[r].at = "read" => GivesUp(r)
        /\ report[r].at # "read" => UNCHANGED lost
    BY <2>1 DEF GivesUp, TypeOK
  <2>3. QED
    BY <1>5, <2>2 DEF IncrFails, GoesOn, AtItem, SameSums, SameSinks
<1>6. ASSUME NEW r \in Report, ReadUsed(r)
      PROVE  Proceeds(r)
  <2>1. report' = [report EXCEPT ![r] =
          [report[r] EXCEPT !.at = "daily", !.used = quota[UserOf(Item(r))].used]]
    BY <1>6 DEF ReadUsed
  <2>2. report'[r] = [report[r] EXCEPT !.at = "daily", !.used = quota[UserOf(Item(r))].used]
    BY <1>a, <2>1
  <2>3. Moves(r, "daily")
    BY <1>a, <2>1, <2>2 DEF ReportRow, Moves
  <2>4. QED
    BY <1>6, <2>3 DEF ReadUsed, Proceeds, Moves, SameSums, SameSinks, recordVars
<1>7. ASSUME NEW r \in Report, UpsertDaily(r)
      PROVE  RollsUp(r)
  BY <1>7, GotoRow DEF UpsertDaily, Steps, RollsUp, Moves, SameSums, SameSinks
<1>8. ASSUME NEW r \in Report, DailyFails(r)
      PROVE  RollsUp(r)
  <2>1. Moves(r, "check")
    BY <1>8, GotoRow DEF DailyFails, Steps, Moves
  <2>2. lost'.events = lost.events /\ GivesUp(r)
    BY <1>8 DEF DailyFails, GivesUp, TypeOK
  <2>3. QED
    BY <1>8, <2>1, <2>2 DEF DailyFails, RollsUp, SameSums, SameSinks
<1>9. ASSUME NEW r \in Report, GetQuota(r)
      PROVE  Proceeds(r) \/ GoesOn(r)
  <2>1. CASE Goto(r, "flag")
    <3>1. Moves(r, "flag")
      BY <2>1, GotoRow DEF Steps, Moves
    <3>2. QED
      BY <1>9, <3>1 DEF GetQuota, Proceeds, Moves, SameSums, SameSinks, recordVars
  <2>2. CASE NextItem(r, report[r])
    BY <1>9, <2>2 DEF GetQuota, GoesOn, AtItem, SameSums, SameSinks, recordVars
  <2>3. QED
    BY <1>9, <2>1, <2>2 DEF GetQuota
<1>10. ASSUME NEW r \in Report, SetBanned(r)
       PROVE  Proceeds(r)
  <2>1. Moves(r, "list")
    BY <1>10, GotoRow DEF SetBanned, Steps, Moves
  <2>2. UserOf(Item(r)) \in User
    BY <1>10 DEF SetBanned, Walk, ReportsWalk, AtItem
  <2>3. quota' = [quota EXCEPT ![UserOf(Item(r))] =
                    [quota[UserOf(Item(r))] EXCEPT !.banned = TRUE]]
    BY <1>10 DEF SetBanned
  <2>4. \A v \in User : quota'[v].used = quota[v].used
    BY <1>a, <2>2, <2>3 DEF Quota
  <2>5. QED
    BY <1>10, <2>1, <2>4 DEF SetBanned, Proceeds, Moves, SameSums, SameSinks, recordVars
<1>11. ASSUME NEW r \in Report, BansAdd(r)
       PROVE  GoesOn(r)
  BY <1>11 DEF BansAdd, GoesOn, AtItem, SameSums, SameSinks, recordVars
<1>12. ASSUME NEW r \in Report, BanFails(r)
       PROVE  Proceeds(r) \/ GoesOn(r)
  <2>1. CASE report[r].at = "flag"
    <3>1. Moves(r, "list")
      BY <1>12, <2>1, GotoRow DEF BanFails, Steps, Moves
    <3>2. QED
      BY <1>12, <2>1, <3>1 DEF BanFails, Proceeds, Moves, SameSums, SameSinks, recordVars
  <2>2. CASE report[r].at # "flag"
    BY <1>12, <2>2 DEF BanFails, GoesOn, AtItem, SameSums, SameSinks, recordVars
  <2>3. QED
    BY <2>1, <2>2
<1>13. ASSUME RecomputeBans
       PROVE  Outside
  <2>1. UNCHANGED quota \/ \E u \in User, b \in BOOLEAN :
          quota' = [quota EXCEPT ![u] = [quota[u] EXCEPT !.banned = b]]
    BY <1>13 DEF RecomputeBans, RecomputeStep, ListBanCandidates, ListUnbanCandidates,
       FlagWritten, FlagFails, SetFlag, FlagsWritten, RecomputeFails
  <2>2. \A v \in User : quota'[v].used = quota[v].used
    BY <1>a, <2>1 DEF Quota
  <2>3. UNCHANGED <<recordVars, report, forgiven>>
    BY <1>13 DEF RecomputeBans, RecomputeStep, ListBanCandidates, ListUnbanCandidates,
       FlagWritten, FlagFails, SetFlag, FlagsWritten, RecomputeFails
  <2>4. QED
    BY <2>2, <2>3 DEF Outside, recordVars
<1>14. ASSUME BanListExpires \/ FetchBanlist \/ UNCHANGED vars
       PROVE  Outside
  BY <1>14 DEF BanListExpires, FetchBanlist, vars, recordVars, Outside
<1>15. ASSUME NEW u \in User, EditQuota(u)
       PROVE  Outside
  <2>1. \A v \in User : quota'[v].used = quota[v].used
    BY <1>15, EditsTyped, SameUsed
  <2>2. QED
    BY <1>15, <2>1 DEF EditQuota, Outside, recordVars
<1>16. ASSUME NEW u \in User, ApplyPlan(u)
       PROVE  Outside
  <2>1. /\ quota'[u].used = 0 /\ forgiven'[u] = Cardinality(counted[u])
        /\ \A v \in User : v # u => quota'[v] = quota[v] /\ forgiven'[v] = forgiven[v]
    BY <1>a, <1>16 DEF ApplyPlan, PlanApplied, TypeOK, Quota
  <2>2. QED
    BY <1>16, <2>1 DEF ApplyPlan, Outside, recordVars
<1>17. QED
  BY <1>1, <1>2, <1>3, <1>4, <1>5, <1>6, <1>7, <1>8, <1>9, <1>10, <1>11, <1>12, <1>13,
     <1>14, <1>15, <1>16 DEF Next, ReportStep, ReportFault, ItemStep, Stores

-----------------------------------------------------------------------------
(* The invariants of the walk, kind by kind.                               *)

\* What the sinks do to a report: it is at an item no more.
LEMMA StoresMoves ==
  ASSUME TypeOK, Walk, NEW r \in Report, Stores(r)
  PROVE  /\ report[r].at \in {"sink", "fallback"}
         /\ report'[r].at \in {"sink", "fallback", "done"}
         /\ report'[r].i = report[r].i /\ report'[r].events = report[r].events
         /\ report'[r].at = "sink" => report'[r].j \in DOMAIN report[r].events
         /\ \A s \in Report : s # r => report'[s] = report[s]
         /\ UNCHANGED <<quota, daily, counted, forgiven>> /\ lost'.daily = lost.daily
<1>a. report \in [Report -> ReportRow]
  BY DEF TypeOK, ReportRow
<1>1. CASE SinkWrite(r)
  <2> DEFINE row == report[r]
  <2>1. row.at = "sink" /\ row.j \in DOMAIN row.events /\ row \in ReportRow
    BY <1>a, <1>1 DEF SinkWrite, Walk, EventsHeld
  <2>2. \/ /\ row.j < Len(row.events)
           /\ report' = [report EXCEPT ![r] = [row EXCEPT !.j = row.j + 1]]
        \/ report' = [report EXCEPT ![r] = [row EXCEPT !.at = "done"]]
    BY <1>1 DEF SinkWrite
  <2>3. row.events \in Seq(Nat) /\ row.j \in Nat
    BY <2>1 DEF ReportRow
  <2>4. row.j < Len(row.events) => row.j + 1 \in DOMAIN row.events
    BY <2>3
  <2>5. \A s \in Report : s # r => report'[s] = report[s]
    BY <1>a, <2>2
  <2>6. CASE report' = [report EXCEPT ![r] = [row EXCEPT !.at = "done"]]
    <3>1. report'[r] = [row EXCEPT !.at = "done"]
      BY <1>a, <2>6
    <3>2. QED
      BY <1>1, <2>1, <2>5, <3>1 DEF SinkWrite, ReportRow
  <2>7. CASE /\ row.j < Len(row.events)
             /\ report' = [report EXCEPT ![r] = [row EXCEPT !.j = row.j + 1]]
    <3>1. report'[r] = [row EXCEPT !.j = row.j + 1]
      BY <1>a, <2>7
    <3>2. QED
      BY <1>1, <2>1, <2>3, <2>4, <2>5, <2>7, <3>1 DEF SinkWrite, ReportRow
  <2>8. QED
    BY <2>2, <2>6, <2>7
<1>2. CASE SinkFails(r)
  BY <1>2, GotoRow DEF SinkFails, Steps, recordVars
<1>3. CASE FallbackWrite(r)
  BY <1>3, GotoRow DEF FallbackWrite, Steps
<1>4. CASE FallbackFails(r)
  <2>1. lost'.daily = lost.daily
    BY <1>4 DEF FallbackFails, TypeOK
  <2>2. QED
    BY <1>4, <2>1, GotoRow DEF FallbackFails, Steps
<1>5. QED
  BY <1>1, <1>2, <1>3, <1>4 DEF Stores

\* The reports walk through their items.
LEMMA WalkStep == TypeOK /\ Walk /\ [Next]_vars => ReportsWalk'
<1> SUFFICES ASSUME TypeOK, Walk, [Next]_vars PROVE ReportsWalk'
  OBVIOUS
<1> DEFINE Walks(r) == /\ report[r].at \in AtItem => report[r].i \in DOMAIN Reports[r]
                       /\ report[r].at \in AtItem \ {"item"} => UserOf(Item(r)) \in User
                       /\ report[r].at \in {"read", "daily"} => Item(r) \in counted[UserOf(Item(r))]
<1>a. \A r \in Report : Walks(r)
  BY DEF Walk, ReportsWalk
<1>1. ASSUME Outside
      PROVE  \A s \in Report : Walks(s)'
  BY <1>a, <1>1 DEF Outside, Item
<1>2. ASSUME NEW r \in Report, \A s \in Report : s # r => report'[s] = report[s],
             UNCHANGED counted, Walks(r)'
      PROVE  \A s \in Report : Walks(s)'
  BY <1>a, <1>2 DEF Item
<1>3. ASSUME NEW r \in Report, Begins(r)
      PROVE  \A s \in Report : Walks(s)'
  <2>1. Reports[r] # <<>> => report'[r].i \in DOMAIN Reports[r]
    <3>1. report'[r].i = report[r].i
      BY <1>3 DEF Begins, Moves
    <3>2. report[r].i = 1
      BY <1>3 DEF Begins, Walk, CountedInTurn
    <3>3. QED
      BY <3>1, <3>2, ReportTyped
  <2>2. Walks(r)'
    BY <1>3, <2>1 DEF Begins, Moves, AtItem
  <2>3. QED
    BY <1>2, <1>3, <2>2 DEF Begins, Moves
<1>4. ASSUME NEW r \in Report, LooksUp(r)
      PROVE  \A s \in Report : Walks(s)'
  <2>1. Walks(r)'
    BY <1>a, <1>4 DEF LooksUp, AtItem, Item
  <2>2. QED
    BY <1>2, <1>4, <2>1 DEF LooksUp
<1>5. ASSUME NEW r \in Report, GoesOn(r)
      PROVE  \A s \in Report : Walks(s)'
  <2>1. report[r].i \in DOMAIN Reports[r]
    BY <1>a, <1>5 DEF GoesOn
  <2>2. report'[r].at = "item" => report'[r].i \in DOMAIN Reports[r]
    BY <1>5, <2>1, NextItemRow, ReportTyped DEF GoesOn
  <2>3. report'[r].at \in {"item", "done", "sink", "fallback"}
        /\ \A s \in Report : s # r => report'[s] = report[s]
    BY <1>5, NextItemRow DEF GoesOn
  <2>4. Walks(r)'
    BY <2>2, <2>3 DEF AtItem
  <2>5. QED
    BY <1>2, <1>5, <2>3, <2>4 DEF GoesOn
<1>6. ASSUME NEW r \in Report, Counts(r)
      PROVE  \A s \in Report : Walks(s)'
  <2> DEFINE u == UserOf(Item(r))
  <2>1. u \in User /\ Item(r)' = Item(r)
    BY <1>a, <1>6 DEF Counts, Moves, AtItem, Item
  <2>2. \A v \in User : counted[v] \subseteq counted'[v]
    BY <1>6 DEF Counts, TypeOK
  <2>3. Item(r) \in counted'[u]
    BY <1>6, <2>1 DEF Counts, TypeOK
  <2>4. Walks(r)'
    BY <1>a, <1>6, <2>1, <2>3 DEF Counts, Moves, AtItem, Item
  <2>5. ASSUME NEW s \in Report, s # r
        PROVE  Walks(s)'
    BY <1>a, <1>6, <2>2, <2>5 DEF Counts, Moves, AtItem, Item
  <2>6. QED
    BY <2>4, <2>5
<1>7. ASSUME NEW r \in Report, Proceeds(r) \/ RollsUp(r)
      PROVE  \A s \in Report : Walks(s)'
  <2>1. Walks(r)'
    BY <1>a, <1>7 DEF Proceeds, RollsUp, Moves, AtItem, Item
  <2>2. QED
    BY <1>2, <1>7, <2>1 DEF Proceeds, RollsUp, Moves
<1>8. ASSUME NEW r \in Report, Stores(r)
      PROVE  \A s \in Report : Walks(s)'
  <2>1. Walks(r)'
    BY <1>8, StoresMoves DEF AtItem
  <2>2. QED
    BY <1>2, <1>8, <2>1, StoresMoves
<1>9. \A s \in Report : Walks(s)'
  BY <1>1, <1>3, <1>4, <1>5, <1>6, <1>7, <1>8, StepKinds DEF ItemStep
<1>10. QED
  BY <1>9 DEF ReportsWalk

\* Items are counted, and given up, in their turn.
LEMMA TurnStep == TypeOK /\ Walk /\ [Next]_vars => CountedInTurn'
<1> SUFFICES ASSUME TypeOK, Walk, [Next]_vars PROVE CountedInTurn'
  OBVIOUS
<1>a. /\ \A u \in User : /\ IsFiniteSet(counted[u])
                         /\ \A e \in counted[u] : UserOf(e) = u /\ Passed(e) /\ e \in Event
      /\ \A e \in lost.daily : Settled(e) /\ e \in Event
      /\ \A r \in Report : report[r].at = "new" => report[r].i = 1
  BY DEF Walk, CountedInTurn, TypeOK
<1>b. report \in [Report -> ReportRow]
  BY DEF TypeOK, ReportRow
<1>1. ASSUME Outside
      PROVE  CountedInTurn'
  BY <1>1, <1>a DEF Outside, CountedInTurn, Passed, Settled
<1>2. ASSUME NEW r \in Report, \A s \in Report : s # r => report'[s] = report[s],
             \A e \in Event : e[1] = r /\ Passed(e) => Passed(e)',
             \A e \in Event : e[1] = r /\ Settled(e) => Settled(e)',
             NEW i, i = Item(r),
             \/ UNCHANGED counted
             \/ /\ i \in Event /\ Passed(i)'
                /\ counted' = [counted EXCEPT ![UserOf(i)] = @ \cup {i}],
             \/ lost'.daily = lost.daily
             \/ lost'.daily = lost.daily \cup {i} /\ i \in Event /\ Settled(i)',
             report'[r].at # "new"
      PROVE  CountedInTurn'
  <2>1. \A e \in Event : /\ Passed(e) => Passed(e)'
                         /\ Settled(e) => Settled(e)'
    <3>1. \A e \in Event : e[1] # r => report'[e[1]] = report[e[1]]
      BY <1>2, EventShape
    <3>2. QED
      BY <1>2, <3>1 DEF Passed, Settled
  <2>2. \A s \in Report : report'[s].at = "new" => report'[s].i = 1
    BY <1>2, <1>a
  <2>3. \A e \in lost'.daily : Settled(e)'
    BY <1>2, <1>a, <2>1
  <2>4. CASE UNCHANGED counted
    BY <1>a, <2>1, <2>2, <2>3, <2>4 DEF CountedInTurn
  <2>5. CASE /\ i \in Event /\ Passed(i)'
             /\ counted' = [counted EXCEPT ![UserOf(i)] = @ \cup {i}]
    <3>1. \A u \in User : counted'[u] = IF u = UserOf(i) THEN counted[u] \cup {i} ELSE counted[u]
      BY <2>5 DEF TypeOK
    <3>2. \A u \in User : IsFiniteSet(counted'[u])
      <4>1. \A u \in User : IsFiniteSet(counted[u] \cup {i})
        BY <1>a, FS_AddElement
      <4>2. QED
        BY <1>a, <3>1, <4>1
    <3>3. \A u \in User : \A e \in counted'[u] : (e = i /\ u = UserOf(i)) \/ e \in counted[u]
      BY <3>1
    <3>4. \A u \in User : \A e \in counted'[u] : UserOf(e) = u
      BY <1>a, <3>3
    <3>5. \A u \in User : \A e \in counted'[u] : Passed(e)'
      BY <1>a, <2>1, <2>5, <3>3
    <3>6. QED
      BY <2>2, <2>3, <3>2, <3>4, <3>5 DEF CountedInTurn
  <2>6. QED
    BY <1>2, <2>4, <2>5
<1>3. ASSUME NEW r \in Report, Begins(r)
      PROVE  CountedInTurn'
  <2>1. \A e \in Event : e[1] = r => ~Passed(e)
    BY <1>3, <1>a, EventShape, ReportTyped DEF Begins, Passed
  <2>2. QED
    BY <1>2, <1>3, <2>1 DEF Begins, Moves, Settled
<1>4. ASSUME NEW r \in Report, LooksUp(r)
      PROVE  CountedInTurn'
  BY <1>2, <1>4 DEF LooksUp, Passed, Settled
<1>c. ASSUME NEW r \in Report, report[r].at \in AtItem
      PROVE  /\ report[r].i \in Nat
             /\ Item(r) \in Event /\ Item(r)[1] = r /\ Item(r)[2] = report[r].i
  BY <1>b, <1>c, ItemTyped DEF ReportRow, Item, Walk
<1>5. ASSUME NEW r \in Report, GoesOn(r)
      PROVE  CountedInTurn'
  <2>1. PICK i : i = Item(r)
    OBVIOUS
  <2>2. report[r].i \in Nat /\ i \in Event /\ i[1] = r /\ i[2] = report[r].i
    BY <1>5, <1>c, <2>1 DEF GoesOn
  <2>3. /\ \A s \in Report : s # r => report'[s] = report[s]
        /\ \/ report'[r].at = "item" /\ report'[r].i = report[r].i + 1
           \/ report'[r].at \in {"done", "sink", "fallback"} /\ report'[r].i = report[r].i
    BY <1>5, NextItemRow DEF GoesOn
  <2>4. \A e \in Event : e[1] = r => e[2] \in Nat
    BY EventShape, ReportTyped
  <2>5. \A e \in Event : e[1] = r /\ Passed(e) => Settled(e)'
    BY <2>2, <2>3, <2>4 DEF Passed, Settled
  <2>6. Settled(i)'
    BY <2>2, <2>3 DEF Passed, Settled
  <2>7. lost'.daily = lost.daily \/ lost'.daily = lost.daily \cup {i}
    BY <1>5, <2>1 DEF GoesOn, GivesUp
  <2>8. report'[r].at # "new" /\ UNCHANGED counted
    BY <1>5, <2>3 DEF GoesOn
  <2>9. QED
    BY <1>2, <2>1, <2>2, <2>3, <2>5, <2>6, <2>7, <2>8 DEF Settled
<1>6. ASSUME NEW r \in Report, Counts(r)
      PROVE  CountedInTurn'
  <2>1. PICK i : i = Item(r)
    OBVIOUS
  <2>2. i \in Event /\ i[1] = r /\ i[2] = report[r].i
    BY <1>6, <1>c, <2>1 DEF Counts, AtItem
  <2>3. Passed(i)'
    BY <1>6, <2>2 DEF Counts, Moves, Passed
  <2>4. \A e \in Event : e[1] = r /\ Passed(e) => Passed(e)' /\ Settled(e)'
    BY <1>6, <1>b, EventShape, ReportTyped DEF Counts, Moves, Passed, Settled, ReportRow
  <2>5. QED
    BY <1>2, <1>6, <2>1, <2>2, <2>3, <2>4 DEF Counts, Moves, Settled
<1>7. ASSUME NEW r \in Report, Proceeds(r)
      PROVE  CountedInTurn'
  BY <1>2, <1>7 DEF Proceeds, Moves, Passed, Settled
<1>8. ASSUME NEW r \in Report, RollsUp(r)
      PROVE  CountedInTurn'
  <2>1. PICK i : i = Item(r)
    OBVIOUS
  <2>2. i \in Event /\ i[1] = r /\ i[2] = report[r].i
    BY <1>8, <1>c, <2>1 DEF RollsUp, AtItem
  <2>3. Settled(i)'
    BY <1>8, <2>2 DEF RollsUp, Moves, Passed, Settled
  <2>4. \A e \in Event : e[1] = r /\ Passed(e) => Passed(e)' /\ Settled(e)'
    BY <1>8 DEF RollsUp, Moves, Passed, Settled
  <2>5. QED
    BY <1>2, <1>8, <2>1, <2>2, <2>3, <2>4 DEF RollsUp, Moves, GivesUp, Settled
<1>9. ASSUME NEW r \in Report, Stores(r)
      PROVE  CountedInTurn'
  <2>1. \A e \in Event : e[1] = r /\ Passed(e) => Passed(e)' /\ Settled(e)'
    BY <1>9, StoresMoves DEF Passed, Settled
  <2>2. QED
    BY <1>2, <1>9, <2>1, StoresMoves DEF Settled
<1>10. QED
  BY <1>1, <1>3, <1>4, <1>5, <1>6, <1>7, <1>8, <1>9, StepKinds DEF ItemStep

\* The events a report holds, by what becomes of them at a step.
HoldsWell(r) ==
    /\ \A m \in DOMAIN report[r].events :
         /\ report[r].events[m] \in DOMAIN Reports[r]
         /\ report[r].events[m] <= report[r].i
         /\ report[r].at \in {"new", "item"} => report[r].events[m] < report[r].i
    /\ \A m, n \in DOMAIN report[r].events :
         report[r].events[m] = report[r].events[n] => m = n
    /\ report[r].at \in AtItem \ {"item"} => report[r].i \in Held(r)
    /\ report[r].at \in AtItem \cup {"new"} => report[r].j = 1
    /\ report[r].at = "sink" => report[r].j \in DOMAIN report[r].events

\* A report holds its events through every step.
LEMMA HeldStep == TypeOK /\ Walk /\ [Next]_vars => EventsHeld'
<1> SUFFICES ASSUME TypeOK, Walk, [Next]_vars PROVE EventsHeld'
  OBVIOUS
<1>a. /\ \A r \in Report : HoldsWell(r)
      /\ \A u \in User : \A e \in counted[u] : e \in Event /\ e[2] \in Held(e[1])
  BY DEF Walk, EventsHeld, HoldsWell, TypeOK
<1>b. \A r \in Report : /\ report[r] \in ReportRow
                        /\ report[r].events \in Seq(Nat) /\ report[r].i \in Nat
                        /\ DOMAIN report[r].events = 1 .. Len(report[r].events)
  BY DEF TypeOK, ReportRow
<1>1. ASSUME Outside
      PROVE  EventsHeld'
  BY <1>1, <1>a DEF Outside, EventsHeld, HoldsWell, Held
<1>2. ASSUME NEW r \in Report, \A s \in Report : s # r => report'[s] = report[s],
             HoldsWell(r)', Held(r) \subseteq Held(r)',
             NEW i, i = Item(r),
             \/ UNCHANGED counted
             \/ /\ i \in Event /\ i[1] = r /\ i[2] \in Held(r)
                /\ counted' = [counted EXCEPT ![UserOf(i)] = @ \cup {i}]
      PROVE  EventsHeld'
  <2>1. \A s \in Report : HoldsWell(s)'
    BY <1>a, <1>2 DEF HoldsWell, Held
  <2>2. \A s \in Report : Held(s) \subseteq Held(s)'
    BY <1>2 DEF Held
  <2>3. \A u \in User : \A e \in counted'[u] :
          e \in counted[u] \/ (e = i /\ e[1] = r /\ e[2] \in Held(r))
    <3>1. CASE UNCHANGED counted
      BY <3>1
    <3>2. CASE /\ i \in Event /\ i[1] = r /\ i[2] \in Held(r)
               /\ counted' = [counted EXCEPT ![UserOf(i)] = @ \cup {i}]
      <4>1. \A u \in User : counted'[u] = IF u = UserOf(i) THEN counted[u] \cup {i} ELSE counted[u]
        BY <3>2 DEF TypeOK
      <4>2. QED
        BY <3>2, <4>1
    <3>3. QED
      BY <1>2, <3>1, <3>2
  <2>4. \A u \in User : \A e \in counted'[u] : e[1] \in Report /\ e[2] \in Held(e[1])
    BY <1>2, <1>a, <2>3, EventShape
  <2>5. \A u \in User : \A e \in counted'[u] : e[2] \in Held(e[1])'
    BY <2>2, <2>4
  <2>6. QED
    BY <2>1, <2>5 DEF EventsHeld, HoldsWell
<1>3. ASSUME NEW r \in Report, report'[r].events = report[r].events,
             \/ report'[r].i = report[r].i
             \/ report'[r].i = report[r].i + 1,
             report'[r].at = "item" => report'[r].i = report[r].i + 1 \/ report[r].at = "new",
             report'[r].at # "new",
             report'[r].at \in AtItem \ {"item"} =>
               report[r].at \in AtItem \ {"item"} /\ report'[r].i = report[r].i,
             report'[r].at \in AtItem => report'[r].j = 1,
             report'[r].at = "sink" => report'[r].j \in DOMAIN report[r].events
      PROVE  HoldsWell(r)' /\ Held(r)' = Held(r)
  <2>1. Held(r)' = Held(r)
    BY <1>3 DEF Held
  <2>2. HoldsWell(r)
    BY <1>a
  <2>3. \A m \in DOMAIN report[r].events :
          /\ report[r].events[m] \in DOMAIN Reports[r] /\ report[r].events[m] \in Nat
          /\ report[r].events[m] <= report'[r].i
          /\ report'[r].at \in {"new", "item"} => report[r].events[m] < report'[r].i
    BY <1>3, <1>b, <2>2 DEF HoldsWell
  <2>4. \A m, n \in DOMAIN report[r].events :
          report[r].events[m] = report[r].events[n] => m = n
    BY <2>2 DEF HoldsWell
  <2>5. report'[r].at \in AtItem \ {"item"} => report'[r].i \in Held(r)
    BY <1>3, <2>2 DEF HoldsWell
  <2>6. HoldsWell(r)'
    BY <1>3, <2>1, <2>3, <2>4, <2>5 DEF HoldsWell
  <2>7. QED
    BY <2>1, <2>6
<1>4. ASSUME NEW r \in Report, Begins(r)
      PROVE  EventsHeld'
  <2>1. HoldsWell(r)' /\ Held(r)' = Held(r)
    BY <1>3, <1>4, <1>a DEF Begins, Moves, AtItem, HoldsWell
  <2>2. QED
    BY <1>2, <1>4, <2>1 DEF Begins, Moves
<1>5. ASSUME NEW r \in Report, LooksUp(r)
      PROVE  EventsHeld'
  <2> DEFINE old == report[r].events
             new == report'[r].events
  <2>1. /\ new = Append(old, report[r].i) /\ old \in Seq(Nat)
        /\ report[r].i \in Nat /\ report'[r].i = report[r].i
        /\ report'[r].at = "incr" /\ report'[r].j = report[r].j
    BY <1>5, <1>b DEF LooksUp
  <2>2. HoldsWell(r) /\ report[r].i \in DOMAIN Reports[r]
    BY <1>5, <1>a DEF LooksUp, Walk, ReportsWalk, AtItem
  <2>3. /\ DOMAIN new = 1 .. Len(old) + 1 /\ DOMAIN old = 1 .. Len(old)
        /\ Len(old) \in Nat
        /\ new[Len(old) + 1] = report[r].i
        /\ \A m \in DOMAIN old : new[m] = old[m] /\ new[m] < report[r].i
        /\ \A m \in DOMAIN new : m \in DOMAIN old \/ m = Len(old) + 1
    BY <1>5, <2>1, <2>2 DEF HoldsWell, LooksUp
  <2>4. \A m \in DOMAIN new : new[m] \in DOMAIN Reports[r] /\ new[m] <= report[r].i
    BY <1>b, <2>1, <2>2, <2>3 DEF HoldsWell
  <2>5. \A m, n \in DOMAIN new : new[m] = new[n] => m = n
    <3>1. \A m \in DOMAIN old : new[m] \in Nat /\ new[m] # new[Len(old) + 1]
      BY <1>b, <2>1, <2>3
    <3>2. \A m, n \in DOMAIN old : new[m] = new[n] => m = n
      BY <2>2, <2>3 DEF HoldsWell
    <3>3. QED
      BY <2>3, <3>1, <3>2
  <2>6. report[r].i \in Held(r)' /\ Held(r) \subseteq Held(r)'
    BY <2>3 DEF Held
  <2>7. report'[r].j = 1
    BY <1>5, <2>1, <2>2 DEF HoldsWell, AtItem, LooksUp
  <2>8. HoldsWell(r)'
    BY <2>1, <2>4, <2>5, <2>6, <2>7 DEF HoldsWell
  <2>9. QED
    BY <1>2, <1>5, <2>6, <2>8 DEF LooksUp
<1>6. ASSUME NEW r \in Report, GoesOn(r)
      PROVE  EventsHeld'
  <2>1. report[r].j = 1 /\ report[r].at \in AtItem
    BY <1>6, <1>a DEF GoesOn, HoldsWell
  <2>2. report[r].events # <<>> => 1 \in DOMAIN report[r].events
    BY <1>b
  <2>3. HoldsWell(r)' /\ Held(r)' = Held(r)
    BY <1>3, <1>6, <2>1, <2>2, NextItemRow DEF GoesOn, AtItem
  <2>4. QED
    BY <1>2, <1>6, <2>3, NextItemRow DEF GoesOn
<1>7. ASSUME NEW r \in Report, Counts(r)
      PROVE  EventsHeld'
  <2>1. report[r].j = 1 /\ report[r].i \in Held(r)
    BY <1>7, <1>a DEF Counts, HoldsWell, AtItem
  <2>2. HoldsWell(r)' /\ Held(r)' = Held(r)
    BY <1>3, <1>7, <2>1 DEF Counts, Moves, AtItem
  <2>3. Item(r) \in Event /\ Item(r) = <<r, report[r].i>>
    BY <1>7, ItemTyped DEF Counts, AtItem, Walk
  <2>4. PICK i : i = Item(r)
    OBVIOUS
  <2>5. QED
    BY <1>2, <1>7, <2>1, <2>2, <2>3, <2>4 DEF Counts, Moves
<1>8. ASSUME NEW r \in Report, Proceeds(r) \/ RollsUp(r)
      PROVE  EventsHeld'
  <2>1. report[r].j = 1
    BY <1>8, <1>a DEF Proceeds, RollsUp, HoldsWell, AtItem
  <2>2. HoldsWell(r)' /\ Held(r)' = Held(r)
    BY <1>3, <1>8, <2>1 DEF Proceeds, RollsUp, Moves, AtItem
  <2>3. QED
    BY <1>2, <1>8, <2>2 DEF Proceeds, RollsUp, Moves
<1>9. ASSUME NEW r \in Report, Stores(r)
      PROVE  EventsHeld'
  <2>1. HoldsWell(r)' /\ Held(r)' = Held(r)
    BY <1>3, <1>9, StoresMoves DEF AtItem
  <2>2. QED
    BY <1>2, <1>9, <2>1, StoresMoves
<1>10. QED
  BY <1>1, <1>4, <1>5, <1>6, <1>7, <1>8, <1>9, StepKinds DEF ItemStep

\* The types and the walk of the reports, together.
LEMMA Inductive == Spec => [](TypeOK /\ Walk)
<1>1. Init => TypeOK
  BY TrafficAssumption DEF Init, TypeOK, Steps, Plans, TrafficAssumption
<1>2. Init => Walk
  <2> SUFFICES ASSUME Init PROVE Walk
    OBVIOUS
  <2>1. \A r \in Report : report[r] = [at |-> "new", i |-> 1, j |-> 1, used |-> 0, events |-> <<>>]
    BY DEF Init
  <2>2. ReportsWalk /\ EventsHeld
    BY <2>1 DEF Init, ReportsWalk, EventsHeld, AtItem
  <2>3. CountedInTurn
    BY <2>1, FS_EmptySet DEF Init, CountedInTurn
  <2>4. QED
    BY <2>2, <2>3 DEF Walk
<1>3. TypeOK /\ Walk /\ [Next]_vars => TypeOK' /\ Walk'
  BY TypeStep, WalkStep, TurnStep, HeldStep DEF Walk
<1>4. QED
  BY <1>1, <1>2, <1>3, PTL DEF Spec

\* The types hold of every behaviour.
THEOREM TypeCorrect == Spec => []TypeOK
BY Inductive, PTL

-----------------------------------------------------------------------------
(* The sums.                                                               *)

\* The two halves of UsageAddsUp.
SumsAgree == \A u \in User : quota[u].used + forgiven[u] = Cardinality(counted[u])

RolledUp(u) == (counted[u] \ UnderWay(u)) \ lost.daily

RollUpAgrees == \A u \in User : daily[u] = Cardinality(RolledUp(u))

\* An item is counted when it is added, and not before.
LEMMA SumsStep == TypeOK /\ Walk /\ SumsAgree /\ [Next]_vars => SumsAgree'
<1> SUFFICES ASSUME TypeOK, Walk, SumsAgree, [Next]_vars PROVE SumsAgree'
  OBVIOUS
<1>1. \A u \in User : Cardinality(counted[u]) \in Nat
  BY FS_CardinalityType DEF Walk, CountedInTurn
<1>2. CASE Outside
  BY <1>1, <1>2 DEF Outside, SumsAgree
<1>3. ASSUME NEW r \in Report, Counts(r)
      PROVE  SumsAgree'
  <2> DEFINE i == Item(r)
             u == UserOf(i)
  <2>1. i[1] = r /\ i[2] = report[r].i /\ report[r].i \in Nat
    BY <1>3 DEF Item, TypeOK
  <2>2. i \notin counted[u] /\ u \in User
    <3>1. ~Passed(i)
      BY <1>3, <2>1 DEF Counts, Passed
    <3>2. u \in User
      BY <1>3 DEF Counts, Walk, ReportsWalk, AtItem
    <3>3. QED
      BY <3>1, <3>2 DEF Walk, CountedInTurn
  <2>3. Cardinality(counted[u] \cup {i}) = Cardinality(counted[u]) + 1
    BY <2>2, FS_AddElement DEF Walk, CountedInTurn
  <2>4. /\ counted'[u] = counted[u] \cup {i}
        /\ \A v \in User : v # u => counted'[v] = counted[v]
    BY <1>3, <2>2 DEF Counts, TypeOK
  <2>5. /\ quota'[u].used = quota[u].used + 1 /\ forgiven'[u] = forgiven[u]
        /\ \A v \in User : v # u => /\ quota'[v].used = quota[v].used + 0
                                   /\ forgiven'[v] = forgiven[v]
    BY <1>3, <2>2 DEF Counts
  <2>6. \A v \in User : quota[v].used \in Nat /\ forgiven[v] \in Nat
    BY DEF TypeOK
  <2> HIDE DEF i, u
  <2>7. quota'[u].used + forgiven'[u] = Cardinality(counted'[u])
    BY <1>1, <2>2, <2>3, <2>4, <2>5, <2>6 DEF SumsAgree
  <2>8. ASSUME NEW v \in User, v # u
        PROVE  quota'[v].used + forgiven'[v] = Cardinality(counted'[v])
    <3>1. quota'[v].used = quota[v].used /\ forgiven'[v] = forgiven[v] /\ counted'[v] = counted[v]
      BY <2>4, <2>5, <2>6, <2>8
    <3>2. quota[v].used + forgiven[v] = Cardinality(counted[v])
      BY DEF SumsAgree
    <3>3. QED
      BY <3>1, <3>2
  <2>9. QED
    BY <2>7, <2>8 DEF SumsAgree
<1>4. ASSUME NEW r \in Report,
             Begins(r) \/ LooksUp(r) \/ GoesOn(r) \/ Proceeds(r) \/ RollsUp(r) \/ Stores(r)
      PROVE  SumsAgree'
  <2>1. SameSums /\ UNCHANGED counted
    BY <1>4, StoresMoves DEF Begins, LooksUp, GoesOn, Proceeds, RollsUp, SameSums
  <2>2. QED
    BY <2>1 DEF SameSums, SumsAgree
<1>5. QED
  BY <1>2, <1>3, <1>4, StepKinds DEF ItemStep

\* What is rolled up, by the item: counted, settled and not given up.
LEMMA RolledUpItems ==
  ASSUME TypeOK, CountedInTurn, NEW u \in User, NEW e
  PROVE  e \in RolledUp(u) <=> e \in counted[u] /\ Settled(e) /\ e \notin lost.daily
BY DEF CountedInTurn, RolledUp, UnderWay, Settled

\* An item is rolled up once, or given up.
LEMMA RollUpStep ==
  TypeOK /\ Walk /\ RollUpAgrees /\ [Next]_vars => RollUpAgrees'
<1> SUFFICES ASSUME TypeOK, Walk, RollUpAgrees, [Next]_vars PROVE RollUpAgrees'
  OBVIOUS
<1>a. /\ CountedInTurn /\ TypeOK' /\ CountedInTurn'
      /\ \A r \in Report : report[r].i \in Nat
      /\ \A u \in User : \A e \in counted[u] : e \in Event /\ e[1] \in Report /\ e[2] \in Nat
  <2>1. \A e \in Event : e[1] \in Report /\ e[2] \in Nat
    BY EventShape, ReportTyped
  <2>2. QED
    BY <2>1, TypeStep, TurnStep DEF Walk, TypeOK
<1>b. ASSUME \A u \in User : \A e : e \in RolledUp(u)' <=> e \in RolledUp(u), UNCHANGED daily
      PROVE  RollUpAgrees'
  <2>1. \A u \in User : RolledUp(u)' = RolledUp(u)
    BY <1>b
  <2>2. QED
    BY <1>b, <2>1 DEF RollUpAgrees
<1>c. \A u \in User : \A e :
        /\ e \in RolledUp(u) <=> e \in counted[u] /\ Settled(e) /\ e \notin lost.daily
        /\ e \in RolledUp(u)' <=> e \in counted'[u] /\ Settled(e)' /\ e \notin lost'.daily
  <2>1. \A u \in User : \A e :
          e \in RolledUp(u) <=> e \in counted[u] /\ Settled(e) /\ e \notin lost.daily
    BY <1>a, RolledUpItems
  <2>2. ASSUME NEW u \in User, NEW e
        PROVE  (e \in RolledUp(u) <=> e \in counted[u] /\ Settled(e) /\ e \notin lost.daily)'
    BY <1>a DEF CountedInTurn, RolledUp, UnderWay, Settled
  <2>3. QED
    BY <2>1, <2>2
<1>1. CASE Outside
  BY <1>1, <1>b DEF Outside, RolledUp, UnderWay
<1>2. ASSUME NEW r \in Report, \A s \in Report : s # r => report'[s] = report[s],
             UNCHANGED <<counted, daily>>, lost'.daily = lost.daily,
             \A u \in User : \A e \in counted[u] : e[1] = r => (Settled(e)' <=> Settled(e))
      PROVE  RollUpAgrees'
  <2>1. \A u \in User : \A e \in counted[u] : Settled(e)' <=> Settled(e)
    BY <1>2, <1>a DEF Passed, Settled
  <2>2. QED
    BY <1>2, <1>b, <1>c, <2>1
<1>3. ASSUME NEW r \in Report, Begins(r) \/ LooksUp(r) \/ Proceeds(r) \/ Stores(r)
      PROVE  RollUpAgrees'
  <2>1. \A u \in User : \A e \in counted[u] : Passed(e)
    BY <1>a DEF CountedInTurn
  <2>2. CASE Begins(r)
    BY <1>2, <2>1, <2>2, <1>a DEF Begins, Moves, Passed, Settled
  <2>3. CASE LooksUp(r)
    BY <1>2, <2>1, <2>3, <1>a DEF LooksUp, Passed, Settled
  <2>4. CASE Proceeds(r)
    BY <1>2, <2>1, <2>4, <1>a DEF Proceeds, Moves, Passed, Settled
  <2>5. CASE Stores(r)
    BY <1>2, <2>1, <2>5, <1>a, StoresMoves DEF Passed, Settled
  <2>6. QED
    BY <1>3, <2>2, <2>3, <2>4, <2>5
<1>4. ASSUME NEW r \in Report, GoesOn(r)
      PROVE  RollUpAgrees'
  <2>1. PICK i : i = Item(r)
    OBVIOUS
  <2>2. i = <<r, report[r].i>> /\ i[1] = r /\ i[2] = report[r].i
    BY <2>1 DEF Item
  <2>3. /\ \A s \in Report : s # r => report'[s] = report[s]
        /\ \/ report'[r].at = "item" /\ report'[r].i = report[r].i + 1
           \/ report'[r].at \in {"done", "sink", "fallback"} /\ report'[r].i = report[r].i
    BY <1>4, NextItemRow DEF GoesOn
  <2>4. \A u \in User : \A e \in counted[u] :
          /\ e[1] = r => Settled(e)'
          /\ e[1] = r /\ e # i => Settled(e)
    <3>1. \A u \in User : \A e \in counted[u] : Passed(e) /\ e = <<e[1], e[2]>>
      BY <1>a, EventShape DEF CountedInTurn
    <3>2. QED
      BY <1>a, <2>2, <2>3, <3>1 DEF Passed, Settled
  <2>5. CASE report[r].at = "read"
    <3>1. lost'.daily = lost.daily \cup {i} /\ UNCHANGED <<counted, daily>>
      BY <1>4, <2>1, <2>5 DEF GoesOn, GivesUp
    <3>2. ~Settled(i)
      BY <2>2, <2>5 DEF Settled
    <3>3. \A u \in User : \A e \in counted[u] : e[1] # r => (Settled(e)' <=> Settled(e))
      BY <1>a, <2>3 DEF Passed, Settled
    <3>4. \A u \in User : \A e : e \in RolledUp(u)' <=> e \in RolledUp(u)
      BY <1>c, <2>4, <3>1, <3>2, <3>3
    <3>5. QED
      BY <1>b, <3>1, <3>4
  <2>6. CASE report[r].at # "read"
    <3>1. report[r].at # "daily" /\ UNCHANGED <<counted, daily, lost>>
      BY <1>4, <2>6 DEF GoesOn
    <3>2. \A u \in User : \A e \in counted[u] : e[1] = r => Settled(e)
      BY <1>a, <2>6, <3>1 DEF CountedInTurn, Settled
    <3>3. QED
      BY <1>2, <2>3, <2>4, <3>1, <3>2
  <2>7. QED
    BY <2>5, <2>6
<1>5. ASSUME NEW r \in Report, Counts(r)
      PROVE  RollUpAgrees'
  <2>1. PICK i : i = Item(r)
    OBVIOUS
  <2>2. i = <<r, report[r].i>> /\ i[1] = r /\ i[2] = report[r].i
    BY <2>1 DEF Item
  <2>3. \A u \in User : counted[u] \subseteq counted'[u] /\ counted'[u] \subseteq counted[u] \cup {i}
    BY <1>5, <2>1 DEF Counts, TypeOK
  <2>4. ~Settled(i)' /\ ~Settled(i)
    BY <1>5, <1>a, <2>2 DEF Counts, Moves, Passed, Settled
  <2>5. \A u \in User : \A e \in counted[u] : Settled(e)' <=> Settled(e)
    <3>1. \A u \in User : \A e \in counted[u] : Passed(e)
      BY <1>a DEF CountedInTurn
    <3>2. QED
      BY <1>5, <1>a, <3>1 DEF Counts, Moves, Passed, Settled
  <2>6. UNCHANGED <<daily, lost>>
    BY <1>5 DEF Counts
  <2>7. QED
    BY <1>b, <1>c, <2>3, <2>4, <2>5, <2>6
<1>6. ASSUME NEW r \in Report, RollsUp(r)
      PROVE  RollUpAgrees'
  <2>1. PICK i : i = Item(r)
    OBVIOUS
  <2>2. PICK v \in User : v = UserOf(i) /\ i \in counted[v]
    BY <1>6, <2>1 DEF RollsUp, Walk, ReportsWalk, AtItem
  <2>3. i = <<r, report[r].i>> /\ i[1] = r /\ i[2] = report[r].i
    BY <2>1 DEF Item
  <2>4. /\ ~Settled(i) /\ Settled(i)' /\ i \notin lost.daily
        /\ \A u \in User : u # v => i \notin counted[u]
    <3>1. ~Settled(i)
      BY <1>6, <2>3 DEF RollsUp, Settled
    <3>2. Settled(i)'
      BY <1>6, <2>3 DEF RollsUp, Moves, Passed, Settled
    <3>3. QED
      BY <1>a, <2>2, <3>1, <3>2 DEF CountedInTurn
  <2>5. \A u \in User : \A e \in counted[u] : e # i => (Settled(e)' <=> Settled(e))
    <3>1. \A u \in User : \A e \in counted[u] : Passed(e) /\ e = <<e[1], e[2]>>
      BY <1>a, EventShape DEF CountedInTurn
    <3>2. QED
      BY <1>6, <1>a, <2>3, <3>1 DEF RollsUp, Moves, Passed, Settled
  <2>6. UNCHANGED counted
    BY <1>6 DEF RollsUp
  <2>7. CASE GivesUp(r) /\ UNCHANGED daily
    <3>1. lost'.daily = lost.daily \cup {i}
      BY <2>1, <2>7 DEF GivesUp
    <3>2. QED
      BY <1>b, <1>c, <2>4, <2>5, <2>6, <2>7, <3>1
  <2>8. CASE daily' = [daily EXCEPT ![UserOf(Item(r))] = @ + 1] /\ UNCHANGED lost
    <3>1. RolledUp(v)' = RolledUp(v) \cup {i}
      <4>1. \A e : e \in RolledUp(v)' <=> e \in RolledUp(v) \cup {i}
        BY <1>c, <2>2, <2>4, <2>5, <2>6, <2>8
      <4>2. QED
        BY <4>1
    <3>2. \A u \in User : u # v => RolledUp(u)' = RolledUp(u)
      <4>1. \A u \in User : u # v => \A e : e \in RolledUp(u)' <=> e \in RolledUp(u)
        BY <1>c, <2>4, <2>5, <2>6, <2>8
      <4>2. QED
        BY <4>1
    <3>3. i \notin RolledUp(v) /\ IsFiniteSet(RolledUp(v))
      <4>1. IsFiniteSet(counted[v]) /\ RolledUp(v) \subseteq counted[v]
        BY <1>a DEF CountedInTurn, RolledUp
      <4>2. QED
        BY <1>c, <2>4, <4>1, FS_Subset
    <3>4. Cardinality(RolledUp(v) \cup {i}) = Cardinality(RolledUp(v)) + 1
      BY <3>3, FS_AddElement
    <3>5. daily'[v] = daily[v] + 1 /\ \A u \in User : u # v => daily'[u] = daily[u]
      BY <2>1, <2>2, <2>8 DEF TypeOK
    <3>6. QED
      BY <3>1, <3>2, <3>4, <3>5 DEF RollUpAgrees
  <2>9. QED
    BY <1>6, <2>7, <2>8 DEF RollsUp
<1>7. QED
  BY <1>1, <1>3, <1>4, <1>5, <1>6, StepKinds DEF ItemStep

\* Each item that was counted is counted once, and rolled up once unless its
\* statement failed, whatever runs between the statements of a report.
THEOREM SumsAddUp == Spec => []UsageAddsUp
<1>1. Init => SumsAgree /\ RollUpAgrees
  <2> SUFFICES ASSUME Init PROVE SumsAgree /\ RollUpAgrees
    OBVIOUS
  <2>1. \A u \in User : /\ counted[u] = {} /\ RolledUp(u) = {}
                        /\ quota[u].used = 0 /\ forgiven[u] = 0 /\ daily[u] = 0
    BY DEF Init, RolledUp
  <2>2. Cardinality({}) = 0
    BY FS_EmptySet
  <2>3. SumsAgree
    <3> SUFFICES ASSUME NEW u \in User
                 PROVE  quota[u].used + forgiven[u] = Cardinality(counted[u])
      BY DEF SumsAgree
    <3>1. quota[u].used = 0 /\ forgiven[u] = 0 /\ counted[u] = {}
      BY <2>1
    <3>2. QED
      BY <2>2, <3>1
  <2>4. RollUpAgrees
    BY <2>1, <2>2 DEF RollUpAgrees
  <2>5. QED
    BY <2>3, <2>4
<1>2. SumsAgree /\ RollUpAgrees => UsageAddsUp
  BY DEF SumsAgree, RollUpAgrees, RolledUp, UsageAddsUp
<1>3. QED
  BY <1>1, <1>2, Inductive, SumsStep, RollUpStep, PTL DEF Spec

-----------------------------------------------------------------------------
(* The events.                                                             *)

\* What the sinks have of one report.
InStep(r) ==
    /\ \A i \in DOMAIN Reports[r] :
         /\ ch[<<r, i>>] <= 1 /\ fallback[<<r, i>>] <= 1
         /\ report[r].at # "done" => fallback[<<r, i>>] = 0
         /\ report[r].at \in AtItem \cup {"new"} => ch[<<r, i>>] = 0
    /\ \A m \in DOMAIN report[r].events :
         LET e == <<r, report[r].events[m]>>
         IN /\ report[r].at = "sink" => ch[e] = IF m < report[r].j THEN 1 ELSE 0
            /\ report[r].at = "done" => ch[e] + fallback[e] > 0 \/ e \in lost.events

\* The sinks are in step when each report is.
LEMMA InStepAll == SinksInStep <=> \A r \in Report : InStep(r)
<1>1. ASSUME SinksInStep, NEW r \in Report
      PROVE  InStep(r)
  <2>1. \A i \in DOMAIN Reports[r] : <<r, i>> \in Event
    BY DEF Event
  <2>2. QED
    BY <1>1, <2>1 DEF SinksInStep, InStep
<1>2. ASSUME \A r \in Report : InStep(r)
      PROVE  SinksInStep
  <2>1. ASSUME NEW e \in Event
        PROVE  /\ ch[e] <= 1 /\ fallback[e] <= 1
               /\ report[e[1]].at # "done" => fallback[e] = 0
               /\ report[e[1]].at \in AtItem \cup {"new"} => ch[e] = 0
    <3>1. PICK r \in Report : \E i \in DOMAIN Reports[r] : e = <<r, i>>
      BY DEF Event
    <3>2. QED
      BY <1>2, <3>1 DEF InStep
  <2>2. QED
    BY <1>2, <2>1 DEF SinksInStep, InStep
<1>3. QED
  BY <1>1, <1>2

\* The sinks stay in step with the reports.
LEMMA SinksStep == TypeOK /\ Walk /\ SinksInStep /\ [Next]_vars => SinksInStep'
<1> SUFFICES ASSUME TypeOK, Walk, SinksInStep, [Next]_vars PROVE SinksInStep'
  OBVIOUS
<1>a. \A r \in Report : InStep(r) /\ HoldsWell(r)
  BY InStepAll DEF Walk, EventsHeld, HoldsWell
<1>b. report \in [Report -> ReportRow] /\ ch \in [Event -> Nat] /\ fallback \in [Event -> Nat]
  BY DEF TypeOK, ReportRow
<1>c. \A r \in Report : \A i \in DOMAIN Reports[r] : <<r, i>> \in Event
  BY DEF Event
<1>d. \A r \in Report : \A m \in DOMAIN report[r].events :
        /\ report[r].events[m] \in DOMAIN Reports[r]
        /\ m \in 1 .. Len(report[r].events) /\ m \in Nat /\ m >= 1
  <2>1. \A r \in Report : report[r].events \in Seq(Nat)
    BY <1>b DEF ReportRow
  <2>2. QED
    BY <1>a, <2>1 DEF HoldsWell
<1>e. \A r \in Report : \A m \in DOMAIN report[r].events :
        LET e == <<r, report[r].events[m]>>
        IN e \in Event /\ ch[e] \in Nat /\ fallback[e] \in Nat
  BY <1>b, <1>c, <1>d
<1> DEFINE Same(s) ==
      /\ report'[s] = report[s]
      /\ \A i \in DOMAIN Reports[s] : ch'[<<s, i>>] = ch[<<s, i>>] /\ fallback'[<<s, i>>] = fallback[<<s, i>>]
      /\ lost.events \subseteq lost'.events
<1>1. ASSUME NEW s \in Report, Same(s)
      PROVE  InStep(s)'
  BY <1>1, <1>a, <1>d DEF InStep
<1>2. ASSUME Outside
      PROVE  \A s \in Report : InStep(s)'
  BY <1>1, <1>2 DEF Outside
<1>3. ASSUME NEW r \in Report, ItemStep(r)
      PROVE  \A s \in Report : InStep(s)'
  <2>1. /\ SameSinks /\ \A s \in Report : s # r => report'[s] = report[s]
        /\ report[r].at \in AtItem \cup {"new"}
    BY <1>3, NextItemRow DEF ItemStep, Begins, LooksUp, GoesOn, Counts, Proceeds, RollsUp,
       Moves, AtItem
  <2>2. \A s \in Report : s # r => InStep(s)'
    BY <1>1, <2>1 DEF SameSinks
  <2>3. \A i \in DOMAIN Reports[r] : ch[<<r, i>>] = 0 /\ fallback[<<r, i>>] = 0
    BY <1>a, <2>1 DEF InStep, AtItem
  <2>4. report'[r].at = "done" => DOMAIN report'[r].events = {}
    <3>1. CASE Begins(r)
      <4>1. \A m \in DOMAIN report[r].events :
              /\ report[r].events[m] \in 1 .. Len(Reports[r])
              /\ report[r].events[m] < 1
        BY <3>1, <1>a, ReportTyped DEF Begins, HoldsWell, Walk, CountedInTurn
      <4>2. DOMAIN report[r].events = {}
        BY <4>1, ReportTyped
      <4>3. QED
        BY <3>1, <4>2 DEF Begins, Moves
    <3>2. CASE GoesOn(r)
      BY <3>2, NextItemRow DEF GoesOn
    <3>3. CASE LooksUp(r) \/ Counts(r) \/ Proceeds(r) \/ RollsUp(r)
      BY <3>3 DEF LooksUp, Counts, Proceeds, RollsUp, Moves
    <3>4. QED
      BY <1>3, <3>1, <3>2, <3>3 DEF ItemStep
  <2>5. report'[r].at = "sink" =>
          /\ report'[r].j = 1 /\ report'[r].events = report[r].events
    BY <1>3, <1>a, <2>1, NextItemRow DEF ItemStep, Begins, LooksUp, GoesOn, Counts, Proceeds,
       RollsUp, Moves, HoldsWell
  <2>6. report'[r].at = "sink" => \A m \in DOMAIN report'[r].events :
          /\ ch'[<<r, report'[r].events[m]>>] = 0 /\ ~(m < report'[r].j)
    BY <1>d, <2>1, <2>3, <2>5 DEF SameSinks
  <2>7. \A i \in DOMAIN Reports[r] : ch'[<<r, i>>] = 0 /\ fallback'[<<r, i>>] = 0
    BY <2>1, <2>3 DEF SameSinks
  <2>8. InStep(r)'
    BY <2>4, <2>6, <2>7 DEF InStep
  <2>9. QED
    BY <2>2, <2>8
<1>4. ASSUME NEW r \in Report, SinkWrite(r)
      PROVE  \A s \in Report : InStep(s)'
  <2> DEFINE row == report[r]
             w == <<r, row.events[row.j]>>
  <2>1. /\ row.at = "sink" /\ row.j \in DOMAIN row.events /\ row \in ReportRow
        /\ row.j \in Nat /\ row.events \in Seq(Nat)
    BY <1>4, <1>a, <1>b DEF SinkWrite, HoldsWell, ReportRow
  <2>2. w \in Event /\ ch[w] = 0
    <3>1. w \in Event
      BY <1>e, <2>1
    <3>2. ch[w] = IF row.j < row.j THEN 1 ELSE 0
      BY <1>a, <2>1 DEF InStep
    <3>3. QED
      BY <2>1, <3>1, <3>2
  <2>3. ch' = [ch EXCEPT ![w] = @ + 1] /\ UNCHANGED <<fallback, lost>>
    BY <1>4 DEF SinkWrite
  <2>4. ch'[w] = 1 /\ \A e \in Event : e # w => ch'[e] = ch[e]
    BY <1>b, <2>2, <2>3
  <2>5. \A s \in Report : s # r => report'[s] = report[s]
    BY <1>4, StoresMoves DEF Stores
  <2>6. \A s \in Report : s # r => InStep(s)'
    <3>1. \A s \in Report : s # r => \A i \in DOMAIN Reports[s] : <<s, i>> # w
      OBVIOUS
    <3>2. \A s \in Report : s # r => Same(s)
      BY <1>c, <2>3, <2>4, <2>5, <3>1
    <3>3. QED
      BY <1>1, <3>2
  <2>7. \/ /\ row.j < Len(row.events) /\ report'[r].at = "sink"
           /\ report'[r].j = row.j + 1 /\ report'[r].events = row.events
        \/ /\ ~(row.j < Len(row.events)) /\ report'[r].at = "done"
           /\ report'[r].events = row.events
    <3>1. report'[r] = IF row.j < Len(row.events) THEN [row EXCEPT !.j = row.j + 1]
                       ELSE [row EXCEPT !.at = "done"]
      BY <1>4, <1>b DEF SinkWrite
    <3>2. CASE row.j < Len(row.events)
      <4>1. report'[r] = [row EXCEPT !.j = row.j + 1]
        BY <3>1, <3>2
      <4>2. QED
        BY <2>1, <3>2, <4>1 DEF ReportRow
    <3>3. CASE ~(row.j < Len(row.events))
      <4>1. report'[r] = [row EXCEPT !.at = "done"]
        BY <3>1, <3>3
      <4>2. QED
        BY <2>1, <3>3, <4>1 DEF ReportRow
    <3>4. QED
      BY <3>2, <3>3
  <2>8. \A m \in DOMAIN row.events :
          /\ <<r, row.events[m]>> \in Event
          /\ <<r, row.events[m]>> = w <=> m = row.j
          /\ ch[<<r, row.events[m]>>] = IF m < row.j THEN 1 ELSE 0
          /\ m \in 1 .. Len(row.events) /\ m \in Nat
    <3>1. \A m \in DOMAIN row.events : row.events[m] = row.events[row.j] => m = row.j
      BY <1>a, <2>1 DEF HoldsWell
    <3>2. \A m \in DOMAIN row.events : ch[<<r, row.events[m]>>] = IF m < row.j THEN 1 ELSE 0
      BY <1>a, <2>1 DEF InStep
    <3>3. \A m \in DOMAIN row.events : <<r, row.events[m]>> = w <=> m = row.j
      BY <3>1
    <3>4. QED
      BY <1>d, <1>e, <3>2, <3>3
  <2>9. \A m \in DOMAIN row.events :
          ch'[<<r, row.events[m]>>] = IF m <= row.j THEN 1 ELSE 0
    <3> HIDE DEF w
    <3>1. ASSUME NEW m \in DOMAIN row.events, m = row.j
          PROVE  ch'[<<r, row.events[m]>>] = IF m <= row.j THEN 1 ELSE 0
      BY <2>4, <2>8, <3>1
    <3>2. ASSUME NEW m \in DOMAIN row.events, m # row.j
          PROVE  ch'[<<r, row.events[m]>>] = IF m <= row.j THEN 1 ELSE 0
      <4>1. ch'[<<r, row.events[m]>>] = IF m < row.j THEN 1 ELSE 0
        BY <2>4, <2>8, <3>2
      <4>2. m < row.j <=> m <= row.j
        BY <2>1, <2>8, <3>2
      <4>3. QED
        BY <4>1, <4>2
    <3>3. QED
      BY <3>1, <3>2
  <2>10. \A i \in DOMAIN Reports[r] : /\ ch'[<<r, i>>] <= 1
                                     /\ fallback'[<<r, i>>] = 0
    <3> HIDE DEF w
    <3>1. \A i \in DOMAIN Reports[r] : ch[<<r, i>>] <= 1 /\ fallback[<<r, i>>] = 0
      BY <1>a, <2>1 DEF InStep
    <3>2. ASSUME NEW i \in DOMAIN Reports[r]
          PROVE  ch'[<<r, i>>] <= 1
      BY <1>c, <2>4, <3>1
    <3>3. QED
      BY <2>3, <3>1, <3>2
  <2>11. InStep(r)'
    <3>1. CASE report'[r].at = "sink"
      <4>1. \A m \in DOMAIN row.events : m < report'[r].j <=> m <= row.j
        BY <2>1, <2>7, <2>8, <3>1
      <4>2. QED
        BY <2>7, <2>9, <2>10, <3>1, <4>1 DEF InStep, AtItem
    <3>2. CASE report'[r].at = "done"
      <4>1. \A m \in DOMAIN row.events : m <= row.j
        BY <2>1, <2>7, <2>8, <3>2
      <4>2. \A m \in DOMAIN row.events :
              ch'[<<r, row.events[m]>>] + fallback'[<<r, row.events[m]>>] > 0
        BY <1>d, <2>9, <2>10, <4>1
      <4>3. QED
        BY <2>7, <2>10, <3>2, <4>2 DEF InStep, AtItem
    <3>3. QED
      BY <2>7, <3>1, <3>2
  <2>12. QED
    BY <2>6, <2>11
<1>5. ASSUME NEW r \in Report, SinkFails(r)
      PROVE  \A s \in Report : InStep(s)'
  <2>1. /\ report'[r].at = "fallback" /\ report'[r].events = report[r].events
        /\ \A s \in Report : s # r => report'[s] = report[s]
        /\ report[r].at = "sink" /\ UNCHANGED <<ch, fallback, lost>>
    BY <1>5, GotoRow DEF SinkFails, Steps, recordVars
  <2>2. InStep(r)'
    BY <1>a, <2>1 DEF InStep, AtItem
  <2>3. QED
    BY <1>1, <2>1, <2>2
<1>6. ASSUME NEW r \in Report, FallbackWrite(r) \/ FallbackFails(r)
      PROVE  \A s \in Report : InStep(s)'
  <2>1. /\ report'[r].at = "done" /\ report'[r].events = report[r].events
        /\ \A s \in Report : s # r => report'[s] = report[s]
        /\ report[r].at = "fallback" /\ UNCHANGED ch
    BY <1>6, GotoRow DEF FallbackWrite, FallbackFails, Steps
  <2>2. \A i \in DOMAIN Reports[r] : ch[<<r, i>>] <= 1 /\ fallback[<<r, i>>] = 0
    BY <1>a, <2>1 DEF InStep
  <2>3. CASE FallbackWrite(r)
    <3>1. /\ UNCHANGED lost
          /\ \A e \in Event : fallback'[e] = IF e \in ToFallback(r) THEN fallback[e] + 1
                                             ELSE fallback[e]
      BY <2>3 DEF FallbackWrite
    <3>2. \A s \in Report : s # r => \A i \in DOMAIN Reports[s] : <<s, i>> \notin ToFallback(r)
      BY DEF ToFallback
    <3>3. \A s \in Report : s # r => Same(s)
      BY <1>c, <2>1, <3>1, <3>2
    <3>4. \A i \in DOMAIN Reports[r] : fallback'[<<r, i>>] <= 1
      BY <1>c, <2>2, <3>1
    <3>5. \A m \in DOMAIN report[r].events : fallback'[<<r, report[r].events[m]>>] = 1
      <4>1. \A m \in DOMAIN report[r].events : <<r, report[r].events[m]>> \in ToFallback(r)
        BY DEF ToFallback
      <4>2. QED
        BY <1>c, <1>d, <2>2, <3>1, <4>1
    <3>6. \A m \in DOMAIN report[r].events :
            ch'[<<r, report[r].events[m]>>] + fallback'[<<r, report[r].events[m]>>] > 0
      BY <1>e, <2>1, <3>5
    <3>7. InStep(r)'
      BY <2>1, <2>2, <3>4, <3>6 DEF InStep, AtItem
    <3>8. QED
      BY <1>1, <3>3, <3>7
  <2>4. CASE FallbackFails(r)
    <3>1. UNCHANGED fallback /\ lost'.events = lost.events \cup ToFallback(r)
      BY <2>4 DEF FallbackFails, TypeOK
    <3>2. \A s \in Report : s # r => Same(s)
      BY <2>1, <3>1
    <3>3. \A m \in DOMAIN report[r].events : <<r, report[r].events[m]>> \in lost'.events
      BY <3>1 DEF ToFallback
    <3>4. InStep(r)'
      BY <2>1, <2>2, <3>1, <3>3 DEF InStep, AtItem
    <3>5. QED
      BY <1>1, <3>2, <3>4
  <2>5. QED
    BY <1>6, <2>3, <2>4
<1>7. \A s \in Report : InStep(s)'
  BY <1>2, <1>3, <1>4, <1>5, <1>6, StepKinds DEF Stores
<1>8. QED
  <2>1. ASSUME NEW e \in Event
        PROVE  (/\ ch[e] <= 1 /\ fallback[e] <= 1
                /\ report[e[1]].at # "done" => fallback[e] = 0
                /\ report[e[1]].at \in AtItem \cup {"new"} => ch[e] = 0)'
    <3>1. PICK r \in Report : \E i \in DOMAIN Reports[r] : e = <<r, i>>
      BY DEF Event
    <3>2. QED
      BY <1>7, <3>1 DEF InStep
  <2>2. QED
    BY <1>7, <2>1 DEF SinksInStep, InStep

\* The event of an item that was counted survives its report, and nothing is
\* written twice to a sink.
THEOREM EventsAreKept == Spec => []EventsSurvive
<1>1. Init => SinksInStep
  <2> SUFFICES ASSUME Init PROVE SinksInStep
    OBVIOUS
  <2>1. \A r \in Report : report[r] = [at |-> "new", i |-> 1, j |-> 1, used |-> 0, events |-> <<>>]
    BY DEF Init
  <2>2. \A e \in Event : ch[e] = 0 /\ fallback[e] = 0
    BY DEF Init
  <2>3. QED
    BY <2>1, <2>2 DEF SinksInStep
<1>2. TypeOK /\ Walk /\ SinksInStep => EventsSurvive
  <2> SUFFICES ASSUME TypeOK, Walk, SinksInStep PROVE EventsSurvive
    OBVIOUS
  <2>1. ASSUME NEW u \in User, NEW e \in counted[u], report[e[1]].at = "done"
        PROVE  ch[e] + fallback[e] > 0 \/ e \in lost.events
    <3>1. /\ e[1] \in Report /\ e = <<e[1], e[2]>>
          /\ e[2] \in Held(e[1])
      BY EventShape DEF TypeOK, Walk, EventsHeld
    <3>2. PICK m \in DOMAIN report[e[1]].events : report[e[1]].events[m] = e[2]
      BY <3>1 DEF Held
    <3>3. QED
      BY <2>1, <3>1, <3>2 DEF SinksInStep
  <2>2. QED
    BY <2>1 DEF SinksInStep, EventsSurvive
<1>3. QED
  BY <1>1, <1>2, Inductive, SinksStep, PTL DEF Spec
=============================================================================
