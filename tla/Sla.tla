--------------------------------- MODULE Sla ---------------------------------
(***************************************************************************)
(* The probes of internal/sla and their daily roll-up, run as tasks of the *)
(* worker's queue (asynq): a task that fails or whose process dies is run  *)
(* again, every worker process has a scheduler of its own, and tasks run   *)
(* side by side.                                                           *)
(*                                                                         *)
(* A day is a number.  A roll-up works on the day before the one on which  *)
(* it runs, whichever day it was scheduled for.  Latencies, and the        *)
(* percentiles of them, are left out.                                      *)
(***************************************************************************)
EXTENDS Naturals, FiniteSets, Functions, Sequences

CONSTANTS
    Target,     \* what is probed, each in its region, in the configured order
    Scheduler,  \* worker processes
    Handler,    \* tasks that run at one time
    MaxDay,     \* bound: days, from 1
    MaxProbes,  \* bound: rounds of probes that begin on a day, but for the last
    MaxQueue,   \* bound: roll-ups that wait, so that more are not scheduled
    MaxFaults   \* bound: statements that fail and processes that die

\* Something is probed; what, stands in the configuration once.
ASSUME SlaAssumption ==
    /\ Target \in Seq(STRING) \ {<<>>}
    /\ \A i, j \in DOMAIN Target : Target[i] = Target[j] => i = j
    /\ {MaxProbes, MaxQueue, MaxFaults} \subseteq Nat
    /\ MaxDay \in Nat \ {0}

VARIABLES
    now,     \* the day it is
    probes,  \* table sla_probes: of each day and target, successes and failures
    daily,   \* table sla_daily
    fired,   \* the last day on which a scheduler put its roll-up into the queue
    queue,   \* roll-ups that wait
    task,    \* each handler: its next statement and its locals
    rounds,  \* rounds of probes begun today
    done,    \* days of which a roll-up went through
    late,    \* days that got a probe when a roll-up had read them
    read,    \* days that a roll-up has read
    faults

vars == <<now, probes, daily, fired, queue, task, rounds, done, late, read, faults>>

Day == 1 .. MaxDay

Targets == {Target[i] : i \in DOMAIN Target}

Counts == [ok : Nat, failed : Nat]

NoProbe == [ok |-> 0, failed |-> 0]

\* i: the target whose turn it is; day: that of a probe's ts, or that a
\* roll-up is about; groups: what it read, and has yet to write.
Task == [at : {"idle", "probe", "record", "list", "upsert"}, i : 0 .. Len(Target),
         day : 0 .. MaxDay, ok : BOOLEAN, groups : [Targets -> Counts]]

NoGroups == [t \in Targets |-> NoProbe]

Idle == [at |-> "idle", i |-> 0, day |-> 0, ok |-> FALSE, groups |-> NoGroups]

TypeOK ==
    /\ now \in Day
    /\ probes \in [Day \X Targets -> Counts]
    /\ \E K \in SUBSET (Day \X Targets) : daily \in [K -> Counts]
    /\ fired \in [Scheduler -> Day]
    /\ queue \in Nat /\ rounds \in Nat
    /\ task \in [Handler -> Task]
    /\ \A h \in Handler : /\ task[h].at \in {"probe", "record"} => task[h].i > 0
                          /\ task[h].at = "record" => task[h].day > 0
    /\ done \subseteq read /\ late \subseteq read /\ read \subseteq 0 .. MaxDay
    /\ faults \in 0 .. MaxFaults

Init ==
    /\ now = 1
    /\ probes = [k \in Day \X Targets |-> NoProbe]
    /\ daily = [k \in {} |-> NoProbe]
    /\ fired = [s \in Scheduler |-> 1]
    /\ queue = 0
    /\ task = [h \in Handler |-> Idle]
    /\ rounds = 0
    /\ done = {} /\ late = {} /\ read = {}
    /\ faults = 0

-----------------------------------------------------------------------------
(* Probes.                                                                 *)

\* The task sla:probe begins RunOnce, with the first target.
SLAProbe(h) ==
    /\ task[h].at = "idle"
    /\ rounds < MaxProbes /\ now < MaxDay
    /\ rounds' = rounds + 1
    /\ task' = [task EXCEPT ![h] = [Idle EXCEPT !.at = "probe", !.i = 1]]
    /\ UNCHANGED <<now, probes, daily, fired, queue, done, late, read, faults>>

\* A probe takes the time of its start, and has its answer.
Probe(h) ==
    /\ task[h].at = "probe"
    /\ \E ok \in BOOLEAN :
         task' = [task EXCEPT ![h].at = "record", ![h].day = now, ![h].ok = ok]
    /\ UNCHANGED <<now, probes, daily, fired, queue, rounds, done, late, read, faults>>

\* RunOnce goes on to the next target.
NextTarget(h) ==
    task' = [task EXCEPT ![h] = IF @.i = Len(Target) THEN Idle
                                ELSE [Idle EXCEPT !.at = "probe", !.i = task[h].i + 1]]

\* ProbeRepo.Append.
Append1(k, ok) ==
    IF ok THEN [probes EXCEPT ![k].ok = @ + 1] ELSE [probes EXCEPT ![k].failed = @ + 1]

\* Record stores it, be it long after the start.
Record(h) ==
    /\ task[h].at = "record"
    /\ probes' = Append1(<<task[h].day, Target[task[h].i]>>, task[h].ok)
    /\ late' = IF task[h].day \in read THEN late \cup {task[h].day} ELSE late
    /\ NextTarget(h)
    /\ UNCHANGED <<now, daily, fired, queue, rounds, done, read, faults>>

\* Its error is dropped.
RecordFails(h) ==
    /\ task[h].at = "record"
    /\ faults < MaxFaults
    /\ faults' = faults + 1
    /\ NextTarget(h)
    /\ UNCHANGED <<now, probes, daily, fired, queue, rounds, done, late, read>>

-----------------------------------------------------------------------------
(* The roll-up.                                                            *)

\* A scheduler's cron entry fires, once a day.
Schedule(s) ==
    /\ fired[s] < now
    /\ queue < MaxQueue
    /\ fired' = [fired EXCEPT ![s] = now]
    /\ queue' = queue + 1
    /\ UNCHANGED <<now, probes, daily, task, rounds, done, late, read, faults>>

\* The task sla:rollup_daily: 24 hours before the time at which it runs.
SLARollupDaily(h) ==
    /\ queue > 0
    /\ task[h].at = "idle"
    /\ queue' = queue - 1
    /\ task' = [task EXCEPT ![h] = [Idle EXCEPT !.at = "list", !.day = now - 1]]
    /\ UNCHANGED <<now, probes, daily, fired, rounds, done, late, read, faults>>

\* ProbeRepo.ListBetween, grouped: a target without a probe has no group.
Groups(day) == [t \in Targets |-> IF day > 0 THEN probes[<<day, t>>] ELSE NoProbe]

\* When nothing is left to write, the task is done.
Written(h, day, groups) ==
    /\ task' = [task EXCEPT ![h] = IF groups = NoGroups THEN Idle
                                   ELSE [@ EXCEPT !.at = "upsert", !.groups = groups]]
    /\ done' = IF groups = NoGroups THEN done \cup {day} ELSE done

ListBetween(h) ==
    /\ task[h].at = "list"
    /\ read' = read \cup {task[h].day}
    /\ Written(h, task[h].day, Groups(task[h].day))
    /\ UNCHANGED <<now, probes, daily, fired, queue, rounds, late, faults>>

\* DailyRepo.Upsert: a row that is there gets the new numbers.
UpsertAdds(k, g) ==
    [j \in DOMAIN daily \cup {k} |->
       IF j # k THEN daily[j]
       ELSE IF k \in DOMAIN daily THEN [ok |-> daily[k].ok + g.ok,
                                        failed |-> daily[k].failed + g.failed]
       ELSE g]

Upsert(k, g) == [j \in DOMAIN daily \cup {k} |-> IF j = k THEN g ELSE daily[j]]

\* RollupDay writes its groups one by one, in any order.
RollupDay(h) ==
    /\ task[h].at = "upsert"
    /\ \E t \in Targets :
         /\ task[h].groups[t] # NoProbe
         /\ daily' = Upsert(<<task[h].day, t>>, task[h].groups[t])
         /\ Written(h, task[h].day, [task[h].groups EXCEPT ![t] = NoProbe])
    /\ UNCHANGED <<now, probes, fired, queue, rounds, late, read, faults>>

\* A statement of it fails, or its process dies: the queue runs it again.
Retry(h) ==
    /\ task[h].at \in {"list", "upsert"}
    /\ faults < MaxFaults
    /\ faults' = faults + 1
    /\ queue' = queue + 1
    /\ task' = [task EXCEPT ![h] = Idle]
    /\ UNCHANGED <<now, probes, daily, fired, rounds, done, late, read>>

NextDay ==
    /\ now < MaxDay
    /\ now' = now + 1
    /\ rounds' = 0
    /\ UNCHANGED <<probes, daily, fired, queue, task, done, late, read, faults>>

RunOnce(h) == SLAProbe(h) \/ Probe(h) \/ Record(h) \/ RecordFails(h)

Rollup(h) == SLARollupDaily(h) \/ ListBetween(h) \/ RollupDay(h) \/ Retry(h)

Next ==
    \/ \E h \in Handler : RunOnce(h) \/ Rollup(h)
    \/ \E s \in Scheduler : Schedule(s)
    \/ NextDay

Spec == Init /\ [][Next]_vars

-----------------------------------------------------------------------------
(* The report.                                                             *)

\* DailyRepo.ListBetween: the days from "from" on, and before "to", with a row.
Rows(from, to, t) == {d \in Day : d >= from /\ d < to /\ <<d, t>> \in DOMAIN daily}

\* Summary's overall figures of a target.
Overall(from, to, t) ==
    [ok     |-> SumFunction([d \in Rows(from, to, t) |-> daily[<<d, t>>].ok]),
     failed |-> SumFunction([d \in Rows(from, to, t) |-> daily[<<d, t>>].failed])]

\* The handler's "to" is the last day of the range.
sla(from, to, t) == Overall(from, to + 1, t)

\* What was measured in the range, on the days that have a probe.
Probed(from, to, t) == {d \in from .. to : probes[<<d, t>>] # NoProbe}

Measured(from, to, t) ==
    [ok     |-> SumFunction([d \in Probed(from, to, t) |-> probes[<<d, t>>].ok]),
     failed |-> SumFunction([d \in Probed(from, to, t) |-> probes[<<d, t>>].failed])]

\* The report over days that a roll-up went through shows every probe of them
\* once, whatever ran twice, side by side, or again after it stopped half way:
\* unless a probe was stored when a roll-up had read its day.  (A day is rolled
\* up only if a roll-up runs on the day after.)
ReportCountsProbes ==
    \A from, to \in Day :
      from .. to \subseteq done \ late =>
        \A t \in Targets : sla(from, to, t) = Measured(from, to, t)
=============================================================================
