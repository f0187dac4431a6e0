------------------------------- MODULE SlaProofs -------------------------------
(***************************************************************************)
(* Proofs about Sla for any targets, schedulers, handlers, days and        *)
(* faults: the types, that a row of a day that no probe came late to is    *)
(* that day's count, and that the report then shows every probe once.      *)
(***************************************************************************)
EXTENDS Sla, TLAPS

-----------------------------------------------------------------------------
(* Types.                                                                  *)

Groupings == [Targets -> Counts]

Tables == UNION {[K -> Counts] : K \in SUBSET (Day \X Targets)}

LEMMA Bounds == /\ MaxDay \in Nat \ {0} /\ Len(Target) \in Nat \ {0}
                /\ Day \subseteq 0 .. MaxDay /\ Day \subseteq Nat
                /\ MaxFaults \in Nat
                /\ \A i \in 1 .. Len(Target) : Target[i] \in Targets
<1>1. /\ Target \in Seq(STRING) \ {<<>>}
      /\ MaxDay \in Nat \ {0} /\ MaxFaults \in Nat
  BY SlaAssumption DEF SlaAssumption
<1>2. Len(Target) \in Nat \ {0} /\ DOMAIN Target = 1 .. Len(Target)
  BY <1>1
<1>3. QED
  BY <1>1, <1>2 DEF Day, Targets

LEMMA NothingTyped == /\ NoProbe \in Counts
                      /\ NoGroups \in Groupings
                      /\ [k \in {} |-> NoProbe] \in Tables
                      /\ Idle \in Task
<1>1. NoProbe \in Counts
  BY DEF NoProbe, Counts
<1>2. [k \in {} |-> NoProbe] \in [{} -> Counts]
  OBVIOUS
<1>3. NoGroups \in Groupings
  BY <1>1 DEF NoGroups, Groupings
<1>4. [k \in {} |-> NoProbe] \in Tables
  BY <1>2 DEF Tables
<1>5. Idle \in Task
  <2>1. Task = [at : {"idle", "probe", "record", "list", "upsert"}, i : 0 .. Len(Target),
                day : 0 .. MaxDay, ok : BOOLEAN, groups : Groupings]
    BY DEF Task, Groupings
  <2>2. 0 \in 0 .. Len(Target) /\ 0 \in 0 .. MaxDay
    BY Bounds
  <2>3. QED
    BY <1>3, <2>1, <2>2 DEF Idle
<1>6. QED
  BY <1>1, <1>3, <1>4, <1>5

\* What is added, read and written has its type.
LEMMA Append1Typed ==
  ASSUME TypeOK, NEW k \in Day \X Targets, NEW ok \in BOOLEAN
  PROVE  /\ Append1(k, ok) \in [Day \X Targets -> Counts]
         /\ \A j \in Day \X Targets : j # k => Append1(k, ok)[j] = probes[j]
BY DEF TypeOK, Append1, Counts

LEMMA GroupsTyped ==
  ASSUME TypeOK, NEW day \in 0 .. MaxDay
  PROVE  /\ Groups(day) \in Groupings
         /\ day = 0 => Groups(day) = NoGroups
         /\ day \in Day => \A t \in Targets : Groups(day)[t] = probes[<<day, t>>]
<1>1. day > 0 <=> day \in Day
  BY Bounds DEF Day
<1>2. \A t \in Targets : day \in Day => probes[<<day, t>>] \in Counts
  BY DEF TypeOK
<1>3. QED
  BY <1>1, <1>2, NothingTyped DEF Groups, Groupings, NoGroups

LEMMA UpsertTyped ==
  ASSUME TypeOK, NEW k \in Day \X Targets, NEW g \in Counts
  PROVE  /\ Upsert(k, g) \in Tables
         /\ DOMAIN Upsert(k, g) = DOMAIN daily \cup {k}
         /\ Upsert(k, g)[k] = g
         /\ \A j \in DOMAIN daily : j # k => Upsert(k, g)[j] = daily[j]
<1>1. PICK K \in SUBSET (Day \X Targets) : daily \in [K -> Counts]
  BY DEF TypeOK
<1>2. DOMAIN daily = K
  BY <1>1
<1>3. Upsert(k, g) \in [K \cup {k} -> Counts]
  BY <1>1, <1>2 DEF Upsert
<1>4. Upsert(k, g) \in Tables
  BY <1>3 DEF Tables
<1>5. QED
  BY <1>2, <1>4 DEF Upsert
LEMMA TaskIs == Task = [at : {"idle", "probe", "record", "list", "upsert"}, i : 0 .. Len(Target),
                        day : 0 .. MaxDay, ok : BOOLEAN, groups : Groupings]
BY DEF Task, Groupings

\* A handler's task is set, and the others stay.
LEMMA TaskSet ==
  ASSUME TypeOK, NEW h \in Handler, NEW x \in Task, task' = [task EXCEPT ![h] = x],
         x.at \in {"probe", "record"} => x.i > 0,
         x.at = "record" => x.day > 0
  PROVE  /\ task' \in [Handler -> Task]
         /\ task'[h] = x
         /\ \A g \in Handler : g # h => task'[g] = task[g]
         /\ \A g \in Handler : /\ task'[g].at \in {"probe", "record"} => task'[g].i > 0
                               /\ task'[g].at = "record" => task'[g].day > 0
<1>1. /\ task' \in [Handler -> Task]
      /\ task'[h] = x
      /\ \A g \in Handler : g # h => task'[g] = task[g]
  BY DEF TypeOK
<1>2. QED
  BY <1>1 DEF TypeOK

-----------------------------------------------------------------------------
(* What a handler does with its task.                                      *)

\* Handler h's task becomes x.
Sets(h, x) ==
    /\ x \in Task
    /\ x.at \in {"probe", "record"} => x.i > 0
    /\ x.at = "record" => x.day > 0
    /\ task' = [task EXCEPT ![h] = x]

\* A probe ends with the next target or with the round.
LEMMA NextTargetSets ==
  ASSUME TypeOK, NEW h \in Handler, NextTarget(h)
  PROVE  \E x : Sets(h, x) /\ x.at # "upsert"
<1> DEFINE y == [Idle EXCEPT !.at = "probe", !.i = task[h].i + 1]
           x == IF task[h].i = Len(Target) THEN Idle ELSE y
<1>1. task[h] \in Task /\ task[h].i \in 0 .. Len(Target)
  BY TaskIs DEF TypeOK
<1>2. task' = [task EXCEPT ![h] = x]
  BY DEF NextTarget
<1>3. Idle \in Task /\ Idle.at = "idle"
  BY NothingTyped DEF Idle
<1>4. CASE task[h].i = Len(Target)
  BY <1>2, <1>3, <1>4 DEF Sets
<1>5. CASE task[h].i # Len(Target)
  <2>1. task[h].i + 1 \in 0 .. Len(Target) /\ task[h].i + 1 > 0
    BY <1>1, <1>5, Bounds
  <2>2. y \in Task /\ y.at = "probe" /\ y.i = task[h].i + 1
    BY <1>3, <2>1, TaskIs
  <2>3. x = y
    BY <1>5
  <2> HIDE DEF x, y
  <2>4. QED
    BY <1>2, <2>1, <2>2, <2>3 DEF Sets
<1>6. QED
  BY <1>4, <1>5

\* What is left of a roll-up is done, or is yet to be written.
LEMMA WrittenSets ==
  ASSUME TypeOK, NEW h \in Handler, NEW g \in Groupings, NEW day, day = task[h].day,
         Written(h, day, g)
  PROVE  \E x : /\ Sets(h, x)
                /\ x.day = day \/ x.at = "idle"
                /\ IF g = NoGroups
                   THEN x.at = "idle" /\ done' = done \cup {day}
                   ELSE x.at = "upsert" /\ x.groups = g /\ done' = done
<1> DEFINE y == [task[h] EXCEPT !.at = "upsert", !.groups = g]
           x == IF g = NoGroups THEN Idle ELSE y
<1>1. task[h] \in Task
  BY DEF TypeOK
<1>2. task' = [task EXCEPT ![h] = x]
  BY DEF Written
<1>3. Idle \in Task /\ Idle.at = "idle"
  BY NothingTyped DEF Idle
<1>4. y \in Task /\ y.at = "upsert" /\ y.groups = g /\ y.day = day
  BY <1>1, TaskIs
<1>5. done' = IF g = NoGroups THEN done \cup {day} ELSE done
  BY DEF Written
<1>6. x = IF g = NoGroups THEN Idle ELSE y
  OBVIOUS
<1> HIDE DEF x, y
<1>7. QED
  BY <1>2, <1>3, <1>4, <1>5, <1>6 DEF Sets

\* A step that only takes its task on, and one that nothing but time or a
\* scheduler takes.
Proceeds(h) == SLAProbe(h) \/ Probe(h) \/ RecordFails(h) \/ SLARollupDaily(h) \/ Retry(h)

LEMMA ProceedsSets ==
  ASSUME TypeOK, NEW h \in Handler, Proceeds(h)
  PROVE  /\ \E x : Sets(h, x) /\ x.at # "upsert"
         /\ queue' \in Nat /\ rounds' \in Nat /\ faults' \in 0 .. MaxFaults
         /\ UNCHANGED <<now, probes, daily, fired, done, late, read>>
<1>1. Idle \in Task /\ Idle.at = "idle"
  BY NothingTyped DEF Idle
<1>2. queue \in Nat /\ rounds \in Nat /\ faults \in 0 .. MaxFaults /\ now \in Day
  BY DEF TypeOK
<1>3. CASE SLAProbe(h)
  <2> DEFINE x == [Idle EXCEPT !.at = "probe", !.i = 1]
  <2>1. 1 \in 0 .. Len(Target)
    BY Bounds
  <2>2. x \in Task /\ x.at = "probe" /\ x.i = 1
    BY <1>1, <2>1, TaskIs
  <2>3. task' = [task EXCEPT ![h] = x]
    BY <1>3 DEF SLAProbe
  <2> HIDE DEF x
  <2>4. Sets(h, x)
    BY <2>2, <2>3 DEF Sets
  <2>5. QED
    BY <1>2, <1>3, <2>2, <2>4 DEF SLAProbe
<1>4. CASE Probe(h)
  <2>1. PICK ok \in BOOLEAN :
          task' = [task EXCEPT ![h].at = "record", ![h].day = now, ![h].ok = ok]
    BY <1>4 DEF Probe
  <2> DEFINE x == [task[h] EXCEPT !.at = "record", !.day = now, !.ok = ok]
  <2>2. task[h] \in Task /\ task[h].i > 0 /\ now > 0 /\ now \in 0 .. MaxDay
    BY <1>2, <1>4, Bounds DEF TypeOK, Probe, Day
  <2>3. x \in Task /\ x.at = "record" /\ x.i = task[h].i /\ x.day = now
    BY <2>2, TaskIs
  <2>4. task' = [task EXCEPT ![h] = x]
    BY <2>1, <2>2 DEF TypeOK
  <2> HIDE DEF x
  <2>5. Sets(h, x)
    BY <2>2, <2>3, <2>4 DEF Sets
  <2>6. QED
    BY <1>2, <1>4, <2>3, <2>5 DEF Probe
<1>5. CASE RecordFails(h)
  BY <1>2, <1>5, NextTargetSets, Bounds DEF RecordFails
<1>6. CASE SLARollupDaily(h)
  <2> DEFINE x == [Idle EXCEPT !.at = "list", !.day = now - 1]
  <2>1. now - 1 \in 0 .. MaxDay
    BY <1>2, Bounds DEF Day
  <2>2. x \in Task /\ x.at = "list"
    BY <1>1, <2>1, TaskIs
  <2>3. task' = [task EXCEPT ![h] = x]
    BY <1>6 DEF SLARollupDaily
  <2> HIDE DEF x
  <2>4. Sets(h, x)
    BY <2>2, <2>3 DEF Sets
  <2>5. QED
    BY <1>2, <1>6, <2>2, <2>4 DEF SLARollupDaily
<1>7. CASE Retry(h)
  <2>1. Sets(h, Idle)
    BY <1>1, <1>7 DEF Retry, Sets
  <2>2. QED
    BY <1>1, <1>2, <1>7, <2>1, Bounds DEF Retry
<1>8. QED
  BY <1>3, <1>4, <1>5, <1>6, <1>7 DEF Proceeds
LEMMA NextSteps ==
  ASSUME Next
  PROVE  \/ \E h \in Handler : Proceeds(h) \/ Record(h) \/ ListBetween(h) \/ RollupDay(h)
         \/ \E s \in Scheduler : Schedule(s)
         \/ NextDay
BY DEF Next, RunOnce, Rollup, Proceeds

\* A probe's row is added to the day of its start.
LEMMA RecordSets ==
  ASSUME TypeOK, NEW h \in Handler, Record(h)
  PROVE  /\ \E x : Sets(h, x) /\ x.at # "upsert"
         /\ probes' \in [Day \X Targets -> Counts]
         /\ \E d \in Day : /\ \A e \in Day, t \in Targets : e # d => probes'[<<e, t>>] = probes[<<e, t>>]
                           /\ late' = IF d \in read THEN late \cup {d} ELSE late
<1> DEFINE d == task[h].day
           t == Target[task[h].i]
<1>1. task[h] \in Task /\ d > 0 /\ task[h].i > 0
  BY DEF TypeOK, Record
<1>2. d \in Day /\ task[h].i \in 1 .. Len(Target) /\ task[h].ok \in BOOLEAN
  BY <1>1, TaskIs, Bounds DEF Day
<1>3. <<d, t>> \in Day \X Targets
  BY <1>2, Bounds
<1>4. /\ probes' = Append1(<<d, t>>, task[h].ok)
      /\ late' = IF d \in read THEN late \cup {d} ELSE late
      /\ NextTarget(h)
  BY DEF Record
<1>5. \E x : Sets(h, x) /\ x.at # "upsert"
  BY <1>4, NextTargetSets
<1> HIDE DEF d, t
<1>6. probes' \in [Day \X Targets -> Counts]
  BY <1>2, <1>3, <1>4, Append1Typed
<1>7. \A e \in Day, u \in Targets : e # d => probes'[<<e, u>>] = probes[<<e, u>>]
  BY <1>2, <1>3, <1>4, Append1Typed
<1>8. QED
  BY <1>2, <1>4, <1>5, <1>6, <1>7

\* A roll-up writes one of its groups.
LEMMA RollupSets ==
  ASSUME TypeOK, NEW h \in Handler, RollupDay(h), task[h].day \in Day
  PROVE  \E t \in Targets :
           /\ task[h].groups[t] # NoProbe
           /\ daily' = Upsert(<<task[h].day, t>>, task[h].groups[t])
           /\ task[h].groups[t] \in Counts
           /\ [task[h].groups EXCEPT ![t] = NoProbe] \in Groupings
           /\ Written(h, task[h].day, [task[h].groups EXCEPT ![t] = NoProbe])
<1>1. task[h].groups \in Groupings
  BY TaskIs DEF TypeOK
<1>2. \A t \in Targets : /\ task[h].groups[t] \in Counts
                        /\ [task[h].groups EXCEPT ![t] = NoProbe] \in Groupings
  BY <1>1, NothingTyped DEF Groupings
<1>3. QED
  BY <1>2 DEF RollupDay

-----------------------------------------------------------------------------
(* Rows and counts.                                                        *)

\* A row is of a day that was read, and is that day's count unless a probe of
\* the day was stored when it had been read.
RowsCount ==
    \A d \in Day, t \in Targets : <<d, t>> \in DOMAIN daily
      => /\ d \in read
         /\ d \notin late => /\ probes[<<d, t>>] # NoProbe
                             /\ daily[<<d, t>>] = probes[<<d, t>>]

\* A roll-up holds the counts that it has yet to write, and those that it wrote
\* stand in the table.
WritersCount ==
    \A h \in Handler : task[h].at = "upsert"
      => /\ task[h].day \in Day \cap read
         /\ task[h].day \notin late
              => \A t \in Targets :
                   \/ task[h].groups[t] = probes[<<task[h].day, t>>]
                   \/ /\ task[h].groups[t] = NoProbe
                      /\ <<task[h].day, t>> \in DOMAIN daily

\* A day that a roll-up went through has all its rows.
DoneCount ==
    \A d \in Day, t \in Targets :
      d \in done \ late /\ probes[<<d, t>>] # NoProbe => <<d, t>> \in DOMAIN daily

SlaInv == TypeOK /\ RowsCount /\ WritersCount /\ DoneCount

LEMMA TypeStep ==
  ASSUME TypeOK, WritersCount, [Next]_vars
  PROVE  TypeOK'
<1>0. /\ now \in Day /\ queue \in Nat /\ rounds \in Nat
      /\ fired \in [Scheduler -> Day]
      /\ done \subseteq read /\ late \subseteq read /\ read \subseteq 0 .. MaxDay
      /\ daily \in Tables
  BY DEF TypeOK, Tables
<1>1. ASSUME NEW h \in Handler, NEW x, Sets(h, x)
      PROVE  /\ task' \in [Handler -> Task]
             /\ \A g \in Handler : /\ task'[g].at \in {"probe", "record"} => task'[g].i > 0
                                   /\ task'[g].at = "record" => task'[g].day > 0
  BY <1>1, TaskSet DEF Sets
<1>2. CASE UNCHANGED vars
  BY <1>2 DEF TypeOK, vars
<1>3. ASSUME NEW h \in Handler, Proceeds(h)
      PROVE  TypeOK'
  BY <1>1, <1>3, ProceedsSets DEF TypeOK
<1>4. ASSUME NEW h \in Handler, Record(h)
      PROVE  TypeOK'
  <2>1. late' \subseteq read
    BY <1>0, <1>4, RecordSets
  <2>2. probes' \in [Day \X Targets -> Counts]
    BY <1>4, RecordSets
  <2>3. PICK x : Sets(h, x)
    BY <1>4, RecordSets
  <2>4. UNCHANGED <<now, daily, fired, queue, rounds, done, read, faults>>
    BY <1>4 DEF Record
  <2>5. QED
    BY <1>1, <2>1, <2>2, <2>3, <2>4 DEF TypeOK
<1>5. ASSUME NEW h \in Handler, ListBetween(h)
      PROVE  TypeOK'
  <2>1. task[h].day \in 0 .. MaxDay
    BY TaskIs DEF TypeOK
  <2>2. Written(h, task[h].day, Groups(task[h].day)) /\ read' = read \cup {task[h].day}
        /\ UNCHANGED <<now, probes, daily, fired, queue, rounds, late, faults>>
    BY <1>5 DEF ListBetween
  <2>3. Groups(task[h].day) \in Groupings
    BY <2>1, GroupsTyped
  <2>4. PICK x : Sets(h, x) /\ (done' = done \/ done' = done \cup {task[h].day})
    BY <2>2, <2>3, WrittenSets
  <2>5. done' \subseteq read' /\ late' \subseteq read' /\ read' \subseteq 0 .. MaxDay
    BY <1>0, <2>1, <2>2, <2>4
  <2>6. QED
    BY <1>1, <2>2, <2>4, <2>5 DEF TypeOK
<1>6. ASSUME NEW h \in Handler, RollupDay(h)
      PROVE  TypeOK'
  <2>1. task[h].day \in Day /\ task[h].day \in read
    BY <1>6 DEF RollupDay, WritersCount
  <2>2. PICK t \in Targets :
          /\ daily' = Upsert(<<task[h].day, t>>, task[h].groups[t])
          /\ task[h].groups[t] \in Counts
          /\ [task[h].groups EXCEPT ![t] = NoProbe] \in Groupings
          /\ Written(h, task[h].day, [task[h].groups EXCEPT ![t] = NoProbe])
    BY <1>6, <2>1, RollupSets
  <2>3. daily' \in Tables
    BY <2>1, <2>2, UpsertTyped
  <2>4. PICK x : Sets(h, x) /\ (done' = done \/ done' = done \cup {task[h].day})
    BY <2>2, WrittenSets
  <2>5. done' \subseteq read
    BY <1>0, <2>1, <2>4
  <2>6. UNCHANGED <<now, probes, fired, queue, rounds, late, read, faults>>
    BY <1>6 DEF RollupDay
  <2>7. QED
    BY <1>1, <2>3, <2>4, <2>5, <2>6 DEF TypeOK, Tables
<1>7. ASSUME NEW s \in Scheduler, Schedule(s)
      PROVE  TypeOK'
  <2>1. fired' \in [Scheduler -> Day] /\ queue' \in Nat
    BY <1>0, <1>7 DEF Schedule
  <2>2. QED
    BY <1>7, <2>1 DEF Schedule, TypeOK
<1>8. CASE NextDay
  <2>1. now' \in Day /\ rounds' \in Nat
    BY <1>0, <1>8, Bounds DEF NextDay, Day
  <2>2. QED
    BY <1>8, <2>1 DEF NextDay, TypeOK
<1>9. QED
  BY <1>2, <1>3, <1>4, <1>5, <1>6, <1>7, <1>8, NextSteps
\* A task that is put aside, or taken on to another statement than a write,
\* has nothing left to say of its counts.
LEMMA CountsStay ==
  ASSUME TypeOK, RowsCount, WritersCount, DoneCount,
         NEW h \in Handler, NEW x, Sets(h, x), x.at # "upsert",
         UNCHANGED <<probes, daily, done, late, read>>
  PROVE  RowsCount' /\ WritersCount' /\ DoneCount'
<1>1. task'[h] = x /\ \A g \in Handler : g # h => task'[g] = task[g]
  BY TaskSet DEF Sets
<1>2. RowsCount' /\ DoneCount'
  BY DEF RowsCount, DoneCount
<1>3. WritersCount'
  BY <1>1 DEF WritersCount
<1>4. QED
  BY <1>2, <1>3

\* A probe that comes late makes its day late; one in time is of a day that
\* nobody has read.
LEMMA RecordCounts ==
  ASSUME TypeOK, RowsCount, WritersCount, DoneCount, NEW h \in Handler, Record(h)
  PROVE  RowsCount' /\ WritersCount' /\ DoneCount'
<1>1. PICK d \in Day :
        /\ \A e \in Day, t \in Targets : e # d => probes'[<<e, t>>] = probes[<<e, t>>]
        /\ late' = IF d \in read THEN late \cup {d} ELSE late
  BY RecordSets
<1>2. PICK x : Sets(h, x) /\ x.at # "upsert"
  BY RecordSets
<1>3. UNCHANGED <<daily, done, read>>
  BY DEF Record
<1>4. task'[h] = x /\ \A g \in Handler : g # h => task'[g] = task[g]
  BY <1>2, TaskSet DEF Sets
<1>5. \A e \in read : e \notin late' => e \notin late /\ e # d
  BY <1>1
<1>6. RowsCount'
  BY <1>1, <1>3, <1>5 DEF RowsCount
<1>7. WritersCount'
  <2> SUFFICES ASSUME NEW g \in Handler, task'[g].at = "upsert"
               PROVE  /\ task'[g].day \in Day \cap read'
                      /\ task'[g].day \notin late'
                           => \A t \in Targets :
                                \/ task'[g].groups[t] = probes'[<<task'[g].day, t>>]
                                \/ /\ task'[g].groups[t] = NoProbe
                                   /\ <<task'[g].day, t>> \in DOMAIN daily'
    BY DEF WritersCount
  <2>1. task'[g] = task[g]
    BY <1>2, <1>4
  <2>2. task[g].day \in Day \cap read
    BY <2>1 DEF WritersCount
  <2>3. QED
    BY <1>1, <1>3, <1>5, <2>1, <2>2 DEF WritersCount
<1>8. DoneCount'
  <2>1. done \subseteq read
    BY DEF TypeOK
  <2>2. QED
    BY <1>1, <1>3, <1>5, <2>1 DEF DoneCount
<1>9. QED
  BY <1>6, <1>7, <1>8

\* A roll-up reads its day.
LEMMA ListCounts ==
  ASSUME TypeOK, RowsCount, WritersCount, DoneCount, NEW h \in Handler, ListBetween(h)
  PROVE  RowsCount' /\ WritersCount' /\ DoneCount'
<1> DEFINE day == task[h].day
           groups == Groups(day)
<1>1. day \in 0 .. MaxDay
  BY TaskIs DEF TypeOK
<1>2. /\ groups \in Groupings
      /\ day = 0 => groups = NoGroups
      /\ day \in Day => \A t \in Targets : groups[t] = probes[<<day, t>>]
  BY <1>1, GroupsTyped
<1>3. /\ read' = read \cup {day}
      /\ Written(h, day, groups)
      /\ UNCHANGED <<probes, daily, late>>
  BY DEF ListBetween
<1> HIDE DEF groups
<1>4. PICK x : /\ Sets(h, x)
               /\ x.day = day \/ x.at = "idle"
               /\ IF groups = NoGroups
                  THEN x.at = "idle" /\ done' = done \cup {day}
                  ELSE x.at = "upsert" /\ x.groups = groups /\ done' = done
  BY <1>2, <1>3, WrittenSets
<1> HIDE DEF day
<1>5. task'[h] = x /\ \A g \in Handler : g # h => task'[g] = task[g]
  BY <1>4, TaskSet DEF Sets
<1>6. RowsCount'
  BY <1>3 DEF RowsCount
<1>7. DoneCount'
  <2>1. groups = NoGroups => \A t \in Targets : groups[t] = NoProbe
    BY DEF NoGroups
  <2>2. QED
    BY <1>2, <1>3, <1>4, <2>1 DEF DoneCount
<1>8. WritersCount'
  <2> SUFFICES ASSUME NEW g \in Handler, task'[g].at = "upsert"
               PROVE  /\ task'[g].day \in Day \cap read'
                      /\ task'[g].day \notin late'
                           => \A t \in Targets :
                                \/ task'[g].groups[t] = probes'[<<task'[g].day, t>>]
                                \/ /\ task'[g].groups[t] = NoProbe
                                   /\ <<task'[g].day, t>> \in DOMAIN daily'
    BY DEF WritersCount
  <2>1. CASE g = h
    <3>1. task'[g].groups = groups /\ task'[g].day = day /\ groups # NoGroups
      BY <1>4, <1>5, <2>1
    <3>2. day \in Day
      BY <1>1, <1>2, <3>1, Bounds DEF Day
    <3>3. QED
      BY <1>2, <1>3, <3>1, <3>2
  <2>2. CASE g # h
    BY <1>3, <1>5, <2>2 DEF WritersCount
  <2>3. QED
    BY <2>1, <2>2
<1>9. QED
  BY <1>6, <1>7, <1>8

\* A roll-up writes a group: the row is the day's count, and the group is not
\* left to write.
LEMMA RollupCounts ==
  ASSUME TypeOK, RowsCount, WritersCount, DoneCount, NEW h \in Handler, RollupDay(h)
  PROVE  RowsCount' /\ WritersCount' /\ DoneCount'
<1> DEFINE day == task[h].day
           groups == task[h].groups
           rest(t) == [groups EXCEPT ![t] = NoProbe]
<1>1. /\ day \in Day \cap read
      /\ day \notin late
           => \A t \in Targets :
                \/ groups[t] = probes[<<day, t>>]
                \/ groups[t] = NoProbe /\ <<day, t>> \in DOMAIN daily
  BY DEF RollupDay, WritersCount
<1>2. PICK t \in Targets :
        /\ groups[t] # NoProbe
        /\ daily' = Upsert(<<day, t>>, groups[t])
        /\ groups[t] \in Counts
        /\ rest(t) \in Groupings
        /\ Written(h, day, rest(t))
  BY <1>1, RollupSets
<1>3. UNCHANGED <<probes, late, read>>
  BY DEF RollupDay
<1>4. PICK x : /\ Sets(h, x)
               /\ x.day = day \/ x.at = "idle"
               /\ IF rest(t) = NoGroups
                  THEN x.at = "idle" /\ done' = done \cup {day}
                  ELSE x.at = "upsert" /\ x.groups = rest(t) /\ done' = done
  BY <1>2, WrittenSets
<1>5. task'[h] = x /\ \A g \in Handler : g # h => task'[g] = task[g]
  BY <1>4, TaskSet DEF Sets
<1>6. rest(t)[t] = NoProbe /\ \A u \in Targets : u # t => rest(t)[u] = groups[u]
  <2>1. groups \in [Targets -> Counts]
    BY TaskIs DEF TypeOK, Groupings
  <2>2. QED
    BY <2>1
<1> HIDE DEF day, groups, rest
<1>7. /\ DOMAIN daily' = DOMAIN daily \cup {<<day, t>>}
      /\ daily'[<<day, t>>] = groups[t]
      /\ \A j \in DOMAIN daily : j # <<day, t>> => daily'[j] = daily[j]
  BY <1>1, <1>2, UpsertTyped
<1>8. RowsCount'
  <2> SUFFICES ASSUME NEW d \in Day, NEW u \in Targets, <<d, u>> \in DOMAIN daily'
               PROVE  /\ d \in read
                      /\ d \notin late => /\ probes[<<d, u>>] # NoProbe
                                          /\ daily'[<<d, u>>] = probes[<<d, u>>]
    BY <1>3 DEF RowsCount
  <2>1. CASE d = day /\ u = t
    BY <1>1, <1>2, <1>7, <2>1
  <2>2. CASE ~(d = day /\ u = t)
    BY <1>7, <2>2 DEF RowsCount
  <2>3. QED
    BY <2>1, <2>2
<1>9. ASSUME day \notin late, NEW u \in Targets, rest(t)[u] = NoProbe,
             probes[<<day, u>>] # NoProbe
      PROVE  <<day, u>> \in DOMAIN daily'
  BY <1>1, <1>6, <1>7, <1>9
<1>10. DoneCount'
  <2> SUFFICES ASSUME NEW d \in Day, NEW u \in Targets, d \in done' \ late,
                      probes[<<d, u>>] # NoProbe
               PROVE  <<d, u>> \in DOMAIN daily'
    BY <1>3 DEF DoneCount
  <2>1. CASE d \in done
    BY <1>7, <2>1 DEF DoneCount
  <2>2. CASE d \notin done
    <3>1. d = day /\ rest(t) = NoGroups
      BY <1>4, <2>2
    <3>2. rest(t)[u] = NoProbe
      BY <3>1 DEF NoGroups
    <3>3. QED
      BY <1>9, <3>1, <3>2
  <2>3. QED
    BY <2>1, <2>2
<1>11. WritersCount'
  <2> SUFFICES ASSUME NEW g \in Handler, task'[g].at = "upsert"
               PROVE  /\ task'[g].day \in Day \cap read'
                      /\ task'[g].day \notin late'
                           => \A u \in Targets :
                                \/ task'[g].groups[u] = probes'[<<task'[g].day, u>>]
                                \/ /\ task'[g].groups[u] = NoProbe
                                   /\ <<task'[g].day, u>> \in DOMAIN daily'
    BY DEF WritersCount
  <2>1. CASE g = h
    <3>1. task'[g].groups = rest(t) /\ task'[g].day = day
      BY <1>4, <1>5, <2>1
    <3>2. QED
      BY <1>1, <1>3, <1>6, <1>9, <3>1
  <2>2. CASE g # h
    <3>1. task'[g] = task[g]
      BY <1>5, <2>2
    <3>2. DOMAIN daily \subseteq DOMAIN daily'
      BY <1>7
    <3>3. QED
      BY <1>3, <3>1, <3>2 DEF WritersCount
  <2>3. QED
    BY <2>1, <2>2
<1>12. QED
  BY <1>8, <1>10, <1>11
LEMMA CountsStep ==
  ASSUME SlaInv, [Next]_vars
  PROVE  RowsCount' /\ WritersCount' /\ DoneCount'
<1>1. ASSUME NEW h \in Handler, Proceeds(h)
      PROVE  RowsCount' /\ WritersCount' /\ DoneCount'
  <2>1. PICK x : Sets(h, x) /\ x.at # "upsert"
    BY <1>1, ProceedsSets DEF SlaInv
  <2>2. UNCHANGED <<probes, daily, done, late, read>>
    BY <1>1, ProceedsSets DEF SlaInv
  <2>3. QED
    BY <2>1, <2>2, CountsStay DEF SlaInv
<1>2. ASSUME NEW h \in Handler, Record(h) \/ ListBetween(h) \/ RollupDay(h)
      PROVE  RowsCount' /\ WritersCount' /\ DoneCount'
  BY <1>2, RecordCounts, ListCounts, RollupCounts DEF SlaInv
<1>3. ASSUME UNCHANGED <<probes, daily, task, done, late, read>>
      PROVE  RowsCount' /\ WritersCount' /\ DoneCount'
  BY <1>3 DEF SlaInv, RowsCount, WritersCount, DoneCount
<1>4. QED
  BY <1>1, <1>2, <1>3, NextSteps DEF vars, Schedule, NextDay

-----------------------------------------------------------------------------
(* Theorems.                                                               *)

LEMMA Inductive == Spec => []SlaInv
<1>1. Init => SlaInv
  <2> SUFFICES ASSUME Init
               PROVE  SlaInv
    OBVIOUS
  <2>1. DOMAIN daily = {} /\ done = {} /\ \A h \in Handler : task[h].at = "idle"
    BY DEF Init, Idle
  <2>2. now \in Day /\ fired \in [Scheduler -> Day] /\ faults \in 0 .. MaxFaults
    BY Bounds DEF Init, Day
  <2>3. probes \in [Day \X Targets -> Counts] /\ daily \in Tables /\ task \in [Handler -> Task]
    BY NothingTyped DEF Init
  <2>4. TypeOK
    BY <2>1, <2>2, <2>3 DEF Init, TypeOK, Tables
  <2>5. QED
    BY <2>1, <2>4 DEF SlaInv, RowsCount, WritersCount, DoneCount
<1>2. SlaInv /\ [Next]_vars => SlaInv'
  BY TypeStep, CountsStep DEF SlaInv
<1>3. QED
  BY <1>1, <1>2, PTL DEF Spec

\* Every behaviour keeps the types of the tables and of the tasks, and what a
\* task's statement says of its day and target.
THEOREM TypeCorrect == Spec => []TypeOK
<1>1. SlaInv => TypeOK
  BY DEF SlaInv
<1>2. QED
  BY <1>1, Inductive, PTL

\* On days that a roll-up went through and no probe came late to, the rows of
\* a target are of the days that have probes of it, with their counts.
LEMMA RowsAreCounts ==
  ASSUME SlaInv, NEW from \in Day, NEW to \in Day, from .. to \subseteq done \ late, NEW t \in Targets
  PROVE  /\ Rows(from, to + 1, t) = Probed(from, to, t)
         /\ \A d \in Probed(from, to, t) : daily[<<d, t>>] = probes[<<d, t>>]
<1>1. \A d : d \in Day /\ d >= from /\ d < to + 1 <=> d \in from .. to
  BY Bounds DEF Day
<1>2. ASSUME NEW d \in from .. to
      PROVE  /\ d \in Day /\ d \in done \ late
             /\ <<d, t>> \in DOMAIN daily <=> probes[<<d, t>>] # NoProbe
             /\ <<d, t>> \in DOMAIN daily => daily[<<d, t>>] = probes[<<d, t>>]
  BY <1>1 DEF SlaInv, RowsCount, DoneCount
<1>3. QED
  BY <1>1, <1>2 DEF Rows, Probed

\* The report over days that were rolled up shows every probe of them once,
\* however roll-ups ran beside each other, twice, or again after they stopped.
THEOREM EachProbeCountsOnce == Spec => []ReportCountsProbes
<1>1. ASSUME SlaInv
      PROVE  ReportCountsProbes
  <2> SUFFICES ASSUME NEW from \in Day, NEW to \in Day, from .. to \subseteq done \ late,
                      NEW t \in Targets
               PROVE  sla(from, to, t) = Measured(from, to, t)
    BY DEF ReportCountsProbes
  <2> DEFINE R == Rows(from, to + 1, t)
             P == Probed(from, to, t)
  <2>1. R = P /\ \A d \in P : daily[<<d, t>>] = probes[<<d, t>>]
    BY <1>1, RowsAreCounts
  <2>2. [d \in R |-> daily[<<d, t>>].ok] = [d \in P |-> probes[<<d, t>>].ok]
    BY <2>1
  <2>3. [d \in R |-> daily[<<d, t>>].failed] = [d \in P |-> probes[<<d, t>>].failed]
    BY <2>1
  <2>4. QED
    BY <2>2, <2>3 DEF sla, Overall, Measured
<1>2. QED
  BY <1>1, Inductive, PTL

=============================================================================
