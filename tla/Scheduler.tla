------------------------------ MODULE Scheduler ------------------------------
(***************************************************************************)
(* internal/scheduler: how the tick loop turns cron slots into rows of the *)
(* executions table.  Several schedulers may run at once: a leader that    *)
(* lost its lock may still be ticking while its successor starts.          *)
(*                                                                         *)
(* Time is a small integer; 0 is Go's zero time.  A schedule is the set of *)
(* its fire times, so cron.Next is "the least time after".  Statements of  *)
(* the tick (page read, lookup, insert) are separate steps; users create,  *)
(* pause, resume, reschedule and delete jobs in between.                   *)
(***************************************************************************)
EXTENDS Integers, FiniteSets

CONSTANTS
    Job,               \* job ids: naturals, for ORDER BY j.id
    Sched,             \* scheduler runs
    Plans,             \* schedules: sets of fire times
    PageSize,          \* DefaultJobPageSize
    MaxFires,          \* MaxFiresPerTick
    Interval,          \* TickInterval
    MaxTime            \* bound: the clock

ASSUME JobAssumption == Job \subseteq Nat \ {0}
ASSUME PlansAssumption == Plans \subseteq SUBSET (Nat \ {0}) /\ Plans # {}
ASSUME SizeAssumption ==
    {PageSize, MaxFires, Interval, MaxTime} \subseteq Nat \ {0} /\ Interval < MaxTime

VARIABLES
    clock,
    job,               \* the jobs table
    slots,             \* <<j, t>>: the scheduled executions inserted so far
    sch,               \* the schedulers
    owed               \* <<j, t>>: t fell due while j was enabled, and no one has
                       \* paused or rescheduled j before it was inserted

vars == <<clock, job, slots, sch, owed>>

Zero == 0

\* queryGetEnabledJobs: the PageSize least enabled ids after a given one.
Enabled == {j \in Job : job[j].st = "enabled"}
PageAfter(id) ==
    {j \in Enabled : j > id /\ Cardinality({k \in Enabled : id < k /\ k < j}) < PageSize}

Row(j) == [id |-> j, created |-> job[j].created, plan |-> job[j].plan]
NoRow == [id |-> 0, created |-> Zero, plan |-> {}]

NextFire(plan, t) ==
    IF \E u \in plan : u > t
    THEN CHOOSE u \in plan : u > t /\ \A v \in plan : v > t => u <= v
    ELSE Zero

Stopped == [pc |-> "off", last |-> Zero, deferred |-> FALSE, now |-> Zero, upto |-> Zero,
            after |-> 0, full |-> FALSE, todo |-> {}, cur |-> NoRow, t |-> Zero,
            cursor |-> Zero, n |-> 0]

Rows == [id : Job, created : 0..MaxTime, plan : Plans]

TypeOK ==
    /\ clock \in 1..MaxTime
    /\ job \in [Job -> [st : {"absent", "drafted", "enabled", "paused", "deleted"},
                        created : 0..MaxTime, plan : Plans]]
    /\ slots \subseteq Job \X (1..MaxTime)
    /\ owed \subseteq Job \X (1..MaxTime)
    /\ \A s \in Sched :
        /\ sch[s].pc \in {"off", "wait", "page", "jobs", "slots"}
        /\ {sch[s].last, sch[s].now, sch[s].upto, sch[s].t, sch[s].cursor} \subseteq 0..MaxTime
        /\ sch[s].n \in 0..(MaxFires - 1)
        /\ sch[s].todo \subseteq Rows
        /\ sch[s].cur \in Rows \union {NoRow}

Init ==
    /\ clock = Interval + 1
    /\ job \in [Job -> [st : {"absent"}, created : {Zero}, plan : Plans]]
    /\ slots = {} /\ owed = {}
    /\ sch = [s \in Sched |-> Stopped]

(***************************************************************************)
(* The clock and the users.                                                *)
(***************************************************************************)
Due(st) == {<<j, clock + 1>> : j \in {k \in Job : job[k].st = st /\ clock + 1 \in job[k].plan}}

Advance ==
    /\ clock < MaxTime
    /\ clock' = clock + 1
    /\ owed' = owed \union Due("enabled")
    /\ UNCHANGED <<job, slots, sch>>

\* CreateJob stamps CreatedAt; the transaction commits later.
Draft(j) ==
    /\ job[j].st = "absent"
    /\ job' = [job EXCEPT ![j].st = "drafted", ![j].created = clock]
    /\ UNCHANGED <<clock, slots, sch, owed>>

Commit(j) ==
    /\ job[j].st = "drafted"
    /\ job' = [job EXCEPT ![j].st = "enabled"]
    /\ UNCHANGED <<clock, slots, sch, owed>>

\* Slots of j that are due and not yet inserted are no longer owed.
Forgive(j) == owed' = {o \in owed : o[1] = j => o \in slots}

SetJobEnabled(j, enabled) ==
    /\ job[j].st = IF enabled THEN "paused" ELSE "enabled"
    /\ job' = [job EXCEPT ![j].st = IF enabled THEN "enabled" ELSE "paused"]
    /\ Forgive(j)
    /\ UNCHANGED <<clock, slots, sch>>

UpdateSchedule(j, plan) ==
    /\ job[j].st \in {"enabled", "paused"}
    /\ plan # job[j].plan
    /\ job' = [job EXCEPT ![j].plan = plan]
    /\ Forgive(j)
    /\ UNCHANGED <<clock, slots, sch>>

DeleteJob(j) ==
    /\ job[j].st \in {"enabled", "paused"}
    /\ job' = [job EXCEPT ![j].st = "deleted"]
    /\ slots' = {x \in slots : x[1] # j}
    /\ owed' = {x \in owed : x[1] # j}
    /\ UNCHANGED <<clock, sch>>

(***************************************************************************)
(* Run and processTick.                                                    *)
(***************************************************************************)
Start(s) ==
    /\ sch[s].pc = "off"
    /\ sch' = [sch EXCEPT ![s] = [Stopped EXCEPT !.pc = "wait"]]
    /\ UNCHANGED <<clock, job, slots, owed>>

\* Shutdown, lost leadership, or a crash.
Stop(s) ==
    /\ sch[s].pc # "off"
    /\ sch' = [sch EXCEPT ![s] = Stopped]
    /\ UNCHANGED <<clock, job, slots, owed>>

BeginTick(s) ==
    /\ sch[s].pc = "wait"
    /\ sch' = [sch EXCEPT ![s] = [sch[s] EXCEPT !.pc = "page", !.now = clock,
                                                !.upto = clock, !.after = Zero]]
    /\ UNCHANGED <<clock, job, slots, owed>>

ReadPage(s) ==
    LET page == PageAfter(sch[s].after) IN
    /\ sch[s].pc = "page"
    /\ sch' = [sch EXCEPT ![s] =
          [sch[s] EXCEPT !.pc = "jobs",
                         !.todo = {Row(j) : j \in page},
                         !.full = Cardinality(page) = PageSize,
                         !.after = IF page = {} THEN @
                                   ELSE CHOOSE j \in page : \A k \in page : k <= j]]
    /\ UNCHANGED <<clock, job, slots, owed>>

\* GetEnabledJobs fails: the tick is given up, lastTick stays.
ReadPageFails(s) ==
    /\ sch[s].pc = "page"
    /\ sch' = [sch EXCEPT ![s] = [Stopped EXCEPT !.pc = "wait", !.last = sch[s].last,
                                                 !.deferred = TRUE]]
    /\ UNCHANGED <<clock, job, slots, owed>>

\* After the last job of a page: the next page, or the end of the tick.
EndPage(s) ==
    /\ sch[s].pc = "jobs" /\ sch[s].todo = {}
    /\ sch' = [sch EXCEPT ![s] =
          IF sch[s].full
          THEN [sch[s] EXCEPT !.pc = "page"]
          ELSE [Stopped EXCEPT !.pc = "wait", !.last = sch[s].upto,
                               !.deferred = sch[s].upto < sch[s].now]]
    /\ UNCHANGED <<clock, job, slots, owed>>

(***************************************************************************)
(* processJobWithProgress.                                                 *)
(***************************************************************************)
Max2(a, b) == IF a > b THEN a ELSE b

\* GetLastScheduledExecution; Zero when there is none.
LastScheduled(j) ==
    IF \E x \in slots : x[1] = j
    THEN (CHOOSE x \in slots : x[1] = j /\ \A y \in slots : y[1] = j => y[2] <= x[2])[2]
    ELSE Zero

\* Mutant: every tick of the shared cursor, never the job's own progress.
WindowStartShared(s, r, lookup) ==
    IF sch[s].last = Zero THEN r.created ELSE Max2(sch[s].last, r.created)

\* Mutant: a first tick looks one interval back instead of to the job's creation.
WindowStartRecent(s, r, lookup) ==
    LET last == IF sch[s].last # Zero THEN sch[s].last ELSE sch[s].now - Interval IN
    IF lookup THEN Max2(last, LastScheduled(r.id)) ELSE last

\* windowStart; lookup is FALSE when GetLastScheduledExecution fails.
WindowStart(s, r, lookup) ==
    LET last == sch[s].last
        now == sch[s].now
        cursor == IF last # Zero
                  THEN IF r.created > last /\ r.created <= now THEN r.created ELSE last
                  ELSE IF r.created = Zero \/ r.created > now
                       THEN now - Interval ELSE r.created
    IN IF (last # Zero /\ ~sch[s].deferred) \/ ~lookup
       THEN cursor
       ELSE Max2(cursor, LastScheduled(r.id))

\* Mutant: a job that hits the cap does not hold the cursor back.
ProceedPastCap(s, r, t, n, cursor) ==
    sch' = [sch EXCEPT ![s] =
        IF t # Zero /\ t <= sch[s].now /\ n < MaxFires
        THEN [sch[s] EXCEPT !.pc = "slots", !.todo = @ \ {r}, !.cur = r,
                            !.t = t, !.n = n, !.cursor = cursor]
        ELSE [sch[s] EXCEPT !.pc = "jobs", !.todo = @ \ {r}, !.cur = NoRow,
                            !.t = Zero, !.n = 0, !.cursor = Zero]]

\* Move on with the job's next due time t after n fires, its progress being
\* cursor: another slot, the cap, or no more due.
Proceed(s, r, t, n, cursor) ==
    LET due == t # Zero /\ t <= sch[s].now IN
    sch' = [sch EXCEPT ![s] =
        IF due /\ n < MaxFires
        THEN [sch[s] EXCEPT !.pc = "slots", !.todo = @ \ {r}, !.cur = r,
                            !.t = t, !.n = n, !.cursor = cursor]
        ELSE [sch[s] EXCEPT !.pc = "jobs", !.todo = @ \ {r}, !.cur = NoRow,
                            !.t = Zero, !.n = 0, !.cursor = Zero,
                            !.upto = IF due /\ cursor < @ THEN cursor ELSE @]]

StartJob(s, r, lookup) ==
    LET w == WindowStart(s, r, lookup) IN
    /\ sch[s].pc = "jobs"
    /\ r \in sch[s].todo /\ \A q \in sch[s].todo : r.id <= q.id
    /\ Proceed(s, r, NextFire(r.plan, w), 0, w)
    /\ UNCHANGED <<clock, job, slots, owed>>

\* emitExecution: the row is inserted, or is already there (duplicate key).
InsertSlot(s) ==
    LET r == sch[s].cur
        t == sch[s].t
    IN
    /\ sch[s].pc = "slots"
    /\ job[r.id].st # "deleted"
    /\ slots' = slots \union {<<r.id, t>>}
    /\ Proceed(s, r, NextFire(r.plan, t), sch[s].n + 1, t)
    /\ UNCHANGED <<clock, job, owed>>

\* InsertExecution returns another error, whether or not the row was stored
\* (it is not when the job is gone): no later slot may follow in this tick.
InsertFails(s, stored) ==
    LET r == sch[s].cur IN
    /\ sch[s].pc = "slots"
    /\ stored => job[r.id].st # "deleted"
    /\ slots' = IF stored THEN slots \union {<<r.id, sch[s].t>>} ELSE slots
    /\ sch' = [sch EXCEPT ![s] =
          [sch[s] EXCEPT !.pc = "jobs", !.cur = NoRow, !.t = Zero, !.n = 0, !.cursor = Zero,
                         !.upto = IF sch[s].cursor # Zero /\ sch[s].cursor < @
                                  THEN sch[s].cursor ELSE @]]
    /\ UNCHANGED <<clock, job, owed>>

UserStep(j) ==
    \/ Draft(j) \/ Commit(j) \/ DeleteJob(j)
    \/ \E b \in BOOLEAN : SetJobEnabled(j, b)
    \/ \E plan \in Plans : UpdateSchedule(j, plan)

SchedulerStep(s) ==
    \/ Start(s) \/ Stop(s) \/ BeginTick(s) \/ ReadPage(s) \/ ReadPageFails(s) \/ EndPage(s)
    \/ \E r \in sch[s].todo, lookup \in BOOLEAN : StartJob(s, r, lookup)
    \/ InsertSlot(s)
    \/ \E stored \in BOOLEAN : InsertFails(s, stored)

Next ==
    \/ Advance
    \/ \E j \in Job : UserStep(j)
    \/ \E s \in Sched : SchedulerStep(s)

Spec == Init /\ [][Next]_vars

(***************************************************************************)
(* Properties.                                                             *)
(***************************************************************************)

\* Recovery resumes from the latest durable execution, so a slot must never be
\* stored while an earlier one that is owed is missing: it would be concealed
\* for good ("Do not persist later slots", processJobWithProgress).
NoConcealedSlot ==
    \A o \in owed \ slots : \A x \in slots : x[1] = o[1] => x[2] < o[2]

\* The shared cursor never passes a slot that is still to be inserted, however
\* ticks are capped, interrupted, or overlap with another scheduler's.
CursorSound ==
    \A s \in Sched : \A o \in owed \ slots : o[2] > sch[s].last
=============================================================================
