--------------------------- MODULE SchedulerProofs ---------------------------
(***************************************************************************)
(* What the tick loop never loses, for any number of schedulers, jobs,     *)
(* schedules, page and cap sizes.                                          *)
(*                                                                         *)
(* The argument follows a slot that is missing, owed and not yet stored.   *)
(* While it is missing its job stays enabled with one schedule, so every   *)
(* row read of the job is its present row.  A tick that began after the    *)
(* slot fell due has the job ahead of it, in a page still to be read or in *)
(* the page at hand, or is working on it at this slot or an earlier one,   *)
(* or has lowered the cursor it will leave behind below the slot.          *)
(***************************************************************************)
EXTENDS Scheduler, FiniteSetTheorems, TLAPS

Missing == owed \ slots

\* The fields of a scheduler; after is left untyped, see PageAfter.
Shape(x) ==
    [pc |-> x.pc, last |-> x.last, deferred |-> x.deferred, now |-> x.now, upto |-> x.upto,
     after |-> x.after, full |-> x.full, todo |-> x.todo, cur |-> x.cur, t |-> x.t,
     cursor |-> x.cursor, n |-> x.n]

SchTyped(x) ==
    /\ x = Shape(x)
    /\ x.pc \in {"off", "wait", "page", "jobs", "slots"}
    /\ {x.last, x.now, x.upto, x.t, x.cursor} \subseteq 0..MaxTime
    /\ x.n \in 0..(MaxFires - 1)
    /\ x.todo \subseteq Rows
    /\ x.cur \in Rows \union {NoRow}

Typed ==
    /\ clock \in 1..MaxTime /\ Interval < clock
    /\ job \in [Job -> [st : {"absent", "drafted", "enabled", "paused", "deleted"},
                        created : 0..MaxTime, plan : Plans]]
    /\ \A j \in Job : /\ job[j].created <= clock
                      /\ job[j].st # "absent" => job[j].created # Zero
    /\ slots \subseteq Job \X (1..MaxTime) /\ owed \subseteq Job \X (1..MaxTime)
    /\ \A x \in owed \union slots : x[2] <= clock
    /\ sch = [s \in Sched |-> sch[s]]

\* The job of a missing slot was there before the slot fell due and has not
\* been paused or rescheduled since.
Open ==
    \A o \in Missing : /\ job[o[1]].st = "enabled" /\ o[2] \in job[o[1]].plan
                       /\ job[o[1]].created < o[2]

Ticking(x) == x.pc \in {"page", "jobs", "slots"}
Late(x, M) == {o \in M : o[2] <= x.now}

\* A late slot is ahead of the tick, or above the cursor it will leave.
Ahead(x, o) ==
    \/ o[2] > x.upto
    \/ Row(o[1]) \in x.todo
    \/ (x.pc = "page" \/ x.full) /\ o[1] > x.after
    \/ x.pc = "slots" /\ o[1] = x.cur.id

\* What holds of a scheduler x when the slots in M are missing.
Sound(x, M) ==
    /\ x.last <= clock /\ \A o \in M : o[2] > x.last
    /\ Ticking(x) => /\ Interval < x.now /\ x.now <= clock /\ x.upto <= x.now
                     /\ \A o \in Late(x, M) :
                           Ahead(x, o) /\ \A r \in x.todo : r.id = o[1] => r = Row(o[1])
    /\ x.pc # "jobs" /\ x.pc # "slots" => x.todo = {}
    /\ x.pc = "slots" =>
          /\ x.cur \in Rows /\ x.t \in x.cur.plan /\ x.t <= x.now
          /\ 0 < x.cursor /\ x.cursor < x.t
          /\ \A o \in Late(x, M) : o[1] = x.cur.id => x.cur = Row(o[1]) /\ x.t <= o[2]

SchedIInv ==
    /\ Typed /\ Open /\ NoConcealedSlot
    /\ \A s \in Sched : SchTyped(sch[s]) /\ Sound(sch[s], Missing)

-----------------------------------------------------------------------------
\* A non-empty set of numbers has a least one.
LEMMA LeastOf ==
    ASSUME NEW S \in SUBSET Nat, S # {}
    PROVE  \E v \in S : \A w \in S : v <= w
<1> DEFINE R == OpToRel(<, Nat)
<1>1. \A i, k \in Nat : i < k => <<i, k>> \in R
  BY DEF OpToRel
<1>2. IsWellFoundedOn(R, Nat)
  BY NatLessThanWellFounded, Zenon
<1> HIDE DEF R
<1>3. PICK v \in S : \A w \in S : ~(<<w, v>> \in R)
  BY <1>2, WFMin, Zenon
<1>4. ASSUME NEW w \in S PROVE v <= w
  <2>1. v \in Nat /\ w \in Nat /\ ~(<<w, v>> \in R)
    BY <1>3
  <2>2. ~(w < v)
    BY <1>1, <2>1
  <2>3. QED
    BY <2>1, <2>2
<1>5. QED
  BY <1>3, <1>4

\* A non-empty bounded set of numbers has a greatest one.
LEMMA GreatestOf ==
    ASSUME NEW S \in SUBSET Nat, S # {}, NEW n \in Nat, \A k \in S : k <= n
    PROVE  \E v \in S : \A w \in S : w <= v
<1> DEFINE U == {v \in Nat : \A k \in S : k <= v}
<1>1. U \in SUBSET Nat /\ U # {}
  OBVIOUS
<1> HIDE DEF U
<1>2. PICK v \in U : \A w \in U : v <= w
  BY <1>1, LeastOf
<1>3. v \in Nat /\ \A k \in S : k <= v
  BY DEF U
<1>4. v \in S
  <2> SUFFICES ASSUME v \notin S PROVE FALSE
    OBVIOUS
  <2>1. \A k \in S : k \in Nat /\ k < v
    BY <1>3
  <2>2. PICK j \in S : j \in Nat /\ j < v
    BY <2>1, Zenon
  <2>3. v - 1 \in Nat /\ \A k \in S : k <= v - 1
    BY <1>3, <2>1, <2>2
  <2>4. v - 1 \in U
    BY <2>3 DEF U
  <2>5. QED
    BY <1>2, <1>3, <2>4
<1>5. QED
  BY <1>3, <1>4

\* cron.Next: the least fire time after t, or none.
LEMMA NextFireIs ==
    ASSUME NEW plan \in SUBSET (Nat \ {0}), NEW t \in Nat
    PROVE  LET f == NextFire(plan, t) IN
           /\ f = Zero => \A u \in plan : u <= t
           /\ f # Zero => f \in plan /\ t < f /\ \A u \in plan : u > t => f <= u
<1> DEFINE S == {u \in plan : u > t}
<1>1. CASE \E u \in plan : u > t
  <2>1. S \in SUBSET Nat /\ S # {}
    BY <1>1, Zenon
  <2>2. \E v \in S : \A w \in S : v <= w
    <3> HIDE DEF S
    <3>1. QED
      BY <2>1, LeastOf
  <2>3. \E u \in plan : u > t /\ \A v \in plan : v > t => u <= v
    BY <2>2
  <2>4. NextFire(plan, t) \in plan /\ NextFire(plan, t) > t
        /\ \A v \in plan : v > t => NextFire(plan, t) <= v
    BY <1>1, <2>3, Zenon DEF NextFire
  <2>5. NextFire(plan, t) # Zero
    BY <2>4 DEF Zero
  <2>6. QED
    BY <2>4, <2>5
<1>2. CASE ~\E u \in plan : u > t
  <2>1. NextFire(plan, t) = Zero
    BY <1>2 DEF NextFire
  <2>2. QED
    BY <1>2, <2>1
<1>3. QED
  BY <1>1, <1>2

\* GetLastScheduledExecution finds a stored slot of the job, or there is none.
LEMMA LastScheduledIs ==
    ASSUME Typed, NEW j \in Job
    PROVE  /\ LastScheduled(j) \in 0 .. MaxTime
           /\ LastScheduled(j) = Zero \/ \E x \in slots : x[1] = j /\ x[2] = LastScheduled(j)
<1> USE SizeAssumption
<1>1. CASE \E x \in slots : x[1] = j
  <2> DEFINE S == {x[2] : x \in {y \in slots : y[1] = j}}
  <2>1. MaxTime \in Nat /\ \A x \in slots : x[2] \in 1 .. MaxTime
    BY DEF Typed
  <2>2. S \in SUBSET Nat /\ S # {} /\ \A k \in S : k <= MaxTime
    BY <1>1, <2>1
  <2>3. \E v \in S : \A w \in S : w <= v
    <3> HIDE DEF S
    <3>1. QED
      BY <2>1, <2>2, GreatestOf, Zenon
  <2>4. \E x \in slots : x[1] = j /\ \A y \in slots : y[1] = j => y[2] <= x[2]
    BY <2>3
  <2>5. PICK x \in slots : x[1] = j /\ x[2] = LastScheduled(j)
    BY <1>1, <2>4, Zenon DEF LastScheduled
  <2>6. QED
    BY <2>1, <2>5
<1>2. CASE ~\E x \in slots : x[1] = j
  BY <1>2 DEF LastScheduled, Zero
<1>3. QED
  BY <1>1, <1>2

\* An enabled job after the cursor that a page leaves out comes after all of a
\* full page (queryGetEnabledJobs).
LEMMA PageIsNext ==
    ASSUME NEW id, NEW m \in Enabled, m > id, m \notin PageAfter(id)
    PROVE  /\ Cardinality(PageAfter(id)) = PageSize
           /\ \A k \in PageAfter(id) : k < m
           /\ PageAfter(id) # {}
           /\ \E v \in PageAfter(id) : \A w \in PageAfter(id) : w <= v
<1> DEFINE P == PageAfter(id)
           Before(j) == {k \in Enabled : id < k /\ k < j}
           G == {j \in Enabled : j > id /\ j \notin P}
<1>1. (\A k \in Enabled : k \in Nat) /\ PageSize \in Nat /\ PageSize > 0
  BY JobAssumption, SizeAssumption DEF Enabled
<1>2. ASSUME NEW j \in Nat
      PROVE  Before(j) \in SUBSET Nat /\ IsFiniteSet(Before(j)) /\ Cardinality(Before(j)) \in Nat
  <2>1. ASSUME NEW k \in Before(j) PROVE k \in Nat /\ k <= j
    <3>1. k \in Nat /\ k < j
      BY <1>1
    <3>2. QED
      BY <3>1
  <2>2. Before(j) \in SUBSET Nat
    BY <2>1
  <2>3. IsFiniteSet(Before(j))
    <3> HIDE DEF Before
    <3>1. QED
      BY <2>1, <2>2, FS_BoundedSetOfNaturals
  <2>4. QED
    BY <2>2, <2>3, FS_CardinalityType
<1>3. \A j : j \in P <=> j \in Enabled /\ j > id /\ Cardinality(Before(j)) < PageSize
  BY DEF PageAfter
<1>4. ASSUME NEW g \in G, NEW j \in P PROVE j < g
  <2> SUFFICES ASSUME ~(j < g) PROVE FALSE
    OBVIOUS
  <2>1. g \in Nat /\ j \in Nat /\ ~(Cardinality(Before(g)) < PageSize) /\ Cardinality(Before(j)) < PageSize
    BY <1>1, <1>3
  <2>2. Before(g) \subseteq Before(j)
    <3> SUFFICES ASSUME NEW k \in Before(g) PROVE k < j
      OBVIOUS
    <3>1. k \in Nat /\ k < g
      BY <1>1
    <3>2. QED
      BY <2>1, <3>1
  <2>3. /\ IsFiniteSet(Before(j)) /\ Cardinality(Before(j)) \in Nat /\ Cardinality(Before(g)) \in Nat
    BY <1>2, <2>1
  <2>4. Cardinality(Before(g)) <= Cardinality(Before(j))
    <3> HIDE DEF Before
    <3>1. QED
      BY <2>2, <2>3, FS_Subset
  <2>5. QED
    BY <1>1, <2>1, <2>3, <2>4
<1>5. G \in SUBSET Nat /\ m \in G
  BY <1>1
<1>6. PICK g \in G : \A w \in G : g <= w
  <2> HIDE DEF G
  <2>1. QED
    BY <1>5, LeastOf
<1>7. g \in Nat /\ g \in Enabled /\ g > id /\ g \notin P
  BY <1>1
<1>8. P = Before(g)
  <2>1. ASSUME NEW j \in P PROVE j \in Before(g)
    BY <1>3, <1>4, <2>1, Zenon
  <2>2. ASSUME NEW k \in Before(g) PROVE k \in P
    <3> SUFFICES ASSUME k \notin P PROVE FALSE
      OBVIOUS
    <3>1. k \in G /\ k \in Nat
      BY <1>1
    <3>2. g <= k /\ k < g
      BY <1>6, <3>1
    <3>3. QED
      BY <1>7, <3>1, <3>2
  <2>3. QED
    BY <2>1, <2>2
<1>9. IsFiniteSet(P) /\ Cardinality(P) \in Nat /\ Cardinality(P) >= PageSize /\ P \in SUBSET Nat
  <2>1. ~(Cardinality(Before(g)) < PageSize)
    BY <1>3, <1>7
  <2>2. IsFiniteSet(Before(g)) /\ Cardinality(Before(g)) \in Nat /\ Before(g) \in SUBSET Nat
    BY <1>2, <1>7
  <2> HIDE DEF P, Before, G
  <2>3. QED
    BY <1>1, <1>8, <2>1, <2>2
<1> HIDE DEF P, G
<1>10. P # {}
  BY <1>1, <1>9, FS_EmptySet
<1>11. PICK v \in P : \A w \in P : w <= v
  <2>1. ASSUME NEW k \in P PROVE k <= g
    <3>1. k \in Nat /\ k < g
      BY <1>8, <1>9
    <3>2. QED
      BY <1>7, <3>1
  <2>2. QED
    BY <1>7, <1>9, <1>10, <2>1, GreatestOf, Zenon
<1>12. P = Before(v) \union {v} /\ v \notin Before(v) /\ v \in Nat
  <2>1. v \in Nat /\ v < g /\ v \in Enabled /\ id < v
    BY <1>8, <1>9
  <2>2. ASSUME NEW k \in P PROVE k \in Before(v) \/ k = v
    <3>1. k \in Nat /\ k \in Enabled /\ id < k /\ k <= v
      BY <1>8, <1>9, <1>11
    <3>2. QED
      BY <2>1, <3>1
  <2>3. ASSUME NEW k \in Before(v) PROVE k \in P
    BY <1>1, <1>7, <1>8, <2>1
  <2>4. v \notin Before(v)
    BY <2>1
  <2>5. QED
    BY <2>1, <2>2, <2>3, <2>4, Zenon
<1>13. Cardinality(P) <= PageSize
  <2>1. Cardinality(Before(v)) < PageSize
    BY <1>3, <1>11
  <2>2. IsFiniteSet(Before(v)) /\ Cardinality(Before(v)) \in Nat
    BY <1>2, <1>12
  <2> HIDE DEF Before
  <2>3. Cardinality(P) = Cardinality(Before(v)) + 1
    BY <1>12, <2>2, FS_AddElement, Zenon
  <2>4. QED
    BY <1>1, <2>1, <2>2, <2>3
<1>14. \A k \in P : k < m
  BY <1>4, <1>5
<1>15. Cardinality(P) = PageSize
  BY <1>1, <1>9, <1>13
<1>16. QED
  BY <1>10, <1>11, <1>14, <1>15 DEF P

-----------------------------------------------------------------------------
\* The sizes are positive numbers (config.Validate).
LEMMA Sizes ==
    /\ PageSize \in Nat \ {0} /\ MaxFires \in Nat \ {0} /\ Interval \in Nat \ {0}
    /\ MaxTime \in Nat \ {0} /\ Interval < MaxTime
BY SizeAssumption

\* What is missing is a slot of a job at a time.
LEMMA MissingIs ==
    ASSUME Typed
    PROVE  \A o \in Missing : /\ o[1] \in Job /\ o[1] \in Nat \ {0} /\ o[2] \in 1..MaxTime
                              /\ o[2] \in Nat /\ o[2] <= clock
BY JobAssumption, Sizes DEF Missing, Typed

\* A scheduler is not disturbed when nothing comes to be missing that was due,
\* and what is missing keeps its row.
LEMMA SoundKeeps ==
    ASSUME NEW x, NEW M, SchTyped(x), Sound(x, M), clock \in Nat, clock' \in Nat, clock <= clock',
           \A o \in Missing' : o[2] \in Nat,
           \A o \in Missing' : (o \in M /\ Row(o[1])' = Row(o[1])) \/ o[2] > clock
    PROVE  Sound(x, Missing)'
<1> USE Sizes
<1>1. x.last \in Nat /\ x.now \in Nat /\ x.upto \in Nat
  BY DEF SchTyped
<1>2. x.last <= clock' /\ \A o \in Missing' : o[2] > x.last
  BY <1>1 DEF Sound
<1>3. Ticking(x) => \A o \in Missing' : o[2] <= x.now => o \in Late(x, M) /\ Row(o[1])' = Row(o[1])
  BY <1>1 DEF Sound, Late
<1>4. Ticking(x) => /\ Interval < x.now /\ x.now <= clock' /\ x.upto <= x.now
                    /\ \A o \in Missing' : o[2] <= x.now =>
                         /\ Ahead(x, o)'
                         /\ \A r \in x.todo : r.id = o[1] => r = Row(o[1])'
  <2>1. Ticking(x) => Interval < x.now /\ x.now <= clock' /\ x.upto <= x.now
    BY <1>1 DEF Sound
  <2>2. ASSUME Ticking(x), NEW o \in Missing', o[2] <= x.now
        PROVE  Ahead(x, o)' /\ \A r \in x.todo : r.id = o[1] => r = Row(o[1])'
    <3>1. o \in Late(x, M) /\ Row(o[1])' = Row(o[1])
      BY <1>3, <2>2
    <3>2. Ahead(x, o) /\ \A r \in x.todo : r.id = o[1] => r = Row(o[1])
      BY <2>2, <3>1 DEF Sound
    <3>3. QED
      BY <3>1, <3>2 DEF Ahead
  <2>3. QED
    BY <2>1, <2>2
<1>5. x.pc # "jobs" /\ x.pc # "slots" => x.todo = {}
  BY DEF Sound
<1>6. ASSUME x.pc = "slots"
      PROVE  /\ x.cur \in Rows /\ x.t \in x.cur.plan /\ x.t <= x.now
             /\ 0 < x.cursor /\ x.cursor < x.t
             /\ \A o \in Missing' : o[2] <= x.now =>
                   (o[1] = x.cur.id => x.cur = Row(o[1])' /\ x.t <= o[2])
  <2>1. Ticking(x)
    BY <1>6 DEF Ticking
  <2>2. QED
    BY <1>3, <1>6, <2>1 DEF Sound
<1>7. Rows' = Rows
  BY DEF Rows
<1>8. QED
  BY <1>2, <1>4, <1>5, <1>6, <1>7 DEF Sound, Late, Ticking

\* The steps of users change one job, of which nothing is missing afterwards.
LEMMA UserWrites ==
    ASSUME SchedIInv, NEW j \in Job,
           job' \in [Job -> [st : {"absent", "drafted", "enabled", "paused", "deleted"},
                             created : 0..MaxTime, plan : Plans]],
           \A k \in Job : k # j => job'[k] = job[k],
           job'[j].created <= clock, job'[j].created # Zero,
           UNCHANGED <<clock, sch>>, slots' \subseteq slots, owed' \subseteq owed,
           \A o \in Missing' : o \in Missing /\ o[1] # j
    PROVE  SchedIInv'
<1> USE Sizes DEF SchedIInv
<1>1. \A o \in Missing' : o \in Missing /\ o[1] \in Job /\ o[1] # j /\ job'[o[1]] = job[o[1]]
  BY MissingIs
<1>2. Typed'
  BY DEF Typed
<1>3. Open'
  BY <1>1 DEF Open
<1>4. NoConcealedSlot'
  <2>1. \A o \in Missing' : \A x \in slots' : x[1] = o[1] => x[2] < o[2]
    BY <1>1, Zenon DEF NoConcealedSlot, Missing
  <2>2. QED
    BY <2>1 DEF NoConcealedSlot, Missing
<1>5. ASSUME NEW s \in Sched PROVE (SchTyped(sch[s]) /\ Sound(sch[s], Missing))'
  <2>1. PICK x : x = sch[s] /\ x = sch'[s]
    OBVIOUS
  <2>2. clock \in Nat /\ clock' = clock
    BY DEF Typed
  <2>3. \A o \in Missing' : o \in Missing /\ Row(o[1])' = Row(o[1]) /\ o[2] \in Nat
    BY <1>1, MissingIs DEF Row
  <2>4. Sound(x, Missing)'
    BY <2>1, <2>2, <2>3, SoundKeeps
  <2>5. SchTyped(sch'[s])
    BY <2>1
  <2>6. QED
    BY <2>1, <2>4, <2>5 DEF SchTyped, Rows, Shape, NoRow
<1>6. QED
  BY <1>2, <1>3, <1>4, <1>5

\* Creating, pausing, resuming, rescheduling and deleting a job.
LEMMA UserSteps ==
    ASSUME SchedIInv, NEW j \in Job, UserStep(j)
    PROVE  SchedIInv'
<1> USE Sizes DEF SchedIInv
<1> DEFINE T == [st : {"absent", "drafted", "enabled", "paused", "deleted"},
                 created : 0..MaxTime, plan : Plans]
<1>1. /\ job \in [Job -> T] /\ clock \in 0..MaxTime /\ clock # Zero /\ job[j] \in T
      /\ job[j].created <= clock /\ (job[j].st # "absent" => job[j].created # Zero)
  BY DEF Typed, Zero
<1>2. \A o \in Missing : o \in owed /\ o \notin slots /\ job[o[1]].st = "enabled"
  BY DEF Open, Missing
<1>3. CASE Draft(j) \/ Commit(j)
  <2> DEFINE row == [job[j] EXCEPT !.st = IF Draft(j) THEN "drafted" ELSE "enabled",
                                   !.created = IF Draft(j) THEN clock ELSE @]
  <2>1. /\ job[j].st \in {"absent", "drafted"} /\ UNCHANGED <<clock, slots, sch, owed>>
        /\ job' = [job EXCEPT ![j] = row] /\ (job[j].st = "absent" => Draft(j))
    BY <1>1, <1>3, Zenon DEF Draft, Commit
  <2>2. row \in T /\ row.created = IF Draft(j) THEN clock ELSE job[j].created
    BY <1>1, Zenon
  <2>3. row.created <= clock /\ row.created # Zero
    BY <1>1, <2>1, <2>2 DEF Typed
  <2>4. Missing' = Missing /\ \A o \in Missing : o[1] # j
    BY <1>2, <2>1 DEF Missing
  <2> HIDE DEF T, row
  <2>5. job' \in [Job -> T] /\ job'[j] = row /\ \A k \in Job : k # j => job'[k] = job[k]
    BY <1>1, <2>1, <2>2, Zenon
  <2>6. QED
    BY <2>1, <2>3, <2>4, <2>5, UserWrites DEF T
<1>4. CASE (\E b \in BOOLEAN : SetJobEnabled(j, b)) \/ (\E plan \in Plans : UpdateSchedule(j, plan))
  <2>1. /\ job[j].st # "absent" /\ UNCHANGED <<clock, slots, sch>>
        /\ owed' = {o \in owed : o[1] = j => o \in slots}
    BY <1>4 DEF SetJobEnabled, UpdateSchedule, Forgive
  <2>2. PICK row \in T : job' = [job EXCEPT ![j] = row] /\ row.created = job[j].created
    <3>1. ASSUME NEW b \in BOOLEAN, SetJobEnabled(j, b)
          PROVE  \E row \in T : job' = [job EXCEPT ![j] = row] /\ row.created = job[j].created
      <4> DEFINE row == [job[j] EXCEPT !.st = IF b THEN "enabled" ELSE "paused"]
      <4>1. row \in T /\ row.created = job[j].created
        BY <1>1
      <4>2. job' = [job EXCEPT ![j] = row]
        BY <1>1, <3>1 DEF SetJobEnabled
      <4>3. QED
        BY <4>1, <4>2, Zenon
    <3>2. ASSUME NEW plan \in Plans, UpdateSchedule(j, plan)
          PROVE  \E row \in T : job' = [job EXCEPT ![j] = row] /\ row.created = job[j].created
      <4> DEFINE row == [job[j] EXCEPT !.plan = plan]
      <4>1. row \in T /\ row.created = job[j].created
        BY <1>1
      <4>2. job' = [job EXCEPT ![j] = row]
        BY <1>1, <3>2 DEF UpdateSchedule
      <4>3. QED
        BY <4>1, <4>2, Zenon
    <3>3. QED
      BY <1>4, <3>1, <3>2
  <2>3. owed' \subseteq owed /\ \A o \in Missing' : o \in Missing /\ o[1] # j
    BY <2>1 DEF Missing
  <2> HIDE DEF T
  <2>4. job' \in [Job -> T] /\ job'[j] = row /\ \A k \in Job : k # j => job'[k] = job[k]
    BY <1>1, <2>2, Zenon
  <2>5. QED
    BY <1>1, <2>1, <2>2, <2>3, <2>4, UserWrites DEF T
<1>5. CASE DeleteJob(j)
  <2> DEFINE row == [job[j] EXCEPT !.st = "deleted"]
  <2>1. /\ job[j].st # "absent" /\ UNCHANGED <<clock, sch>>
        /\ slots' = {x \in slots : x[1] # j} /\ owed' = {x \in owed : x[1] # j}
        /\ job' = [job EXCEPT ![j] = row]
    BY <1>1, <1>5 DEF DeleteJob
  <2>2. row \in T /\ row.created = job[j].created
    BY <1>1
  <2>3. slots' \subseteq slots /\ owed' \subseteq owed /\ \A o \in Missing' : o \in Missing /\ o[1] # j
    BY <2>1 DEF Missing
  <2> HIDE DEF T, row
  <2>4. job' \in [Job -> T] /\ job'[j] = row /\ \A k \in Job : k # j => job'[k] = job[k]
    BY <1>1, <2>1, <2>2
  <2>5. QED
    BY <1>1, <2>1, <2>2, <2>3, <2>4, UserWrites DEF T
<1>6. QED
  BY <1>3, <1>4, <1>5 DEF UserStep

\* The clock: what falls due is after every slot stored and every cursor (Advance).
LEMMA AdvanceStep ==
    ASSUME SchedIInv, Advance
    PROVE  SchedIInv'
<1> USE Sizes DEF SchedIInv
<1>1. /\ clock \in Nat /\ clock' = clock + 1 /\ clock' \in 1..MaxTime /\ UNCHANGED <<job, slots, sch>>
      /\ owed' = owed \union Due("enabled")
  BY DEF Advance, Typed
<1>2. \A o \in Due("enabled") : /\ o[1] \in Job /\ o[2] = clock + 1 /\ o \in Job \X (1..MaxTime)
                                /\ job[o[1]].st = "enabled" /\ o[2] \in job[o[1]].plan
  BY <1>1 DEF Due
<1>3. \A j \in Job : job[j].created \in Nat /\ job[j].created <= clock
  BY DEF Typed
<1>4. \A x \in owed \union slots : x[2] \in Nat /\ x[2] <= clock
  BY DEF Typed
<1>5. Typed'
  <2>1. owed' \subseteq Job \X (1..MaxTime)
    BY <1>1, <1>2 DEF Typed
  <2>2. \A x \in owed' \union slots' : x[2] <= clock'
    BY <1>1, <1>2, <1>4
  <2>3. \A j \in Job : job'[j].created <= clock'
    BY <1>1, <1>3
  <2>4. Interval < clock'
    BY <1>1 DEF Typed
  <2>5. QED
    BY <1>1, <2>1, <2>2, <2>3, <2>4 DEF Typed
<1>6. \A o \in Missing' : o \in Missing \/ o \in Due("enabled")
  BY <1>1 DEF Missing
<1>7. Open'
  <2> SUFFICES ASSUME NEW o \in Missing'
               PROVE  /\ job[o[1]].st = "enabled" /\ o[2] \in job[o[1]].plan
                      /\ job[o[1]].created < o[2]
    BY <1>1 DEF Open
  <2>1. CASE o \in Missing
    BY <2>1, Zenon DEF Open
  <2>2. CASE o \in Due("enabled")
    BY <1>1, <1>2, <1>3, <2>2
  <2>3. QED
    BY <1>6, <2>1, <2>2
<1>8. NoConcealedSlot'
  <2> SUFFICES ASSUME NEW o \in Missing', NEW x \in slots, x[1] = o[1] PROVE x[2] < o[2]
    BY <1>1 DEF NoConcealedSlot, Missing
  <2>1. CASE o \in Missing
    BY <2>1 DEF NoConcealedSlot, Missing
  <2>2. CASE o \in Due("enabled")
    BY <1>1, <1>2, <1>4, <2>2
  <2>3. QED
    BY <1>6, <2>1, <2>2
<1>9. ASSUME NEW s \in Sched PROVE (SchTyped(sch[s]) /\ Sound(sch[s], Missing))'
  <2>1. PICK x : x = sch[s] /\ x = sch'[s]
    BY <1>1
  <2>2. \A j \in Job : Row(j)' = Row(j)
    BY <1>1 DEF Row
  <2>3. \A o \in Missing' : (o \in Missing /\ Row(o[1])' = Row(o[1])) \/ o[2] > clock
    BY <1>1, <1>2, <1>6, <2>2, MissingIs
  <2>4. \A o \in Missing' : o[2] \in Nat
    BY <1>1, <1>2, <1>6, MissingIs
  <2>5. Sound(x, Missing)'
    BY <1>1, <2>1, <2>3, <2>4, SoundKeeps
  <2>6. SchTyped(sch'[s])
    BY <2>1, Zenon
  <2>7. QED
    BY <2>1, <2>5, <2>6, Zenon DEF SchTyped, Rows, Shape, NoRow
<1>10. QED
  BY <1>5, <1>7, <1>8, <1>9

\* A step of one scheduler keeps the invariant if the scheduler as it becomes is
\* sound for what is then missing, M at most.
LEMMA SchedulerWrites ==
    ASSUME SchedIInv, NEW s \in Sched, NEW x, NEW M, sch' = [sch EXCEPT ![s] = x],
           SchTyped(x), Sound(x, M), UNCHANGED <<clock, job, owed>>,
           slots \subseteq slots', slots' \subseteq Job \X (1..MaxTime), \A y \in slots' : y[2] <= clock,
           Missing' \subseteq M, NoConcealedSlot'
    PROVE  SchedIInv'
<1> USE Sizes DEF SchedIInv
<1>1. Missing' \subseteq Missing /\ Row(1)' = Row(1) /\ \A o \in Missing' : o[2] \in Nat
  BY MissingIs DEF Missing, Row
<1>2. \A o : Row(o[1])' = Row(o[1])
  BY DEF Row
<1>3. sch' = [q \in Sched |-> sch'[q]] /\ sch'[s] = x /\ \A q \in Sched \ {s} : sch'[q] = sch[q]
  BY DEF Typed
<1>4. Typed'
  BY <1>3 DEF Typed
<1>5. Open'
  BY <1>1 DEF Open
<1>6. clock \in Nat /\ clock' = clock
  BY DEF Typed
<1>7. ASSUME NEW q \in Sched PROVE (SchTyped(sch[q]) /\ Sound(sch[q], Missing))'
  <2>1. CASE q = s
    <3>1. Sound(x, Missing)'
      BY <1>1, <1>2, <1>6, SoundKeeps
    <3>2. QED
      BY <1>3, <2>1, <3>1, ZenonT(40) DEF SchTyped, Rows, Shape, NoRow
  <2>2. CASE q # s
    <3>1. PICK y : y = sch[q] /\ y = sch'[q]
      BY <1>3, <2>2
    <3>2. Sound(y, Missing)'
      BY <1>1, <1>2, <1>6, <3>1, SoundKeeps
    <3>3. SchTyped(sch'[q])
      BY <3>1
    <3>4. QED
      BY <3>1, <3>2, <3>3 DEF SchTyped, Rows, Shape, NoRow
  <2>3. QED
    BY <2>1, <2>2, Zenon
<1>8. QED
  BY <1>4, <1>5, <1>7

\* The same for a step that stores nothing.
LEMMA SchedulerMoves ==
    ASSUME SchedIInv, NEW s \in Sched, NEW x, sch' = [sch EXCEPT ![s] = x],
           SchTyped(x), Sound(x, Missing), UNCHANGED <<clock, job, owed, slots>>
    PROVE  SchedIInv'
<1> DEFINE M == Missing
<1>1. slots' \subseteq Job \X (1..MaxTime) /\ \A y \in slots' : y[2] <= clock
  BY DEF SchedIInv, Typed
<1>2. Missing' \subseteq M /\ NoConcealedSlot' /\ Sound(x, M)
  BY DEF SchedIInv, Missing, NoConcealedSlot
<1> HIDE DEF M
<1>3. QED
  BY <1>1, <1>2, SchedulerWrites, Zenon

\* A stopped scheduler, and one between two ticks with a cursor it may keep.
LEMMA BetweenTicks ==
    ASSUME SchedIInv, NEW x, NEW l \in 0..MaxTime, l <= clock, \A o \in Missing : o[2] > l,
           x = Shape(x), x.pc \in {"off", "wait"}, x.last = l,
           x.todo = {}, x.cur = NoRow, x.now = 0, x.upto = 0, x.t = 0, x.cursor = 0, x.n = 0
    PROVE  SchTyped(x) /\ Sound(x, Missing)
<1>1. 0 \in 0..MaxTime /\ 0 \in 0..(MaxFires - 1)
  BY Sizes
<1>2. SchTyped(x)
  BY <1>1 DEF SchTyped
<1>3. QED
  BY <1>2 DEF Sound, Ticking

\* Start, Stop, ReadPageFails: no page is being worked on.
LEMMA StartStopStep ==
    ASSUME SchedIInv, NEW s \in Sched, Start(s) \/ Stop(s) \/ ReadPageFails(s)
    PROVE  SchedIInv'
<1>1. UNCHANGED <<clock, job, slots, owed>>
  BY DEF Start, Stop, ReadPageFails
<1>2. /\ SchTyped(sch[s]) /\ Sound(sch[s], Missing)
  BY Zenon DEF SchedIInv
<1>3. sch[s].last \in 0..MaxTime /\ sch[s].last <= clock /\ \A o \in Missing : o[2] > sch[s].last
  BY <1>2 DEF SchTyped, Sound
<1>4. PICK x : /\ sch' = [sch EXCEPT ![s] = x]
               /\ \/ x = Stopped \/ x = [Stopped EXCEPT !.pc = "wait"]
                  \/ x = [Stopped EXCEPT !.pc = "wait", !.last = sch[s].last, !.deferred = TRUE]
  BY DEF Start, Stop, ReadPageFails
<1>5. SchTyped(x) /\ Sound(x, Missing)
  <2> DEFINE Plain(y, l) ==
               /\ y = Shape(y) /\ y.pc \in {"off", "wait"} /\ y.last = l /\ y.todo = {}
               /\ y.cur = NoRow /\ y.now = 0 /\ y.upto = 0 /\ y.t = 0 /\ y.cursor = 0 /\ y.n = 0
  <2>1. CASE x = Stopped \/ x = [Stopped EXCEPT !.pc = "wait"]
    <3>1. Plain(x, 0)
      BY <2>1 DEF Stopped, Shape, Zero
    <3>2. 0 \in 0..MaxTime /\ 0 <= clock /\ \A o \in Missing : o[2] > 0
      BY Sizes, MissingIs DEF SchedIInv, Typed
    <3>3. QED
      BY <3>1, <3>2, BetweenTicks
  <2>2. CASE x = [Stopped EXCEPT !.pc = "wait", !.last = sch[s].last, !.deferred = TRUE]
    <3>1. PICK l \in 0..MaxTime : l = sch[s].last
      BY <1>3
    <3>2. Plain(x, l)
      BY <2>2, <3>1, Zenon DEF Stopped, Shape, Zero
    <3>3. QED
      BY <1>3, <3>1, <3>2, BetweenTicks
  <2>3. QED
    BY <1>4, <2>1, <2>2
<1>6. QED
  BY <1>1, <1>4, <1>5, SchedulerMoves, Zenon

\* A tick begins before all jobs, with the clock as its horizon (processTick).
LEMMA BeginTickStep ==
    ASSUME SchedIInv, NEW s \in Sched, BeginTick(s)
    PROVE  SchedIInv'
<1> USE Sizes
<1>1. UNCHANGED <<clock, job, slots, owed>> /\ sch[s].pc = "wait"
  BY DEF BeginTick
<1>2. SchTyped(sch[s]) /\ Sound(sch[s], Missing) /\ clock \in 0..MaxTime /\ Interval < clock
  BY DEF SchedIInv, Typed
<1>3. PICK y : y = sch[s]
  OBVIOUS
<1>4. PICK x : x = [y EXCEPT !.pc = "page", !.now = clock, !.upto = clock, !.after = Zero]
  OBVIOUS
<1>5. sch' = [sch EXCEPT ![s] = x]
  BY <1>3, <1>4, Zenon DEF BeginTick
<1>6. y = Shape(y) /\ y.todo = {}
  BY <1>1, <1>2, <1>3 DEF SchTyped, Sound
<1>7. /\ x = Shape(x) /\ x.pc = "page" /\ x.now = clock /\ x.upto = clock /\ x.after = 0
      /\ x.last = y.last /\ x.todo = {} /\ x.cur = y.cur /\ x.t = y.t /\ x.cursor = y.cursor /\ x.n = y.n
  BY <1>4, <1>6, Zenon DEF Shape, Zero
<1>8. SchTyped(x)
  BY <1>2, <1>3, <1>7 DEF SchTyped
<1>9. \A o \in Missing : o[1] \in Nat /\ o[1] > 0
  BY MissingIs DEF SchedIInv
<1>10. \A o \in Missing : Ahead(x, o)
  BY <1>7, <1>9, Zenon DEF Ahead
<1>11. Sound(x, Missing)
  BY <1>2, <1>3, <1>7, <1>10 DEF Sound, Ticking, Late
<1>12. QED
  BY <1>1, <1>5, <1>8, <1>11, SchedulerMoves, Zenon

\* A page holds every job with a missing slot up to the new cursor (processTick).
LEMMA ReadPageStep ==
    ASSUME SchedIInv, NEW s \in Sched, ReadPage(s)
    PROVE  SchedIInv'
<1> USE Sizes
<1> DEFINE P == PageAfter(sch[s].after)
           top == IF P = {} THEN sch[s].after ELSE CHOOSE j \in P : \A k \in P : k <= j
<1>1. UNCHANGED <<clock, job, slots, owed>> /\ sch[s].pc = "page"
  BY DEF ReadPage
<1>2. SchTyped(sch[s]) /\ Sound(sch[s], Missing)
  BY DEF SchedIInv
<1>3. PICK y : y = sch[s]
  OBVIOUS
<1>4. PICK x : /\ sch' = [sch EXCEPT ![s] = x]
               /\ x = [y EXCEPT !.pc = "jobs", !.todo = {Row(j) : j \in P},
                                !.full = Cardinality(P) = PageSize, !.after = top]
  <2>1. sch' = [sch EXCEPT ![s] = [sch[s] EXCEPT !.pc = "jobs", !.todo = {Row(j) : j \in P},
                                      !.full = Cardinality(P) = PageSize, !.after = top]]
    BY DEF ReadPage
  <2> HIDE DEF P, top
  <2>2. QED
    BY <1>3, <2>1, Zenon
<1>5. sch' = [sch EXCEPT ![s] = x]
  BY <1>4
<1> HIDE DEF top
<1>6. /\ x = Shape(x) /\ x.pc = "jobs" /\ x.now = y.now /\ x.upto = y.upto /\ x.after = top
      /\ x.full = (Cardinality(P) = PageSize) /\ x.last = y.last /\ x.todo = {Row(j) : j \in P}
      /\ x.cur = y.cur /\ x.t = y.t /\ x.cursor = y.cursor /\ x.n = y.n
  <2>1. y = Shape(y)
    BY <1>2, <1>3 DEF SchTyped
  <2> HIDE DEF P
  <2>2. QED
    BY <1>4, <2>1, Zenon DEF Shape
<1>7. P \subseteq Job /\ \A j \in P : Row(j) \in Rows /\ Row(j).id = j
  BY Zenon DEF PageAfter, Enabled, Row, Rows, SchedIInv, Typed
<1>8. SchTyped(x)
  BY <1>2, <1>3, <1>6, <1>7 DEF SchTyped
<1>9. ASSUME NEW o \in Late(x, Missing)
      PROVE  Ahead(x, o) /\ \A r \in x.todo : r.id = o[1] => r = Row(o[1])
  <2>1. /\ o \in Missing /\ o[1] \in Job /\ o[1] \in Nat /\ o[2] <= y.now /\ o[1] \in Enabled
        /\ o \in Late(y, Missing)
    BY <1>6, MissingIs DEF Late, SchedIInv, Open, Enabled
  <2>2. \A r \in x.todo : r.id = o[1] => r = Row(o[1])
    BY <1>6, <1>7
  <2>3. Ahead(y, o) /\ y.todo = {} /\ y.pc = "page"
    BY <1>1, <1>2, <1>3, <2>1, Zenon DEF Sound, Ticking
  <2>4. CASE o[2] > y.upto
    BY <1>6, <2>2, <2>4, Zenon DEF Ahead
  <2>5. CASE o[1] > y.after
    <3>1. CASE o[1] \in P
      BY <1>6, <2>2, <3>1, Zenon DEF Ahead
    <3>2. CASE o[1] \notin P
      <4>1. /\ Cardinality(P) = PageSize /\ \A k \in P : k < o[1]
            /\ P # {} /\ \E v \in P : \A w \in P : w <= v
        BY <1>3, <2>1, <2>5, <3>2, PageIsNext, Zenon
      <4>2. top \in P
        BY <4>1 DEF top
      <4>3. x.full /\ o[1] > x.after
        <5>1. x.full
          BY <1>6, <4>1, Zenon
        <5>2. top < o[1] /\ top \in Nat
          BY <1>7, <4>1, <4>2, JobAssumption, Zenon
        <5>3. QED
          BY <1>6, <2>1, <5>1, <5>2
      <4>4. QED
        BY <2>2, <4>3, Zenon DEF Ahead
    <3>3. QED
      BY <3>1, <3>2, Zenon
  <2>6. QED
    BY <2>3, <2>4, <2>5, Zenon DEF Ahead
<1>10. Sound(x, Missing)
  <2>1. Ticking(y) /\ Ticking(x)
    BY <1>1, <1>3, <1>6 DEF Ticking
  <2>2. QED
    BY <1>2, <1>3, <1>6, <1>9, <2>1, Zenon DEF Sound
<1>11. QED
  BY <1>1, <1>5, <1>8, <1>10, SchedulerMoves, Zenon

\* After the last job of a page (processTick): the cursor is what the tick left.
LEMMA EndPageStep ==
    ASSUME SchedIInv, NEW s \in Sched, EndPage(s)
    PROVE  SchedIInv'
<1> USE Sizes
<1>1. UNCHANGED <<clock, job, slots, owed>> /\ sch[s].pc = "jobs" /\ sch[s].todo = {}
  BY Zenon DEF EndPage
<1>2. SchTyped(sch[s]) /\ Sound(sch[s], Missing)
  BY DEF SchedIInv
<1>3. PICK y : y = sch[s]
  OBVIOUS
<1>4. /\ y.upto \in Nat /\ y.now \in Nat /\ y.upto <= y.now /\ y.now <= clock /\ y.upto \in 0..MaxTime
      /\ \A o \in Late(y, Missing) : o[2] > y.upto \/ (y.full /\ o[1] > y.after)
  BY <1>1, <1>2, <1>3 DEF SchTyped, Sound, Ticking, Ahead
<1>5. CASE sch[s].full
  <2>1. PICK x : x = [y EXCEPT !.pc = "page"]
    BY Zenon
  <2>2. sch' = [sch EXCEPT ![s] = x]
    BY <1>3, <1>5, <2>1 DEF EndPage
  <2>3. /\ x = Shape(x) /\ x.pc = "page" /\ x.now = y.now /\ x.upto = y.upto /\ x.after = y.after
        /\ x.last = y.last /\ x.todo = {} /\ x.cur = y.cur /\ x.t = y.t /\ x.cursor = y.cursor /\ x.n = y.n
    <3>1. y = Shape(y)
      BY <1>2, <1>3 DEF SchTyped
    <3>2. QED
      BY <1>1, <1>3, <2>1, <3>1, Zenon DEF Shape
  <2>4. SchTyped(x)
    BY <1>2, <1>3, <2>3, ZenonT(40) DEF SchTyped
  <2>5. Late(x, Missing) = Late(y, Missing) /\ \A o \in Late(x, Missing) : Ahead(x, o)
    BY <1>4, <2>3, Zenon DEF Late, Ahead
  <2>6. Sound(x, Missing)
    BY <1>1, <1>2, <1>3, <2>3, <2>5 DEF Sound, Ticking
  <2>7. QED
    BY <1>1, <2>2, <2>4, <2>6, SchedulerMoves, Zenon
<1>6. CASE ~sch[s].full
  <2>1. PICK x : x = [Stopped EXCEPT !.pc = "wait", !.last = y.upto, !.deferred = y.upto < y.now]
    OBVIOUS
  <2>2. sch' = [sch EXCEPT ![s] = x]
    BY <1>3, <1>6, <2>1 DEF EndPage
  <2>3. ASSUME NEW o \in Missing PROVE o[2] > y.upto
    <3>1. o[2] \in Nat
      BY MissingIs, Zenon DEF SchedIInv
    <3>2. CASE o[2] <= y.now
      BY <1>3, <1>4, <1>6, <3>2 DEF Late
    <3>3. QED
      BY <1>4, <3>1, <3>2
  <2>4. y.upto <= clock
    BY <1>4 DEF SchedIInv, Typed
  <2>5. SchTyped(x) /\ Sound(x, Missing)
    <3>1. /\ x = Shape(x) /\ x.pc \in {"off", "wait"} /\ x.last = y.upto /\ x.todo = {}
          /\ x.cur = NoRow /\ x.now = 0 /\ x.upto = 0 /\ x.t = 0 /\ x.cursor = 0 /\ x.n = 0
      BY <2>1, Zenon DEF Stopped, Shape, Zero
    <3>2. QED
      BY <1>4, <2>3, <2>4, <3>1, BetweenTicks
  <2>6. QED
    BY <1>1, <2>2, <2>5, SchedulerMoves, Zenon
<1>7. QED
  BY <1>5, <1>6

\* What Proceed makes of scheduler y: another slot of row r, or the next job.
Onward(y, r, t, n, cursor) ==
    LET due == t # Zero /\ t <= y.now IN
    IF due /\ n < MaxFires
    THEN [y EXCEPT !.pc = "slots", !.todo = @ \ {r}, !.cur = r, !.t = t, !.n = n, !.cursor = cursor]
    ELSE [y EXCEPT !.pc = "jobs", !.todo = @ \ {r}, !.cur = NoRow, !.t = Zero, !.n = 0,
                   !.cursor = Zero, !.upto = IF due /\ cursor < @ THEN cursor ELSE @]

\* Moving on from a point before every missing slot of the job keeps a scheduler
\* sound: it stops at the next one, or leaves its cursor before it
\* (processJobWithProgress).
LEMMA ProceedIsSound ==
    ASSUME SchedIInv, NEW y, SchTyped(y), NEW M, M \subseteq Missing, y.last <= clock,
           \A o \in M : o[2] > y.last, Ticking(y),
           Interval < y.now, y.now <= clock, y.upto <= y.now,
           NEW r \in Rows, NEW n \in 0..MaxFires, NEW w \in 1..MaxTime,
           \A o \in Late(y, M) : o[1] = r.id => r = Row(o[1]) /\ w < o[2],
           \A o \in Late(y, M) : o[1] # r.id =>
              o[2] > y.upto \/ Row(o[1]) \in y.todo \/ (y.full /\ o[1] > y.after),
           \A o \in Late(y, M) : \A q \in y.todo : q.id = o[1] => q = Row(o[1]),
           NEW x, x = Onward(y, r, NextFire(r.plan, w), n, w)
    PROVE  SchTyped(x) /\ Sound(x, M)
<1> USE Sizes
<1>1. PICK t : t = NextFire(r.plan, w)
  BY Zenon
<1>2. /\ r.plan \in SUBSET (Nat \ {0}) /\ r.id \in Job /\ w \in Nat /\ w > 0
      /\ y.now \in Nat /\ y.upto \in Nat /\ y.now <= MaxTime /\ clock \in Nat
  BY PlansAssumption DEF Rows, SchTyped, SchedIInv, Typed
<1>3. /\ t = 0 => \A u \in r.plan : u <= w
      /\ t # 0 => t \in r.plan /\ w < t /\ t \in Nat /\ \A u \in r.plan : u > w => t <= u
  BY <1>1, <1>2, NextFireIs, Zenon DEF Zero
<1>4. \A o \in Late(y, M) : o \in Missing /\ o[2] \in Nat /\ o[2] <= y.now
  BY MissingIs, Zenon DEF Late, SchedIInv
<1>5. ASSUME NEW o \in Late(y, M), o[1] = r.id
      PROVE  r = Row(o[1]) /\ w < o[2] /\ t # 0 /\ t <= o[2] /\ t <= y.now
  <2>1. r = Row(o[1]) /\ w < o[2]
    BY <1>5, Zenon
  <2>2. o[2] \in r.plan
    BY <1>4, <2>1, Zenon DEF SchedIInv, Open, Row
  <2>3. QED
    BY <1>2, <1>3, <1>4, <2>1, <2>2
<1>6. y = Shape(y) /\ y.todo \subseteq Rows
  BY Zenon DEF SchTyped
<1>7. \A o : (Row(o[1]) \in y.todo /\ o[1] # r.id) => Row(o[1]) \in y.todo \ {r}
  <2>1. \A j : Row(j).id = j
    BY Zenon DEF Row
  <2>2. QED
    BY <2>1, Zenon
<1>8. CASE t # 0 /\ t <= y.now /\ n < MaxFires
  <2>1. x = [y EXCEPT !.pc = "slots", !.todo = @ \ {r}, !.cur = r, !.t = t, !.n = n, !.cursor = w]
    BY <1>1, <1>8 DEF Onward, Zero
  <2>2. /\ x = Shape(x) /\ x.pc = "slots" /\ x.last = y.last /\ x.now = y.now /\ x.upto = y.upto
        /\ x.after = y.after /\ x.full = y.full /\ x.todo = y.todo \ {r} /\ x.cur = r /\ x.t = t
        /\ x.n = n /\ x.cursor = w
    BY <1>6, <2>1, ZenonT(40) DEF Shape
  <2>3. SchTyped(x)
    <3>1. t \in 0..MaxTime /\ n \in 0..(MaxFires - 1) /\ w \in 0..MaxTime
      BY <1>2, <1>3, <1>8
    <3>2. {x.last, x.now, x.upto, x.t, x.cursor} \subseteq 0..MaxTime
      BY <2>2, <3>1 DEF SchTyped
    <3>3. QED
      BY <1>6, <2>2, <3>1, <3>2, Zenon DEF SchTyped
  <2>4. Late(x, M) = Late(y, M)
    BY <2>2, Zenon DEF Late
  <2>5. \A o \in Late(y, M) : Ahead(x, o)
    BY <1>7, <2>2, Zenon DEF Ahead
  <2>6. \A o \in Late(y, M) : \A q \in x.todo : q.id = o[1] => q = Row(o[1])
    BY <2>2, Zenon
  <2>7. \A o \in Late(y, M) : o[1] = x.cur.id => x.cur = Row(o[1]) /\ x.t <= o[2]
    BY <1>5, <2>2, Zenon
  <2>8. x.cur \in Rows /\ x.t \in x.cur.plan /\ x.t <= x.now /\ 0 < x.cursor /\ x.cursor < x.t
    BY <1>2, <1>3, <1>8, <2>2, Zenon
  <2>9. QED
    BY <2>2, <2>3, <2>4, <2>5, <2>6, <2>7, <2>8 DEF Sound
<1>9. CASE ~(t # 0 /\ t <= y.now /\ n < MaxFires)
  <2> DEFINE up == IF t # 0 /\ t <= y.now /\ w < y.upto THEN w ELSE y.upto
  <2>1. x = [y EXCEPT !.pc = "jobs", !.todo = @ \ {r}, !.cur = NoRow, !.t = 0, !.n = 0,
                      !.cursor = 0, !.upto = up]
    BY <1>1, <1>9, Zenon DEF Onward, Zero
  <2>2. up \in Nat /\ up <= y.upto /\ (t # 0 /\ t <= y.now => up <= w)
    BY <1>2
  <2> HIDE DEF up
  <2>3. /\ x = Shape(x) /\ x.pc = "jobs" /\ x.last = y.last /\ x.now = y.now /\ x.upto = up
        /\ x.after = y.after /\ x.full = y.full /\ x.todo = y.todo \ {r} /\ x.cur = NoRow /\ x.t = 0
        /\ x.n = 0 /\ x.cursor = 0
    BY <1>6, <2>1, ZenonT(40) DEF Shape
  <2>4. SchTyped(x)
    <3>1. up \in 0..MaxTime /\ 0 \in 0..(MaxFires - 1) /\ 0 \in 0..MaxTime
      BY <1>2, <2>2 DEF SchTyped
    <3>2. {x.last, x.now, x.upto, x.t, x.cursor} \subseteq 0..MaxTime
      BY <2>3, <3>1 DEF SchTyped
    <3>3. QED
      BY <1>6, <2>3, <3>1, <3>2, Zenon DEF SchTyped
  <2>5. Late(x, M) = Late(y, M)
    BY <2>3, Zenon DEF Late
  <2>6. ASSUME NEW o \in Late(y, M) PROVE Ahead(x, o)
    <3>1. CASE o[1] = r.id
      <4>1. up <= w /\ w < o[2]
        BY <1>5, <2>2, <3>1, Zenon
      <4>2. o[2] > up
        BY <1>2, <1>4, <2>2, <4>1
      <4>3. QED
        BY <2>3, <4>2, Zenon DEF Ahead
    <3>2. CASE o[1] # r.id
      <4>1. CASE o[2] > y.upto
        BY <1>2, <1>4, <2>2, <2>3, <4>1 DEF Ahead
      <4>2. CASE Row(o[1]) \in y.todo \/ (y.full /\ o[1] > y.after)
        BY <1>7, <2>3, <3>2, <4>2, Zenon DEF Ahead
      <4>3. QED
        BY <3>2, <4>1, <4>2, Zenon
    <3>3. QED
      BY <3>1, <3>2, Zenon
  <2>7. \A o \in Late(y, M) : \A q \in x.todo : q.id = o[1] => q = Row(o[1])
    BY <2>3, Zenon
  <2>8. up <= y.now
    BY <1>2, <2>2
  <2>9. QED
    BY <2>3, <2>4, <2>5, <2>6, <2>7, <2>8 DEF Sound
<1>10. QED
  BY <1>8, <1>9, Zenon

\* Where the work on a job begins (windowStart): after the job was created and
\* before each of its slots that is late, whether or not the lookup succeeds.
LEMMA WindowIsBefore ==
    ASSUME SchedIInv, NEW s \in Sched, sch[s].pc = "jobs", NEW r \in sch[s].todo, NEW lookup \in BOOLEAN
    PROVE  /\ WindowStart(s, r, lookup) \in 1..MaxTime
           /\ \A o \in Late(sch[s], Missing) : o[1] = r.id => WindowStart(s, r, lookup) < o[2]
<1> USE Sizes
<1>1. PICK y : y = sch[s]
  OBVIOUS
<1>2. /\ SchTyped(y) /\ Sound(y, Missing) /\ Ticking(y) /\ y.pc = "jobs"
  BY <1>1, Zenon DEF SchedIInv, Ticking
<1>3. /\ r \in Rows /\ r.id \in Job /\ r.created \in 0..MaxTime
      /\ y.last \in 0..MaxTime /\ y.now \in 0..MaxTime /\ Interval < y.now
  BY <1>1, <1>2, Zenon DEF SchTyped, Sound, Rows
<1> DEFINE c == IF y.last # 0
                THEN IF r.created > y.last /\ r.created <= y.now THEN r.created ELSE y.last
                ELSE IF r.created = 0 \/ r.created > y.now THEN y.now - Interval ELSE r.created
           z == LastScheduled(r.id)
           w == WindowStart(s, r, lookup)
<1>4. w = c \/ w = Max2(c, z)
  BY <1>1, Zenon DEF WindowStart, Zero
<1>5. z \in 0..MaxTime /\ (z = 0 \/ \E x \in slots : x[1] = r.id /\ x[2] = z)
  BY <1>3, LastScheduledIs, Zenon DEF SchedIInv, Zero
<1>6. c \in 1..MaxTime
  BY <1>3
<1>7. ASSUME NEW o \in Late(y, Missing), o[1] = r.id PROVE c < o[2] /\ z < o[2]
  <2>1. o \in Missing /\ o[1] \in Job /\ o[2] \in Nat /\ o[2] > 0 /\ o[2] <= y.now
    BY MissingIs DEF Late, SchedIInv
  <2>2. r = Row(o[1])
    BY <1>1, <1>2, <1>7, Zenon DEF Sound
  <2>3. r.created = job[o[1]].created
    BY <2>2 DEF Row
  <2>4. r.created < o[2] /\ r.created # 0
    BY <2>1, <2>3, Zenon DEF SchedIInv, Open, Typed, Zero
  <2>5. y.last < o[2]
    BY <1>2, <1>3, <2>1, Zenon DEF Sound
  <2>6. c < o[2]
    BY <1>3, <2>1, <2>4, <2>5
  <2>7. \A x \in slots : x[1] = o[1] => x[2] < o[2]
    BY <2>1, Zenon DEF SchedIInv, NoConcealedSlot, Missing
  <2>8. z < o[2]
    BY <1>5, <1>7, <2>1, <2>7, Zenon
  <2>9. QED
    BY <2>6, <2>8, Zenon
<1> HIDE DEF c, z
<1>8. w \in 1..MaxTime
  BY <1>4, <1>5, <1>6 DEF Max2
<1>9. \A o \in Late(y, Missing) : o[1] = r.id => w < o[2]
  BY <1>4, <1>7 DEF Max2
<1>10. QED
  BY <1>1, <1>8, <1>9, Zenon

\* The work on a job begins (processJobWithProgress).
LEMMA StartJobStep ==
    ASSUME SchedIInv, NEW s \in Sched, NEW r \in sch[s].todo, NEW lookup \in BOOLEAN,
           StartJob(s, r, lookup)
    PROVE  SchedIInv'
<1> USE Sizes
<1>1. sch[s].pc = "jobs" /\ UNCHANGED <<clock, job, slots, owed>>
  BY DEF StartJob
<1>2. PICK y : y = sch[s]
  OBVIOUS
<1>3. PICK w : w = WindowStart(s, r, lookup)
  BY Zenon
<1>4. w \in 1..MaxTime /\ \A o \in Late(y, Missing) : o[1] = r.id => w < o[2]
  BY <1>1, <1>2, <1>3, WindowIsBefore, Zenon
<1>5. PICK x : x = Onward(y, r, NextFire(r.plan, w), 0, w)
  OBVIOUS
<1>6. sch' = [sch EXCEPT ![s] = x]
  BY <1>2, <1>3, <1>5, Zenon DEF StartJob, Proceed, Onward
<1>7. SchTyped(y) /\ Sound(y, Missing) /\ Ticking(y) /\ y.pc = "jobs" /\ r \in y.todo /\ r \in Rows
  BY <1>1, <1>2, Zenon DEF SchedIInv, SchTyped, Ticking
<1>8. /\ y.last <= clock /\ \A o \in Missing : o[2] > y.last
  BY <1>7, Zenon DEF Sound
<1>9. Interval < y.now /\ y.now <= clock /\ y.upto <= y.now
  BY <1>7, Zenon DEF Sound
<1>10. \A o \in Late(y, Missing) : \A q \in y.todo : q.id = o[1] => q = Row(o[1])
  BY <1>7, Zenon DEF Sound
<1>11. \A o \in Late(y, Missing) : o[2] > y.upto \/ Row(o[1]) \in y.todo \/ (y.full /\ o[1] > y.after)
  BY <1>7, Zenon DEF Sound, Ahead
<1>12. PICK M : M = Missing
  OBVIOUS
<1>13. 0 \in 0..MaxFires /\ M \subseteq Missing
  BY <1>12
<1>14. SchTyped(x) /\ Sound(x, M)
  BY <1>4, <1>5, <1>7, <1>8, <1>9, <1>10, <1>11, <1>12, <1>13, ProceedIsSound, Zenon
<1>15. QED
  BY <1>1, <1>6, <1>12, <1>14, SchedulerMoves, Zenon

\* Storing the slot at hand hides no missing one: those of the job that are late
\* come no earlier, the others after the tick (emitExecution).
LEMMA StoreIsSafe ==
    ASSUME SchedIInv, NEW s \in Sched, sch[s].pc = "slots", UNCHANGED <<clock, job, owed>>,
           slots' = slots \union {<<sch[s].cur.id, sch[s].t>>}
    PROVE  /\ slots' \subseteq Job \X (1..MaxTime) /\ \A y \in slots' : y[2] <= clock
           /\ Missing' = Missing \ {<<sch[s].cur.id, sch[s].t>>}
           /\ \A o \in Missing' : o[1] = sch[s].cur.id => sch[s].t < o[2]
           /\ NoConcealedSlot'
<1> USE Sizes
<1>1. PICK y : y = sch[s]
  BY Zenon
<1>2. SchTyped(y) /\ Sound(y, Missing) /\ Ticking(y) /\ y.pc = "slots"
  BY <1>1, Zenon DEF SchedIInv, Ticking
<1>3. /\ y.cur \in Rows /\ y.cur.id \in Job /\ y.cur.plan \in Plans /\ y.t \in y.cur.plan
      /\ y.t <= y.now /\ y.now <= clock /\ y.now \in Nat /\ y.now <= MaxTime
      /\ \A o \in Late(y, Missing) : o[1] = y.cur.id => y.t <= o[2]
  BY <1>2 DEF Sound, SchTyped, Rows
<1>4. y.t \in Nat /\ y.t > 0 /\ y.t \in 1..MaxTime /\ y.t <= clock /\ clock \in Nat
  <2>1. clock \in Nat
    BY DEF SchedIInv, Typed
  <2>2. y.t \in Nat /\ y.t > 0
    <3>1. y.cur.plan \in SUBSET (Nat \ {0})
      BY <1>3, PlansAssumption, Zenon
    <3>2. QED
      BY <1>3, <3>1
  <2>3. QED
    BY <1>3, <2>1, <2>2
<1>5. Missing' = Missing \ {<<y.cur.id, y.t>>}
  BY <1>1, Zenon DEF Missing
<1>6. ASSUME NEW o \in Missing', o[1] = y.cur.id PROVE y.t < o[2]
  <2>1. o \in Missing /\ o # <<y.cur.id, y.t>> /\ o[2] \in Nat
    BY <1>5, MissingIs, Zenon DEF SchedIInv
  <2>2. o = <<o[1], o[2]>>
    BY <2>1 DEF SchedIInv, Typed, Missing
  <2>3. o[2] # y.t
    BY <1>6, <2>1, <2>2, Zenon
  <2>4. CASE o[2] <= y.now
    BY <1>3, <1>4, <1>6, <2>1, <2>3, <2>4 DEF Late
  <2>5. QED
    BY <1>3, <1>4, <2>1, <2>4
<1>7. NoConcealedSlot'
  <2> SUFFICES ASSUME NEW o \in Missing', NEW x \in slots', x[1] = o[1] PROVE x[2] < o[2]
    BY Zenon DEF NoConcealedSlot, Missing
  <2>1. CASE x \in slots
    BY <1>5, <2>1, Zenon DEF SchedIInv, NoConcealedSlot, Missing
  <2>2. CASE x = <<y.cur.id, y.t>>
    BY <1>6, <2>2, Zenon
  <2>3. QED
    BY <1>1, <2>1, <2>2, Zenon
<1>8. slots' \subseteq Job \X (1..MaxTime) /\ \A x \in slots' : x[2] <= clock
  BY <1>1, <1>3, <1>4 DEF SchedIInv, Typed
<1>9. QED
  BY <1>1, <1>5, <1>6, <1>7, <1>8, Zenon

\* A slot is inserted, or was there already, and the work goes on after it
\* (processJobWithProgress, emitExecution).
LEMMA InsertSlotStep ==
    ASSUME SchedIInv, NEW s \in Sched, InsertSlot(s)
    PROVE  SchedIInv'
<1> USE Sizes
<1>1. PICK y, r, t : y = sch[s] /\ r = y.cur /\ t = y.t
  BY Zenon
<1>2. /\ y.pc = "slots" /\ UNCHANGED <<clock, job, owed>> /\ slots' = slots \union {<<r.id, t>>}
  BY <1>1 DEF InsertSlot
<1>3. PICK M : M = Missing'
  BY Zenon
<1>4. /\ slots' \subseteq Job \X (1..MaxTime) /\ (\A z \in slots' : z[2] <= clock) /\ slots \subseteq slots'
      /\ M \subseteq Missing /\ NoConcealedSlot' /\ \A o \in M : o[1] = r.id => t < o[2]
  BY <1>1, <1>2, <1>3, StoreIsSafe
<1>5. PICK x : x = Onward(y, r, NextFire(r.plan, t), y.n + 1, t)
  OBVIOUS
<1>6. sch' = [sch EXCEPT ![s] = x]
  BY <1>1, <1>5, Zenon DEF InsertSlot, Proceed, Onward
<1>7. SchTyped(y) /\ Sound(y, Missing) /\ Ticking(y)
  BY <1>1, <1>2, Zenon DEF SchedIInv, Ticking
<1>8. y.last <= clock /\ (\A o \in M : o[2] > y.last)
  BY <1>4, <1>7, Zenon DEF Sound
<1>9. Interval < y.now /\ y.now <= clock /\ y.upto <= y.now
  BY <1>7, Zenon DEF Sound
<1>10. r \in Rows /\ t \in r.plan /\ y.n + 1 \in 0..MaxFires
  BY <1>1, <1>2, <1>7 DEF Sound, SchTyped
<1>11. t \in 1..MaxTime
  <2>1. t \in Nat /\ t > 0
    BY <1>10, PlansAssumption DEF Rows
  <2>2. t \in 0..MaxTime
    BY <1>1, <1>7 DEF SchTyped
  <2>3. QED
    BY <2>1, <2>2
<1>12. Late(y, M) \subseteq Late(y, Missing)
  BY <1>4 DEF Late
<1>13. \A o \in Late(y, M) : o[1] = r.id => r = Row(o[1]) /\ t < o[2]
  <2>1. \A o \in Late(y, Missing) : o[1] = r.id => r = Row(o[1])
    BY <1>1, <1>2, <1>7, Zenon DEF Sound
  <2>2. QED
    BY <1>4, <1>12, <2>1, Zenon DEF Late
<1>14. \A o \in Late(y, M) : o[1] # r.id =>
          o[2] > y.upto \/ Row(o[1]) \in y.todo \/ (y.full /\ o[1] > y.after)
  <2>1. \A o \in Late(y, M) : Ahead(y, o)
    BY <1>7, <1>12, Zenon DEF Sound
  <2>2. QED
    BY <1>1, <1>2, <2>1, Zenon DEF Ahead
<1>15. \A o \in Late(y, M) : \A q \in y.todo : q.id = o[1] => q = Row(o[1])
  BY <1>7, <1>12, Zenon DEF Sound
<1>16. SchTyped(x) /\ Sound(x, M)
  BY <1>4, <1>5, <1>7, <1>8, <1>9, <1>10, <1>11, <1>13, <1>14, <1>15, ProceedIsSound, Zenon
<1>17. QED
  BY <1>2, <1>3, <1>4, <1>6, <1>16, SchedulerWrites, Zenon

\* An insert that fails, stored or not, ends the work on its job and leaves the
\* cursor before the slot (processJobWithProgress).
LEMMA InsertFailsStep ==
    ASSUME SchedIInv, NEW s \in Sched, NEW stored \in BOOLEAN, InsertFails(s, stored)
    PROVE  SchedIInv'
<1> USE Sizes
<1>1. PICK y : y = sch[s]
  OBVIOUS
<1>2. /\ y.pc = "slots" /\ UNCHANGED <<clock, job, owed>>
      /\ slots' = IF stored THEN slots \union {<<y.cur.id, y.t>>} ELSE slots
  BY <1>1 DEF InsertFails
<1>3. /\ slots' \subseteq Job \X (1..MaxTime) /\ (\A z \in slots' : z[2] <= clock) /\ slots \subseteq slots'
      /\ Missing' \subseteq Missing /\ NoConcealedSlot'
  <2>1. CASE stored
    <3>1. slots' = slots \union {<<sch[s].cur.id, sch[s].t>>} /\ sch[s].pc = "slots"
      BY <1>1, <1>2, <2>1, Zenon
    <3>2. QED
      BY <1>2, <3>1, StoreIsSafe, Zenon
  <2>2. CASE ~stored
    <3>1. slots' = slots
      BY <1>2, <2>2, Zenon
    <3>2. QED
      BY <1>2, <3>1 DEF SchedIInv, Typed, NoConcealedSlot, Missing
  <2>3. QED
    BY <2>1, <2>2, Zenon
<1>4. SchTyped(y) /\ Sound(y, Missing) /\ Ticking(y) /\ y = Shape(y)
  BY <1>1, <1>2 DEF SchedIInv, Ticking, SchTyped
<1> DEFINE up == IF y.cursor # 0 /\ y.cursor < y.upto THEN y.cursor ELSE y.upto
<1>5. PICK x : x = [y EXCEPT !.pc = "jobs", !.cur = NoRow, !.t = 0, !.n = 0, !.cursor = 0, !.upto = up]
  OBVIOUS
<1>6. sch' = [sch EXCEPT ![s] = x]
  BY <1>1, <1>5, Zenon DEF InsertFails, Zero
<1>7. /\ y.cursor \in Nat /\ y.upto \in 0..MaxTime /\ y.t \in Nat /\ y.now \in Nat /\ 0 < y.cursor
      /\ y.cursor < y.t /\ y.upto <= y.now
      /\ \A o \in Late(y, Missing) : o[1] = y.cur.id => y.t <= o[2]
  BY <1>2, <1>4 DEF SchTyped, Sound
<1>8. up \in 0..MaxTime /\ up <= y.upto /\ up <= y.cursor
  BY <1>7
<1> HIDE DEF up
<1>9. /\ x = Shape(x) /\ x.pc = "jobs" /\ x.last = y.last /\ x.now = y.now /\ x.upto = up
      /\ x.after = y.after /\ x.full = y.full /\ x.todo = y.todo /\ x.cur = NoRow /\ x.t = 0
      /\ x.n = 0 /\ x.cursor = 0
  BY <1>4, <1>5, Zenon DEF Shape
<1>10. SchTyped(x)
  <2>1. 0 \in 0..(MaxFires - 1) /\ 0 \in 0..MaxTime
    OBVIOUS
  <2>2. {x.last, x.now, x.upto, x.t, x.cursor} \subseteq 0..MaxTime
    BY <1>4, <1>8, <1>9, <2>1, Zenon DEF SchTyped
  <2>3. QED
    BY <1>4, <1>9, <2>1, <2>2, Zenon DEF SchTyped
<1>11. Late(x, Missing) = Late(y, Missing)
  BY <1>9, Zenon DEF Late
<1>12. ASSUME NEW o \in Late(y, Missing) PROVE Ahead(x, o)
  <2>1. o[2] \in Nat /\ Ahead(y, o)
    BY <1>4, MissingIs, Zenon DEF Late, SchedIInv, Sound
  <2>2. CASE o[1] = y.cur.id
    <3>1. o[2] > up
      BY <1>7, <1>8, <2>1, <2>2
    <3>2. QED
      BY <1>9, <3>1, Zenon DEF Ahead
  <2>3. CASE o[2] > y.upto
    <3>1. o[2] > up
      BY <1>7, <1>8, <2>1, <2>3
    <3>2. QED
      BY <1>9, <3>1 DEF Ahead
  <2>4. CASE Row(o[1]) \in y.todo \/ (y.full /\ o[1] > y.after)
    BY <1>9, <2>4, Zenon DEF Ahead
  <2>5. QED
    BY <1>2, <2>1, <2>2, <2>3, <2>4, Zenon DEF Ahead
<1>13. \A o \in Late(y, Missing) : \A q \in x.todo : q.id = o[1] => q = Row(o[1])
  BY <1>4, <1>9, Zenon DEF Sound
<1>14. /\ y.last <= clock /\ (\A o \in Missing : o[2] > y.last) /\ Interval < y.now /\ y.now <= clock
  BY <1>4, Zenon DEF Sound
<1>15. up <= y.now
  BY <1>7, <1>8
<1>16. Sound(x, Missing)
  BY <1>9, <1>11, <1>12, <1>13, <1>14, <1>15, Zenon DEF Sound
<1>17. PICK M : M = Missing
  OBVIOUS
<1>18. QED
  BY <1>2, <1>3, <1>6, <1>10, <1>16, <1>17, SchedulerWrites, Zenon

\* The invariant the theorems rest on: whatever the schedulers and users do,
\* every missing slot is still ahead of every tick.
THEOREM SchedulerInvariance == Spec => []SchedIInv
<1>1. ASSUME Init PROVE SchedIInv
  <2>1. Missing = {} /\ slots = {} /\ owed = {} /\ sch = [s \in Sched |-> Stopped]
    BY <1>1, Zenon DEF Init, Missing
  <2>2. clock \in 1..MaxTime /\ Interval < clock /\ 0 <= clock
    BY <1>1, Sizes DEF Init
  <2>3. 0 \in 0..(MaxFires - 1) /\ 0 \in 0..MaxTime
    BY Sizes
  <2>4. Typed
    <3>1. \A j \in Job : job[j].created = 0 /\ job[j].st = "absent"
      BY <1>1 DEF Init, Zero
    <3>2. job \in [Job -> [st : {"absent", "drafted", "enabled", "paused", "deleted"},
                          created : 0..MaxTime, plan : Plans]]
      BY <1>1, <2>3 DEF Init, Zero
    <3>3. QED
      BY <2>1, <2>2, <3>1, <3>2 DEF Typed
  <2>5. SchTyped(Stopped)
    <3>1. Stopped = Shape(Stopped)
      BY Zenon DEF Stopped, Shape
    <3>2. QED
      BY <2>3, <3>1, Zenon DEF SchTyped, Stopped, Zero
  <2>6. Sound(Stopped, Missing)
    <3>1. Stopped.pc = "off" /\ Stopped.last = 0 /\ Stopped.todo = {}
      BY DEF Stopped, Zero
    <3>2. QED
      BY <2>1, <2>2, <3>1, Zenon DEF Sound, Ticking
  <2>7. QED
    BY <2>1, <2>4, <2>5, <2>6, Zenon DEF SchedIInv, Open, NoConcealedSlot, Missing
<1>2. ASSUME SchedIInv, [Next]_vars PROVE SchedIInv'
  <2>1. CASE UNCHANGED vars
    <3>1. UNCHANGED <<clock, job, slots, sch, owed>> /\ Missing' = Missing
      BY <2>1, Zenon DEF vars, Missing
    <3>2. Typed'
      BY <1>2, <3>1, Zenon DEF SchedIInv, Typed
    <3>3. Open' /\ NoConcealedSlot'
      BY <1>2, <3>1, Zenon DEF SchedIInv, Open, NoConcealedSlot
    <3>4. ASSUME NEW s \in Sched PROVE SchTyped(sch[s])' /\ Sound(sch[s], Missing)'
      <4>1. PICK x, M : x = sch[s] /\ M = Missing /\ x = sch'[s] /\ M = Missing'
        BY <3>1, Zenon
      <4>2. SchTyped(x) /\ Sound(x, M)
        BY <1>2, <4>1, Zenon DEF SchedIInv
      <4>3. Sound(x, M)'
        BY <3>1, <4>2, Zenon DEF Sound, Ahead, Row
      <4>4. QED
        BY <4>1, <4>2, <4>3, Zenon
    <3>5. QED
      BY <3>2, <3>3, <3>4, Zenon DEF SchedIInv
  <2>2. CASE Advance
    BY <1>2, <2>2, AdvanceStep
  <2>3. ASSUME NEW j \in Job, UserStep(j) PROVE SchedIInv'
    BY <1>2, <2>3, UserSteps
  <2>4. ASSUME NEW s \in Sched, SchedulerStep(s) PROVE SchedIInv'
    <3>1. CASE Start(s) \/ Stop(s) \/ ReadPageFails(s)
      BY <1>2, <3>1, StartStopStep
    <3>2. CASE BeginTick(s)
      BY <1>2, <3>2, BeginTickStep
    <3>3. CASE ReadPage(s)
      BY <1>2, <3>3, ReadPageStep
    <3>4. CASE EndPage(s)
      BY <1>2, <3>4, EndPageStep
    <3>5. CASE \E r \in sch[s].todo, lookup \in BOOLEAN : StartJob(s, r, lookup)
      BY <1>2, <3>5, StartJobStep
    <3>6. CASE InsertSlot(s)
      BY <1>2, <3>6, InsertSlotStep
    <3>7. CASE \E stored \in BOOLEAN : InsertFails(s, stored)
      BY <1>2, <3>7, InsertFailsStep
    <3>8. QED
      BY <2>4, <3>1, <3>2, <3>3, <3>4, <3>5, <3>6, <3>7, Zenon DEF SchedulerStep
  <2>5. QED
    BY <1>2, <2>1, <2>2, <2>3, <2>4, Zenon DEF Next
<1>3. QED
  BY <1>1, <1>2, PTL DEF Spec

\* No slot is stored while an earlier one that is owed is missing
\* (NoConcealedSlot; processJobWithProgress).
THEOREM NothingConcealed == Spec => []NoConcealedSlot
<1>1. SchedIInv => NoConcealedSlot
  BY Zenon DEF SchedIInv
<1>2. QED
  BY <1>1, SchedulerInvariance, PTL

\* No scheduler's cursor passes a slot that is still to be inserted (CursorSound;
\* processTick).
THEOREM CursorIsSound == Spec => []CursorSound
<1>1. SchedIInv => CursorSound
  BY DEF SchedIInv, CursorSound, Sound, Missing
<1>2. QED
  BY <1>1, SchedulerInvariance, PTL

\* Every field of the jobs, the slots and the schedulers has its type (TypeOK).
THEOREM SchedulerTypes == Spec => []TypeOK
<1>1. SchedIInv => TypeOK
  BY DEF SchedIInv, Typed, SchTyped, TypeOK
<1>2. QED
  BY <1>1, SchedulerInvariance, PTL
=============================================================================
