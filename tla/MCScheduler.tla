----------------------------- MODULE MCScheduler -----------------------------
(***************************************************************************)
(* Two settings, one chosen at the start of a behaviour: "rivals", two       *)
(* schedulers on one job with three slots, and "pages", one scheduler paging *)
(* over two jobs that users create, pause, resume, reschedule and delete     *)
(* between the pages.                                                       *)
(***************************************************************************)
EXTENDS Scheduler, TLC

CONSTANT PagesTime     \* bound: the clock in "pages"

VARIABLE setting

Long == {3, 4, 5}
Short == {{3, 4}, {4}}
AllPlans == {Long} \cup Short

\* Two schedulers and one job that was just created and is not deleted.
RivalsInit ==
    /\ setting = "rivals"
    /\ clock = Interval + 1 /\ slots = {} /\ owed = {}
    /\ job = [j \in Job |-> [st |-> IF j = 1 THEN "enabled" ELSE "absent",
                             created |-> IF j = 1 THEN clock ELSE Zero, plan |-> Long]]
    /\ sch = [s \in Sched |-> Stopped]

\* One scheduler at a time, and two jobs.
PagesInit == setting = "pages" /\ Init /\ \A j \in Job : job[j].plan \in Short

MCInit == RivalsInit \/ PagesInit

Running == {s \in Sched : sch[s].pc # "off"}

RivalsNext ==
    /\ setting = "rivals"
    /\ \/ Advance
       \/ \E b \in BOOLEAN : SetJobEnabled(1, b)
       \/ \E s \in Sched : SchedulerStep(s)
    /\ UNCHANGED setting

PagesNext ==
    /\ setting = "pages"
    /\ \/ clock < PagesTime /\ Advance
       \/ \E j \in Job : \/ Draft(j) \/ Commit(j) \/ DeleteJob(j)
                         \/ \E b \in BOOLEAN : SetJobEnabled(j, b)
                         \/ \E plan \in Short : UpdateSchedule(j, plan)
       \/ \E s \in Sched : Running \subseteq {s} /\ SchedulerStep(s)
    /\ UNCHANGED setting

MCNext == RivalsNext \/ PagesNext

MCSpec == MCInit /\ [][MCNext]_<<vars, setting>>

Symmetry == Permutations(Sched)
=============================================================================
