--------------------------- MODULE JobRequestProofs ---------------------------
(***************************************************************************)
(* The requests that change jobs, up to the commit of their transactions,  *)
(* for any number of requests, jobs, saved views and previews.  The        *)
(* invariant, and that the statements which lock, count and read keep it;  *)
(* JobProofs has the statements that write, and the theorems.              *)
(*                                                                         *)
(* Every claim rests on what a request has locked: a lock other than the   *)
(* share of the key has one holder, a request in a given phase of its      *)
(* transaction holds certain locks, and what it has read under them is     *)
(* still so.  The comparison of a confirmation uses times of writes alone; *)
(* it needs that the time an edit will write is nobody else's, and that a  *)
(* preview which shows a job's present time shows its present state.       *)
(***************************************************************************)
EXTENDS JobControl, FiniteSetTheorems, TLAPS

Lock ==
    {JobRow(j) : j \in Job} \cup {JobId(j) : j \in Job} \cup {SchedRow(j) : j \in Job}
      \cup {BatchRow(b) : b \in Batch} \cup {ViewQuota, BatchQuota, KeyShare}

\* The fields of a request in each of its phases.
Forms == [pc : {"form"}, j : Job, held : SUBSET Lock, shown : [Field -> Stamp]]
Updates == [pc : {"u_sched", "u_job", "u_commit"}, j : Job, held : SUBSET Lock, name : Stamp,
            cron : Stamp, on : BOOLEAN, u : Stamp]
Deletes == [pc : {"d_first", "d_second", "d_end"}, j : Job, held : SUBSET Lock,
            jobFirst : BOOLEAN, seen : BOOLEAN]
Triggers == [pc : {"t_insert"}, j : Job, held : SUBSET Lock]
Saves == [pc : {"v_lock", "v_count", "v_commit"}, v : Views, held : SUBSET Lock]
Previews == [pc : {"p_lock", "p_clean", "p_read"}, want : BOOLEAN, todo : SUBSET Job,
             item : [Job -> Item], purge : SUBSET Batch, held : SUBSET Lock]
Confirms == [pc : {"c_batch", "c_item"}, b : Batch, held : SUBSET Lock, fresh : BOOLEAN,
             todo : SUBSET Job, item : [Job -> Item]]
Request ==
    {Idle} \cup Forms \cup Updates \cup Deletes \cup Triggers \cup Saves \cup Previews \cup Confirms

Updating(r) == r.pc \in {"u_sched", "u_job", "u_commit"}
Previewing(r) == r.pc \in {"p_lock", "p_clean", "p_read"}

\* The jobs a confirmation has behind it: it locks in the order of the ids.
Passed(r) == {k \in Job : \A j \in r.todo : k < j}

Holds(r) ==
    /\ r.pc \in {"idle", "form", "u_sched", "d_first", "t_insert"} => r.held = {}
    /\ r.pc = "u_job" => r.held \subseteq {SchedRow(r.j)}
    /\ r.pc = "u_commit" => JobRow(r.j) \in r.held /\ r.held \subseteq {SchedRow(r.j), JobRow(r.j)}
    /\ r.pc = "d_second" =>
          r.held = IF r.jobFirst THEN {JobRow(r.j), JobId(r.j)} ELSE {SchedRow(r.j)}
    /\ r.pc = "d_end" => r.held = {JobRow(r.j), JobId(r.j), SchedRow(r.j)}
    /\ r.pc \in {"v_lock", "p_lock", "c_batch"} => r.held = {KeyShare}
    /\ r.pc \in {"v_count", "v_commit"} => r.held = {KeyShare, ViewQuota}
    /\ r.pc = "p_clean" => r.held = {KeyShare, BatchQuota}
    /\ r.pc = "p_read" => r.held = {KeyShare, BatchQuota} \cup {BatchRow(b) : b \in r.purge}
    /\ r.pc = "c_item" =>
          /\ {KeyShare, BatchRow(r.b)} \subseteq r.held
          /\ r.held \subseteq {KeyShare, BatchRow(r.b)} \cup {JobRow(k) : k \in Passed(r)}
                                                        \cup {JobId(k) : k \in Passed(r)}
          /\ \A k \in Job : JobId(k) \in r.held => JobRow(k) \in r.held

\* A previewed job exists or existed, and at its present time has the state shown.
Shown(i, j) ==
    /\ i.stamp <= clock
    /\ i.in => /\ job[j].st # "new"
               /\ i.stamp = job[j].stamp => i.on = job[j].on

\* What a confirmation found of job j is still so.
Judged(r, j) ==
    LET i == r.item[j]  was == batch[r.b].item[j]  want == batch[r.b].want IN
    /\ i.in = was.in /\ i.on = was.on /\ i.stamp = was.stamp
    /\ j \in r.todo => i.in /\ i.res = "none"
    /\ i.in /\ j \notin r.todo => i.res # "none"
    /\ i.res \in {"applied", "unchanged", "conflict"} => There(j) /\ JobRow(j) \in r.held
    /\ i.res \in {"applied", "unchanged"} => job[j].stamp = i.stamp
    /\ i.res = "applied" => job[j].on # want
    /\ i.res = "unchanged" => job[j].on = want
    /\ i.res = "conflict" => job[j].stamp # i.stamp
    /\ i.res = "unavailable" => job[j].st = "gone"

\* What a request relies on of the rows it has read or locked: the key is there;
\* the time of its write is its own; there is room for what it will insert; the
\* items of a preview are true; the batch it confirms is as it found it.
KeyKept(r) == KeyShare \in r.held => keyOn
OwnTime(r) ==
    Updating(r) => /\ r.u \in 1 .. clock
                   /\ \A j \in Job : job[j].stamp # r.u
                   /\ \A b \in Unconfirmed, j \in Job : batch[b].item[j].stamp # r.u
RoomForView(r) == r.pc = "v_commit" => r.v \in views \/ Cardinality(views) < MaxViews
ItemsShown(r) == Previewing(r) => \A j \in Job : Shown(r.item[j], j) /\ r.item[j].res = "none"
RoomForBatch(r) ==
    r.pc = "p_read" => /\ r.purge \subseteq Expired
                       /\ Cardinality(Unconfirmed \ r.purge) < MaxPending
                       /\ \E b \in Batch : batch[b].st = "none"
BatchFound(r) ==
    /\ r.pc = "c_batch" => batch[r.b].st # "none"
    /\ r.pc = "c_item" => r.b \in Unconfirmed /\ \A j \in Job : Judged(r, j)
Knows(r) ==
    KeyKept(r) /\ OwnTime(r) /\ RoomForView(r) /\ ItemsShown(r) /\ RoomForBatch(r) /\ BatchFound(r)

\* Two requests keep out of each other's way.
Apart(r, s) ==
    /\ r.held \cap s.held \subseteq {KeyShare}
    /\ Updating(r) /\ Updating(s) => r.u # s.u
    /\ Updating(r) /\ Previewing(s) => \A j \in Job : s.item[j].stamp # r.u

Rows ==
    /\ job \in [Job -> [st : {"new", "there", "gone"}, on : BOOLEAN, name : Stamp,
                        stamp : Stamp, by : Stamp]]
    /\ sched \in [Job -> [cron : Stamp, by : Stamp]]
    /\ runs \subseteq Job /\ views \subseteq Views /\ keyOn \in BOOLEAN
    /\ batch \in [Batch -> [st : {"none", "pending", "expired", "confirmed", "purged"},
                            want : BOOLEAN, item : [Job -> Item]]]
    /\ clock \in Stamp /\ fleet \in [Job -> BOOLEAN]
    /\ \A j \in Job : job[j].stamp <= clock

Whole ==
    /\ \A j \in Job : job[j].on = fleet[j] /\ job[j].by = sched[j].by
    /\ \A j \in runs : There(j)

Stored ==
    \A b \in Unconfirmed, j \in Job :
        Shown(batch[b].item[j], j) /\ batch[b].item[j].res = "none"

Requests ==
    /\ proc \in [Proc -> Request]
    /\ \A p \in Proc : Holds(proc[p]) /\ Knows(proc[p])
    /\ \A p, q \in Proc : p # q => Apart(proc[p], proc[q])

JobIInv == Rows /\ Whole /\ QuotasKept /\ Stored /\ Requests

-----------------------------------------------------------------------------
\* Locks are told apart by what they lock.
LEMMA LockNames ==
    /\ \A i, k \in Job : /\ JobRow(i) = JobRow(k) => i = k
                         /\ JobId(i) = JobId(k) => i = k
                         /\ SchedRow(i) = SchedRow(k) => i = k
                         /\ JobRow(i) # JobId(k) /\ JobRow(i) # SchedRow(k) /\ JobId(i) # SchedRow(k)
    /\ \A b, c \in Batch : BatchRow(b) = BatchRow(c) => b = c
    /\ \A i \in Job, b \in Batch :
          /\ JobRow(i) # BatchRow(b) /\ JobId(i) # BatchRow(b) /\ SchedRow(i) # BatchRow(b)
    /\ \A i \in Job, l \in {ViewQuota, BatchQuota, KeyShare} :
          JobRow(i) # l /\ JobId(i) # l /\ SchedRow(i) # l
    /\ \A b \in Batch, l \in {ViewQuota, BatchQuota, KeyShare} : BatchRow(b) # l
    /\ ViewQuota # BatchQuota /\ ViewQuota # KeyShare /\ BatchQuota # KeyShare
    /\ \A i \in Job : {JobRow(i), JobId(i), SchedRow(i)} \subseteq Lock
    /\ \A b \in Batch : BatchRow(b) \in Lock
    /\ {ViewQuota, BatchQuota, KeyShare} \subseteq Lock
BY DEF JobRow, JobId, SchedRow, BatchRow, ViewQuota, BatchQuota, KeyShare, Lock

\* A non-empty set of numbers has a least one (Min).
LEMMA MinOf ==
    ASSUME NEW S \in SUBSET Nat, S # {}
    PROVE  Min(S) \in S /\ \A w \in S : Min(S) <= w
<1> DEFINE R == OpToRel(<, Nat)
<1>1. \A i, k \in Nat : i < k => <<i, k>> \in R
  BY DEF OpToRel
<1>2. IsWellFoundedOn(R, Nat)
  BY NatLessThanWellFounded, Zenon
<1> HIDE DEF R
<1>3. PICK v \in S : \A w \in S : ~(<<w, v>> \in R)
  BY <1>2, WFMin, Zenon
<1>4. ASSUME NEW w \in S PROVE v <= w
  <2>1. v \in Nat /\ w \in Nat /\ ~(<<w, v>> \in R)
    BY <1>3
  <2>2. ~(w < v)
    BY <1>1, <2>1
  <2>3. QED
    BY <2>1, <2>2
<1>5. QED
  BY <1>3, <1>4, Zenon DEF Min

\* The phase a request is in says which fields it has.
LEMMA Phases ==
    ASSUME NEW r \in Request
    PROVE  /\ r.pc = "idle" => r = Idle
           /\ r.pc = "form" => r \in Forms
           /\ r.pc \in {"u_sched", "u_job", "u_commit"} => r \in Updates
           /\ r.pc \in {"d_first", "d_second", "d_end"} => r \in Deletes
           /\ r.pc = "t_insert" => r \in Triggers
           /\ r.pc \in {"v_lock", "v_count", "v_commit"} => r \in Saves
           /\ r.pc \in {"p_lock", "p_clean", "p_read"} => r \in Previews
           /\ r.pc \in {"c_batch", "c_item"} => r \in Confirms
           /\ r.held \subseteq Lock
           /\ r.pc \in {"idle", "form", "u_sched", "u_job", "u_commit", "d_first", "d_second", "d_end",
                        "t_insert", "v_lock", "v_count", "v_commit", "p_lock", "p_clean", "p_read",
                        "c_batch", "c_item"}
<1>1. CASE r = Idle
  BY <1>1 DEF Idle
<1>2. CASE r \in Forms
  BY <1>2 DEF Forms
<1>3. CASE r \in Updates
  BY <1>3 DEF Updates
<1>4. CASE r \in Deletes
  BY <1>4 DEF Deletes
<1>5. CASE r \in Triggers
  BY <1>5 DEF Triggers
<1>6. CASE r \in Saves
  BY <1>6 DEF Saves
<1>7. CASE r \in Previews
  BY <1>7 DEF Previews
<1>8. CASE r \in Confirms
  BY <1>8 DEF Confirms
<1>9. QED
  BY <1>1, <1>2, <1>3, <1>4, <1>5, <1>6, <1>7, <1>8 DEF Request

\* A step that changes nothing but one request keeps the invariant if the
\* request as it becomes fits its locks, what is stored and the other requests.
LEMMA RequestStep ==
    ASSUME JobIInv, NEW p \in Proc, NEW r \in Request, Becomes(p, r),
           UNCHANGED <<data, batch, views, keyOn>>, Holds(r), Knows(r),
           \A q \in Proc \ {p} : Apart(r, proc[q]) /\ Apart(proc[q], r)
    PROVE  JobIInv'
<1> USE DEF JobIInv
<1>1. /\ UNCHANGED <<job, sched, runs, clock, fleet, batch, views, keyOn>>
      /\ proc' = [proc EXCEPT ![p] = r] /\ proc \in [Proc -> Request]
  BY DEF data, Becomes, Requests
<1>2. proc' \in [Proc -> Request] /\ proc'[p] = r /\ \A q \in Proc \ {p} : proc'[q] = proc[q]
  BY <1>1
<1>3. Rows' /\ Whole' /\ QuotasKept'
  BY <1>1, Zenon DEF Rows, Whole, QuotasKept, There, Unconfirmed
<1>4. Stored'
  BY <1>1 DEF Stored, Shown, Unconfirmed
<1>5. ASSUME NEW q \in Proc PROVE Holds(proc[q])'
  <2>1. Holds(proc'[q])
    BY <1>2 DEF Requests
  <2>2. QED
    BY <2>1 DEF Holds, Passed
<1>6. ASSUME NEW q \in Proc PROVE Knows(proc[q])'
  <2>1. Knows(proc'[q])
    BY <1>2 DEF Requests
  <2>2. Unconfirmed' = Unconfirmed /\ Expired' = Expired
    BY <1>1 DEF Unconfirmed, Expired
  <2>3. KeyKept(proc[q])' /\ RoomForView(proc[q])'
    BY <1>1, <2>1 DEF Knows, KeyKept, RoomForView
  <2>4. OwnTime(proc[q])'
    BY <1>1, <2>1, <2>2, Zenon DEF Knows, OwnTime, Updating
  <2>5. ItemsShown(proc[q])'
    BY <1>1, <2>1, Zenon DEF Knows, ItemsShown, Shown, Previewing
  <2>6. RoomForBatch(proc[q])'
    BY <1>1, <2>1, <2>2 DEF Knows, RoomForBatch
  <2>7. BatchFound(proc[q])'
    <3>1. ASSUME NEW j \in Job, Judged(proc'[q], j) PROVE Judged(proc[q], j)'
      BY <1>1, <3>1, Zenon DEF Judged, There
    <3>2. BatchFound(proc'[q])
      BY <2>1, Zenon DEF Knows
    <3>3. QED
      BY <1>1, <2>2, <3>1, <3>2 DEF BatchFound
  <2>8. QED
    BY <2>3, <2>4, <2>5, <2>6, <2>7 DEF Knows
<1>7. ASSUME NEW q \in Proc, NEW s \in Proc, q # s PROVE Apart(proc[q], proc[s])'
  <2>1. Apart(proc'[q], proc'[s])
    BY <1>2, <1>7 DEF Requests
  <2>2. QED
    BY <2>1 DEF Apart, Updating, Previewing
<1>8. QED
  BY <1>2, <1>3, <1>4, <1>5, <1>6, <1>7 DEF Requests

\* A request that is over, or that holds nothing and has read nothing it will
\* rely on, is in nobody's way.
LEMMA LightRequest ==
    ASSUME NEW r \in Request, r.held = {},
           r.pc \in {"idle", "form", "d_first", "t_insert"}
    PROVE  Holds(r) /\ Knows(r) /\ \A s : Apart(r, s) /\ Apart(s, r)
<1>1. Holds(r)
  BY DEF Holds
<1>2. Knows(r)
  BY DEF Knows, KeyKept, OwnTime, RoomForView, ItemsShown, RoomForBatch, BatchFound, Updating,
     Previewing
<1>3. \A s : Apart(r, s) /\ Apart(s, r)
  BY DEF Apart, Updating, Previewing
<1>4. QED
  BY <1>1, <1>2, <1>3

\* A request ends without a trace (a rollback, or nothing to do).
LEMMA EndStep ==
    ASSUME JobIInv, NEW p \in Proc, End(p), UNCHANGED <<data, batch, views, keyOn>>
    PROVE  JobIInv'
<1>1. Idle \in Request /\ Idle.held = {} /\ Idle.pc = "idle"
  BY DEF Idle, Request
<1>2. QED
  BY <1>1, LightRequest, RequestStep DEF End

\* The edit page, a deletion and a trigger begin by reading the job.
LEMMA BeginStep ==
    ASSUME JobIInv, NEW p \in Proc, NEW j \in Job,
           EditPage(p, j) \/ DeleteJob(p, j) \/ TriggerNow(p, j)
    PROVE  JobIInv'
<1> USE DEF JobIInv
<1>1. UNCHANGED <<data, batch, views, keyOn>>
  BY DEF EditPage, DeleteJob, TriggerNow
<1>2. CASE EditPage(p, j)
  <2> DEFINE r == [pc |-> "form", j |-> j, held |-> {},
                   shown |-> [f \in Field |-> IF f = "name" THEN job[j].name ELSE sched[j].cron]]
  <2>1. \A f \in Field : (IF f = "name" THEN job[j].name ELSE sched[j].cron) \in Stamp
    BY DEF Rows, Field
  <2>2. r \in Forms
    BY <2>1, Zenon DEF Forms
  <2>3. r \in Request /\ r.held = {} /\ r.pc = "form"
    BY <2>2, Zenon DEF Request
  <2>4. Becomes(p, r)
    BY <1>2, Zenon DEF EditPage
  <2> HIDE DEF r
  <2>5. QED
    BY <1>1, <2>3, <2>4, LightRequest, RequestStep, Zenon
<1>3. CASE DeleteJob(p, j)
  <2>1. PICK jobFirst \in BOOLEAN :
           Becomes(p, [pc |-> "d_first", j |-> j, held |-> {}, jobFirst |-> jobFirst,
                       seen |-> j \in runs])
    BY <1>3, Zenon DEF DeleteJob
  <2> DEFINE r == [pc |-> "d_first", j |-> j, held |-> {}, jobFirst |-> jobFirst,
                   seen |-> j \in runs]
  <2>2. r \in Deletes
    BY DEF Deletes
  <2>3. r \in Request /\ r.held = {} /\ r.pc = "d_first"
    BY <2>2 DEF Request
  <2>4. Becomes(p, r)
    BY <2>1, Zenon
  <2> HIDE DEF r
  <2>5. QED
    BY <1>1, <2>3, <2>4, LightRequest, RequestStep, Zenon
<1>4. CASE TriggerNow(p, j)
  <2> DEFINE r == [pc |-> "t_insert", j |-> j, held |-> {}]
  <2>1. r \in Triggers
    BY DEF Triggers
  <2>2. r \in Request /\ r.held = {} /\ r.pc = "t_insert"
    BY <2>1 DEF Request
  <2>3. Becomes(p, r)
    BY <1>4 DEF TriggerNow
  <2> HIDE DEF r
  <2>4. QED
    BY <1>1, <2>2, <2>3, LightRequest, RequestStep, Zenon
<1>5. QED
  BY <1>2, <1>3, <1>4, Zenon

\* What a request relies on is a matter of its fields.
LEMMA KnowsNow ==
    ASSUME NEW q, NEW s, s = proc'[q], Knows(s)'
    PROVE  Knows(proc[q])'
<1>1. KeyKept(proc[q])' /\ RoomForView(proc[q])'
  BY DEF Knows, KeyKept, RoomForView
<1>2. OwnTime(proc[q])'
  BY DEF Knows, OwnTime, Updating
<1>3. ItemsShown(proc[q])'
  BY DEF Knows, ItemsShown, Previewing
<1>4. RoomForBatch(proc[q])'
  BY Zenon DEF Knows, RoomForBatch
<1>5. BatchFound(proc[q])'
  BY ZenonT(40) DEF Knows, BatchFound, Judged
<1>6. QED
  BY <1>1, <1>2, <1>3, <1>4, <1>5, Zenon DEF Knows

\* A write of another request, or of none, keeps what is said of the requests if
\* what each relied on is still so.
LEMMA WriteStep ==
    ASSUME Requests, NEW p \in Proc, NEW r \in Request, proc' = [proc EXCEPT ![p] = r],
           Holds(r), Knows(r)',
           \A q \in Proc \ {p} : Apart(r, proc[q]) /\ Apart(proc[q], r),
           \A q \in Proc \ {p} : \A s \in Request : s = proc[q] => Knows(s)'
    PROVE  Requests'
<1>1. proc' \in [Proc -> Request] /\ proc'[p] = r /\ \A q \in Proc \ {p} : proc'[q] = proc[q]
  BY DEF Requests
<1>2. ASSUME NEW q \in Proc PROVE Holds(proc[q])'
  <2>1. Holds(proc'[q])
    BY <1>1 DEF Requests
  <2>2. QED
    BY <2>1 DEF Holds, Passed
<1>3. ASSUME NEW q \in Proc PROVE Knows(proc[q])'
  <2>1. PICK s \in Request : s = proc'[q]
    BY <1>1
  <2>2. Knows(s)'
    BY <1>1, <2>1, Zenon DEF Requests
  <2>3. QED
    BY <2>1, <2>2, KnowsNow
<1>4. ASSUME NEW q \in Proc, NEW s \in Proc, q # s PROVE Apart(proc[q], proc[s])'
  <2>1. Apart(proc'[q], proc'[s])
    BY <1>1, <1>4 DEF Requests
  <2>2. QED
    BY <2>1 DEF Apart, Updating, Previewing
<1>5. QED
  BY <1>1, <1>2, <1>3, <1>4 DEF Requests

\* A commit ends its request; the others must still know what they know.
LEMMA CommitStep ==
    ASSUME Requests, NEW p \in Proc, End(p),
           \A q \in Proc \ {p} : \A s \in Request : s = proc[q] => Knows(s)'
    PROVE  Requests'
<1>1. Idle \in Request /\ Idle.held = {} /\ Idle.pc = "idle"
  BY Zenon DEF Idle, Request
<1>2. Knows(Idle)'
  BY <1>1 DEF Knows, KeyKept, OwnTime, RoomForView, ItemsShown, RoomForBatch, BatchFound, Updating,
     Previewing, Idle
<1>3. QED
  BY <1>1, <1>2, LightRequest, WriteStep, Zenon DEF End, Becomes

\* The same of a statement that is a transaction of its own.
LEMMA StatementStep ==
    ASSUME Requests, UNCHANGED proc,
           \A q \in Proc : \A s \in Request : s = proc[q] => Knows(s)'
    PROVE  Requests'
<1>1. proc' \in [Proc -> Request] /\ proc' = proc
  BY Zenon DEF Requests
<1>2. ASSUME NEW q \in Proc PROVE Holds(proc[q])'
  BY <1>1 DEF Requests, Holds, Passed
<1>3. ASSUME NEW q \in Proc PROVE Knows(proc[q])'
  <2>1. PICK s \in Request : s = proc'[q]
    BY <1>1
  <2>2. Knows(s)'
    BY <1>1, <2>1, Zenon DEF Requests
  <2>3. QED
    BY <2>1, <2>2, KnowsNow
<1>4. ASSUME NEW q \in Proc, NEW s \in Proc, q # s PROVE Apart(proc[q], proc[s])'
  BY <1>1, <1>4 DEF Requests, Apart, Updating, Previewing
<1>5. QED
  BY <1>1, <1>2, <1>3, <1>4 DEF Requests

\* An edit takes a time nobody has (UpdateJob).
LEMMA UpdateBegins ==
    ASSUME JobIInv, NEW p \in Proc, NEW j \in Job, NEW given, NEW value \in [Field -> Stamp],
           UpdateJob(p, j, given, value)
    PROVE  JobIInv'
<1> USE ControlAssumption DEF JobIInv
<1>1. /\ clock < MaxClock /\ clock' = clock + 1 /\ clock \in Nat /\ clock' \in Stamp
      /\ UNCHANGED <<job, sched, runs, batch, views, keyOn, fleet>>
  BY DEF UpdateJob, Rows, Stamp
<1>2. \A j1 \in Job : job[j1].stamp \in Nat /\ job[j1].stamp <= clock
  BY DEF Rows, Stamp
<1>3. \A b \in Batch, k \in Job : batch[b].item[k].stamp \in Nat
  BY DEF Rows, Item, Stamp
<1>4. PICK r : r = [pc |-> "u_sched", j |-> j, held |-> {},
                    name |-> IF "name" \in given THEN value["name"] ELSE job[j].name,
                    cron |-> IF "cron" \in given THEN value["cron"] ELSE sched[j].cron,
                    on |-> job[j].on, u |-> clock + 1]
  BY Zenon
<1>5. proc' = [proc EXCEPT ![p] = r]
  BY <1>4, Zenon DEF UpdateJob, Becomes
<1>6. r \in Updates /\ r.pc = "u_sched" /\ r.held = {} /\ r.u = clock + 1
  <2>1. \A f \in Field : value[f] \in Stamp
    OBVIOUS
  <2>2. /\ (IF "name" \in given THEN value["name"] ELSE job[j].name) \in Stamp
        /\ (IF "cron" \in given THEN value["cron"] ELSE sched[j].cron) \in Stamp
        /\ job[j].on \in BOOLEAN /\ clock + 1 \in Stamp
    BY <1>1, <2>1, Zenon DEF Rows, Field
  <2>3. QED
    BY <1>4, <2>2 DEF Updates
<1>7. r \in Request /\ Holds(r)
  BY <1>6, Zenon DEF Request, Holds
<1>8. Unconfirmed' = Unconfirmed /\ Expired' = Expired /\ Unconfirmed \subseteq Batch
  BY <1>1, Zenon DEF Unconfirmed, Expired
<1>9. \A b \in Unconfirmed, k \in Job : batch[b].item[k].stamp <= clock
  BY Zenon DEF Stored, Shown
<1>10. Knows(r)'
  BY <1>1, <1>2, <1>3, <1>6, <1>8, <1>9 DEF Knows, KeyKept, OwnTime, RoomForView, ItemsShown,
     RoomForBatch, BatchFound, Updating, Previewing
<1>11. ASSUME NEW q \in Proc \ {p} PROVE Apart(r, proc[q]) /\ Apart(proc[q], r)
  <2>1. proc[q] \in Request /\ Knows(proc[q])
    BY Zenon DEF Requests
  <2>2. Updating(proc[q]) => proc[q].u \in 1 .. clock
    BY <2>1, Zenon DEF Knows, OwnTime
  <2>3. Previewing(proc[q]) => \A k \in Job : proc[q].item[k].stamp <= clock
    BY <2>1, Zenon DEF Knows, ItemsShown, Shown
  <2>4. Previewing(proc[q]) => \A k \in Job : proc[q].item[k].stamp \in Nat
    BY <2>1, Phases DEF Previewing, Previews, Item, Stamp
  <2>5. ~Previewing(r) /\ Updating(r)
    BY <1>6 DEF Previewing, Updating
  <2>6. QED
    BY <1>1, <1>6, <2>2, <2>3, <2>4, <2>5 DEF Apart
<1>12. ASSUME NEW s \in Request, Knows(s) PROVE Knows(s)'
  <2>1. KeyKept(s)' /\ RoomForView(s)' /\ RoomForBatch(s)'
    BY <1>1, <1>8, <1>12, Zenon DEF Knows, KeyKept, RoomForView, RoomForBatch
  <2>2. OwnTime(s)'
    BY <1>1, <1>8, <1>12 DEF Knows, OwnTime
  <2>3. ItemsShown(s)'
    <3>1. Previewing(s) => \A k \in Job : s.item[k].stamp \in Nat
      BY Phases DEF Previewing, Previews, Item, Stamp
    <3>2. QED
      BY <1>1, <1>12, <3>1 DEF Knows, ItemsShown, Shown
  <2>4. BatchFound(s)'
    BY <1>1, <1>8, <1>12, ZenonT(40) DEF Knows, BatchFound, Judged, There
  <2>5. QED
    BY <2>1, <2>2, <2>3, <2>4, Zenon DEF Knows
<1>13. Requests'
  BY <1>5, <1>7, <1>10, <1>11, <1>12, WriteStep, Zenon DEF Requests
<1>14. Rows'
  BY <1>1, <1>2 DEF Rows
<1>15. Whole' /\ QuotasKept'
  BY <1>1, <1>8, Zenon DEF Whole, QuotasKept, There
<1>16. Stored'
  BY <1>1, <1>3, <1>8 DEF Stored, Shown
<1>17. QED
  BY <1>13, <1>14, <1>15, <1>16, Zenon

\* A request that takes locks nobody else holds stays apart from the others.
LEMMA LocksGained ==
    ASSUME Requests, NEW p \in Proc, NEW r, NEW L,
           r.held \subseteq proc[p].held \cup L,
           \A q \in Proc \ {p} : L \cap proc[q].held \subseteq {KeyShare},
           Updating(r) => Updating(proc[p]) /\ r.u = proc[p].u,
           Previewing(r) => Previewing(proc[p]) /\ \A j \in Job : r.item[j].stamp = proc[p].item[j].stamp
    PROVE  \A q \in Proc \ {p} : Apart(r, proc[q]) /\ Apart(proc[q], r)
<1> SUFFICES ASSUME NEW q \in Proc \ {p} PROVE Apart(r, proc[q]) /\ Apart(proc[q], r)
  BY Zenon
<1>1. Apart(proc[p], proc[q]) /\ Apart(proc[q], proc[p])
  BY DEF Requests
<1>2. QED
  BY <1>1, Zenon DEF Apart

\* An edit that moves on with the locks it needed (UPDATE schedules, UPDATE jobs).
LEMMA EditStep ==
    ASSUME JobIInv, NEW p \in Proc, UpdateSchedule(p) \/ UpdateJobRow(p)
    PROVE  JobIInv'
<1> USE DEF JobIInv
<1>1. UNCHANGED <<data, batch, views, keyOn>> /\ proc[p] \in Request
  BY DEF UpdateSchedule, UpdateJobRow, Requests
<1>2. CASE End(p)
  BY <1>1, <1>2, EndStep, Zenon
<1>3. CASE ~End(p)
  <2> DEFINE j == proc[p].j
             pc == IF proc[p].pc = "u_sched" THEN "u_job" ELSE "u_commit"
             L == IF ~There(j) THEN {} ELSE IF proc[p].pc = "u_sched" THEN {SchedRow(j)} ELSE {JobRow(j)}
  <2>1. proc[p].pc \in {"u_sched", "u_job"} /\ BlockedBy(p) = {} /\ Moves(p, pc, L)
        /\ (proc[p].pc = "u_job" => There(j))
    BY <1>3, Zenon DEF UpdateSchedule, UpdateJobRow, At
  <2>2. proc[p] \in Updates
    BY <1>1, <2>1, Phases
  <2>3. Holds(proc[p]) /\ Knows(proc[p])
    BY DEF Requests
  <2>4. Need(proc[p]) = IF proc[p].pc = "u_sched" THEN {SchedRow(j)} ELSE {JobRow(j)}
    BY <2>1, Zenon DEF Need
  <2>5. \A q \in Proc \ {p} : L \cap proc[q].held = {}
    BY <2>1, <2>4, Zenon DEF BlockedBy
  <2>6. L \subseteq Lock /\ j \in Job
    BY <2>2, LockNames DEF Updates
  <2>7. PICK r : r = [proc[p] EXCEPT !.pc = pc, !.held = @ \cup L]
    OBVIOUS
  <2>8. /\ r \in Updates /\ r.pc = pc /\ r.held = proc[p].held \cup L
        /\ r.j = j /\ r.u = proc[p].u
    BY <2>2, <2>6, <2>7, ZenonT(40) DEF Updates
  <2>9. Holds(r)
    BY <2>1, <2>3, <2>8, Zenon DEF Holds
  <2>10. Knows(r)
    <3>1. KeyShare \notin r.held
      BY <2>1, <2>3, <2>6, <2>8, LockNames, Zenon DEF Holds
    <3>2. Updating(proc[p])
      BY <2>1, Zenon DEF Updating
    <3>3. QED
      BY <2>1, <2>3, <2>8, <3>1, <3>2, Zenon DEF Knows, KeyKept, OwnTime, RoomForView, ItemsShown, RoomForBatch,
         BatchFound, Previewing
  <2>11. Updating(proc[p]) /\ ~Previewing(r)
    BY <2>1, <2>8 DEF Updating, Previewing
  <2>12. r \in Request /\ Becomes(p, r)
    BY <2>1, <2>7, <2>8 DEF Request, Moves
  <2> HIDE DEF j, pc, L
  <2>13. \A q \in Proc \ {p} : Apart(r, proc[q]) /\ Apart(proc[q], r)
    BY <2>5, <2>8, <2>11, LocksGained, Zenon
  <2>14. QED
    BY <1>1, <2>9, <2>10, <2>12, <2>13, RequestStep, Zenon
<1>4. QED
  BY <1>2, <1>3, Zenon

\* The id of a job is locked along with its row.
LEMMA IdWithRow ==
    ASSUME NEW r \in Request, Holds(r), NEW k \in Job, JobId(k) \in r.held
    PROVE  JobRow(k) \in r.held
<1>1. r.held # {}
  BY Zenon
<1>2. r.pc \in {"u_job", "u_commit", "d_second", "d_end", "v_lock", "v_count", "v_commit", "p_lock",
                "p_clean", "p_read", "c_batch", "c_item"}
  BY <1>1 DEF Holds, Request, Idle, Forms, Updates, Deletes, Triggers, Saves, Previews, Confirms
<1>3. CASE r.pc \in {"u_job", "u_commit"}
  BY <1>3, Phases, LockNames, Zenon DEF Holds, Updates
<1>4. CASE r.pc \in {"d_second", "d_end"}
  <2>1. r.j \in Job
    BY <1>4, Phases, Zenon DEF Deletes
  <2>2. r.held \subseteq {JobRow(r.j), JobId(r.j), SchedRow(r.j)}
    BY <1>4, ZenonT(40) DEF Holds
  <2>3. JobId(r.j) \in r.held => JobRow(r.j) \in r.held
    BY <1>4, <2>1, LockNames, Zenon DEF Holds
  <2>4. QED
    BY <2>1, <2>2, <2>3, LockNames, Zenon
<1>5. CASE r.pc \in {"v_lock", "v_count", "v_commit", "p_lock", "p_clean", "c_batch"}
  BY <1>5, LockNames, Zenon DEF Holds
<1>6. CASE r.pc = "p_read"
  <2>1. r.purge \subseteq Batch
    BY <1>6, Phases, Zenon DEF Previews
  <2>2. QED
    BY <1>6, <2>1, LockNames DEF Holds
<1>7. CASE r.pc = "c_item"
  BY <1>7 DEF Holds
<1>8. QED
  BY <1>2, <1>3, <1>4, <1>5, <1>6, <1>7, Zenon

\* A deletion that moves on with the row it needed, and with the id of the job.
LEMMA DeleteStep ==
    ASSUME JobIInv, NEW p \in Proc, DeleteRow(p)
    PROVE  JobIInv'
<1> USE DEF JobIInv
<1>1. /\ UNCHANGED <<data, batch, views, keyOn>> /\ proc[p] \in Request /\ Holds(proc[p])
      /\ proc[p].pc \in {"d_first", "d_second"} /\ BlockedBy(p) = {}
  BY Zenon DEF DeleteRow, Requests, At
<1>2. CASE End(p)
  BY <1>1, <1>2, EndStep, Zenon
<1>3. CASE ~End(p)
  <2> DEFINE j == proc[p].j
             pc == IF proc[p].pc = "d_first" THEN "d_second" ELSE "d_end"
             L == Need(proc[p]) \cup {JobId(i) : i \in {k \in Job : JobRow(k) \in Need(proc[p])}}
  <2>1. Moves(p, pc, L)
    BY <1>3, Zenon DEF DeleteRow
  <2>2. proc[p] \in Deletes /\ j \in Job
    BY <1>1, Phases DEF Deletes
  <2>3. \/ proc[p].jobFirst /\ proc[p].pc = "d_first" /\ L = {JobRow(j), JobId(j)}
        \/ proc[p].jobFirst /\ proc[p].pc = "d_second" /\ L = {SchedRow(j)}
        \/ ~proc[p].jobFirst /\ proc[p].pc = "d_first" /\ L = {SchedRow(j)}
        \/ ~proc[p].jobFirst /\ proc[p].pc = "d_second" /\ L = {JobRow(j), JobId(j)}
    <3>1. CASE Need(proc[p]) = {JobRow(j)}
      <4>1. {k \in Job : JobRow(k) \in Need(proc[p])} = {j}
        BY <2>2, <3>1, LockNames, Zenon
      <4>2. L = {JobRow(j), JobId(j)}
        BY <3>1, <4>1
      <4>3. QED
        BY <1>1, <2>2, <3>1, <4>2, LockNames, Zenon DEF Need
    <3>2. CASE Need(proc[p]) = {SchedRow(j)}
      <4>1. {k \in Job : JobRow(k) \in Need(proc[p])} = {}
        BY <2>2, <3>2, LockNames, Zenon
      <4>2. L = {SchedRow(j)}
        BY <3>2, <4>1, Zenon
      <4>3. QED
        BY <1>1, <2>2, <3>2, <4>2, LockNames, Zenon DEF Need
    <3>3. QED
      BY <1>1, <3>1, <3>2, ZenonT(40) DEF Need
  <2>4. \A q \in Proc \ {p} : L \cap proc[q].held = {}
    <3> SUFFICES ASSUME NEW q \in Proc \ {p} PROVE L \cap proc[q].held = {}
      OBVIOUS
    <3>1. Need(proc[p]) \cap proc[q].held = {}
      BY <1>1, Zenon DEF BlockedBy
    <3>2. \A k \in Job : JobId(k) \in proc[q].held => JobRow(k) \in proc[q].held
      BY IdWithRow, Zenon DEF Requests
    <3>3. QED
      BY <3>1, <3>2, Zenon
  <2> HIDE DEF L, j, pc
  <2>5. L \subseteq Lock
    BY <2>2, <2>3, LockNames
  <2>6. PICK r : r = [proc[p] EXCEPT !.pc = pc, !.held = @ \cup L]
    OBVIOUS
  <2>7. /\ r \in Deletes /\ r.pc = pc /\ r.held = proc[p].held \cup L
        /\ r.j = j /\ r.jobFirst = proc[p].jobFirst
    BY <2>2, <2>5, <2>6, Zenon DEF Deletes, j, pc
  <2>8. Holds(r)
    <3>1. proc[p].pc = "d_first" => proc[p].held = {}
      BY <1>1, Zenon DEF Holds
    <3>2. proc[p].pc = "d_second" =>
             proc[p].held = IF proc[p].jobFirst THEN {JobRow(j), JobId(j)} ELSE {SchedRow(j)}
      BY <1>1, Zenon DEF Holds, j
    <3>3. CASE proc[p].pc = "d_first"
      BY <2>3, <2>7, <3>1, <3>3, Zenon DEF Holds, pc
    <3>4. CASE proc[p].pc = "d_second"
      <4>1. r.held = {JobRow(j), JobId(j), SchedRow(j)}
        BY <2>3, <2>7, <3>2, <3>4, Zenon
      <4>2. QED
        BY <2>7, <3>4, <4>1, Zenon DEF Holds, pc
    <3>5. QED
      BY <1>1, <3>3, <3>4, Zenon
  <2>9. KeyShare \notin r.held
    <3>1. proc[p].held \subseteq {JobRow(j), JobId(j), SchedRow(j)}
      BY <1>1 DEF Holds, j
    <3>2. QED
      BY <2>2, <2>3, <2>7, <3>1, LockNames, Zenon
  <2>10. ~Updating(r) /\ ~Previewing(r)
    BY <2>7, Zenon DEF Updating, Previewing, pc
  <2>11. Knows(r)
    BY <2>7, <2>9, <2>10, Zenon DEF Knows, KeyKept, OwnTime, RoomForView, ItemsShown, RoomForBatch, BatchFound, pc
  <2>12. r \in Request /\ Becomes(p, r)
    BY <2>1, <2>6, <2>7 DEF Request, Moves
  <2>13. \A q \in Proc \ {p} : Apart(r, proc[q]) /\ Apart(proc[q], r)
    BY <2>4, <2>7, <2>10, LocksGained, Zenon
  <2>14. QED
    BY <1>1, <2>8, <2>11, <2>12, <2>13, RequestStep, Zenon
<1>4. QED
  BY <1>2, <1>3, Zenon

\* Sharing the key disturbs nobody.
LEMMA KeyShared ==
    ASSUME Requests, NEW p \in Proc, NEW r, r.held = {KeyShare}, ~Updating(r),
           Previewing(r) => \A j \in Job : r.item[j].stamp = 0
    PROVE  \A q \in Proc \ {p} : Apart(r, proc[q]) /\ Apart(proc[q], r)
<1> SUFFICES ASSUME NEW q \in Proc \ {p} PROVE Apart(r, proc[q]) /\ Apart(proc[q], r)
  BY Zenon
<1>1. Updating(proc[q]) => proc[q].u \in 1 .. clock
  BY DEF Requests, Knows, OwnTime
<1>2. QED
  BY <1>1 DEF Apart

\* A mutation on behalf of a key begins by locking the key (authorizedActor).
LEMMA ActorStep ==
    ASSUME JobIInv, NEW p \in Proc,
           RequestSaveView(p) \/ RequestPreview(p) \/ \E b \in Batch : ConfirmBulk(p, b)
    PROVE  JobIInv'
<1> USE ControlAssumption DEF JobIInv
<1>1. UNCHANGED <<data, batch, views, keyOn>> /\ keyOn
  BY Zenon DEF RequestSaveView, RequestPreview, SaveView, PreviewBulk, ConfirmBulk, AuthorizedActor
<1>2. KeyShare \in Lock
  BY LockNames, Zenon
<1>3. ASSUME NEW v \in Views, SaveView(p, v) PROVE JobIInv'
  <2>1. PICK r : r = [pc |-> "v_lock", v |-> v, held |-> {KeyShare}]
    BY Zenon
  <2>2. Becomes(p, r)
    <3>1. r = [[pc |-> "v_lock", v |-> v, held |-> {}] EXCEPT !.held = {KeyShare}]
      BY <2>1
    <3>2. QED
      BY <1>3, <3>1 DEF SaveView, AuthorizedActor
  <2>3. r \in Saves /\ r.pc = "v_lock" /\ r.held = {KeyShare}
    BY <1>2, <2>1 DEF Saves
  <2>4. r \in Request /\ Holds(r) /\ ~Updating(r) /\ ~Previewing(r)
    BY <2>3, Zenon DEF Request, Holds, Updating, Previewing
  <2>5. Knows(r)
    BY <1>1, <2>3, <2>4, Zenon DEF Knows, KeyKept, OwnTime, RoomForView, ItemsShown, RoomForBatch, BatchFound
  <2>6. QED
    BY <1>1, <2>2, <2>3, <2>4, <2>5, KeyShared, RequestStep, Zenon
<1>4. ASSUME NEW want \in BOOLEAN, NEW ids \in SUBSET Job, PreviewBulk(p, want, ids)
      PROVE JobIInv'
  <2>1. PICK r : r = [pc |-> "p_lock", want |-> want, todo |-> ids,
                      item |-> [j \in Job |-> NoItem], purge |-> Expired, held |-> {KeyShare}]
    BY Zenon
  <2>2. Becomes(p, r)
    <3> DEFINE q == [pc |-> "p_lock", want |-> want, todo |-> ids,
                     item |-> [j \in Job |-> NoItem], purge |-> Expired, held |-> {}]
    <3>1. r = [q EXCEPT !.held = {KeyShare}]
      BY <2>1
    <3>2. AuthorizedActor(p, q)
      BY <1>4, Zenon DEF PreviewBulk
    <3> HIDE DEF q
    <3>3. QED
      BY <3>1, <3>2 DEF AuthorizedActor
  <2>3. NoItem \in Item /\ NoItem.stamp = 0 /\ NoItem.in = FALSE /\ NoItem.res = "none"
    BY DEF NoItem, Item, Stamp, Result
  <2>4. Expired \subseteq Batch
    BY Zenon DEF Expired
  <2>5. /\ r \in Previews /\ r.pc = "p_lock" /\ r.held = {KeyShare}
        /\ \A j \in Job : r.item[j] = NoItem
    BY <1>2, <2>1, <2>3, <2>4, Zenon DEF Previews
  <2>6. r \in Request /\ Holds(r) /\ ~Updating(r)
    BY <2>5, Zenon DEF Request, Holds, Updating
  <2>7. \A j \in Job : Shown(r.item[j], j) /\ r.item[j].res = "none" /\ r.item[j].stamp = 0
    BY <2>3, <2>5 DEF Shown, Rows, Stamp
  <2>8. Knows(r)
    BY <1>1, <2>5, <2>6, <2>7, Zenon DEF Knows, KeyKept, OwnTime, RoomForView, ItemsShown, RoomForBatch, BatchFound
  <2>9. QED
    BY <1>1, <2>2, <2>5, <2>6, <2>7, <2>8, KeyShared, RequestStep, Zenon
<1>5. ASSUME NEW b \in Batch, ConfirmBulk(p, b) PROVE JobIInv'
  <2>1. PICK r : r = [pc |-> "c_batch", b |-> b, held |-> {KeyShare}, fresh |-> batch[b].st # "expired",
                      todo |-> {}, item |-> batch[b].item]
    BY Zenon
  <2>2. Becomes(p, r) /\ batch[b].st # "none"
    <3> DEFINE q == [pc |-> "c_batch", b |-> b, held |-> {}, fresh |-> batch[b].st # "expired",
                     todo |-> {}, item |-> batch[b].item]
    <3>1. r = [q EXCEPT !.held = {KeyShare}]
      BY <2>1
    <3>2. AuthorizedActor(p, q) /\ batch[b].st # "none"
      BY <1>5, Zenon DEF ConfirmBulk
    <3> HIDE DEF q
    <3>3. QED
      BY <3>1, <3>2 DEF AuthorizedActor
  <2>3. r \in Confirms /\ r.pc = "c_batch" /\ r.held = {KeyShare} /\ r.b = b
    <3>1. batch[b].item \in [Job -> Item] /\ (batch[b].st # "expired") \in BOOLEAN
      BY Zenon DEF Rows
    <3>2. QED
      BY <1>2, <2>1, <3>1, Zenon DEF Confirms
  <2>4. r \in Request /\ Holds(r) /\ ~Updating(r) /\ ~Previewing(r)
    BY <2>3, Zenon DEF Request, Holds, Updating, Previewing
  <2>5. Knows(r)
    BY <1>1, <2>2, <2>3, <2>4, Zenon DEF Knows, KeyKept, OwnTime, RoomForView, ItemsShown, RoomForBatch, BatchFound
  <2>6. QED
    BY <1>1, <2>2, <2>3, <2>4, <2>5, KeyShared, RequestStep, Zenon
<1>6. QED
  BY <1>3, <1>4, <1>5 DEF RequestSaveView, RequestPreview

\* Waiting for a quota's lock is over (pg_advisory_xact_lock).
LEMMA QuotaStep ==
    ASSUME JobIInv, NEW p \in Proc, LockViews(p) \/ LockBatches(p)
    PROVE  JobIInv'
<1> USE DEF JobIInv
<1>1. /\ UNCHANGED <<data, batch, views, keyOn>> /\ proc[p] \in Request
      /\ Holds(proc[p]) /\ Knows(proc[p]) /\ BlockedBy(p) = {}
  BY Zenon DEF LockViews, LockBatches, QuotaLock, Requests, At
<1>2. ViewQuota \in Lock /\ BatchQuota \in Lock
  BY LockNames
<1>3. CASE LockViews(p)
  <2>1. proc[p].pc = "v_lock" /\ Moves(p, "v_count", {ViewQuota})
    BY <1>3, Zenon DEF LockViews, QuotaLock, At
  <2>2. proc[p] \in Saves /\ proc[p].held = {KeyShare} /\ keyOn
    BY <1>1, <2>1, Phases DEF Holds, Knows, KeyKept
  <2>3. \A q \in Proc \ {p} : {ViewQuota} \cap proc[q].held = {}
    BY <1>1, <2>1 DEF BlockedBy, Need
  <2>4. PICK r : r = [proc[p] EXCEPT !.pc = "v_count", !.held = @ \cup {ViewQuota}]
    OBVIOUS
  <2>5. r \in Saves /\ r.pc = "v_count" /\ r.held = {KeyShare, ViewQuota}
    BY <1>2, <2>2, <2>4, Zenon DEF Saves
  <2>6. r \in Request /\ Holds(r) /\ ~Updating(r) /\ ~Previewing(r)
    BY <2>5, Zenon DEF Request, Holds, Updating, Previewing
  <2>7. Knows(r)
    BY <2>2, <2>5, <2>6, Zenon DEF Knows, KeyKept, OwnTime, RoomForView, ItemsShown, RoomForBatch, BatchFound
  <2>8. \A q \in Proc \ {p} : Apart(r, proc[q]) /\ Apart(proc[q], r)
    <3> DEFINE L == {ViewQuota}
    <3>1. r.held \subseteq proc[p].held \cup L /\ \A q \in Proc \ {p} : L \cap proc[q].held = {}
      BY <2>2, <2>3, <2>5, Zenon
    <3> HIDE DEF L
    <3>2. QED
      BY <2>6, <3>1, LocksGained, Zenon
  <2>9. QED
    BY <1>1, <2>1, <2>4, <2>6, <2>7, <2>8, RequestStep, Zenon DEF Moves
<1>4. CASE LockBatches(p)
  <2>1. proc[p].pc = "p_lock" /\ Moves(p, "p_clean", {BatchQuota})
    BY <1>4, Zenon DEF LockBatches, QuotaLock, At
  <2>2. proc[p] \in Previews /\ proc[p].held = {KeyShare} /\ keyOn
    BY <1>1, <2>1, Phases DEF Holds, Knows, KeyKept
  <2>3. \A q \in Proc \ {p} : {BatchQuota} \cap proc[q].held = {}
    BY <1>1, <2>1 DEF BlockedBy, Need
  <2>4. PICK r : r = [proc[p] EXCEPT !.pc = "p_clean", !.held = @ \cup {BatchQuota}]
    OBVIOUS
  <2>5. r \in Previews /\ r.pc = "p_clean" /\ r.held = {KeyShare, BatchQuota} /\ r.item = proc[p].item
    BY <1>2, <2>2, <2>4, ZenonT(40) DEF Previews
  <2>6. r \in Request /\ Holds(r) /\ ~Updating(r) /\ Previewing(proc[p])
    BY <2>1, <2>5, Zenon DEF Request, Holds, Updating, Previewing
  <2>7. Knows(r)
    BY <1>1, <2>2, <2>5, <2>6, Zenon DEF Knows, KeyKept, OwnTime, RoomForView, ItemsShown, RoomForBatch, BatchFound
  <2>8. \A q \in Proc \ {p} : Apart(r, proc[q]) /\ Apart(proc[q], r)
    <3> DEFINE L == {BatchQuota}
    <3>1. r.held \subseteq proc[p].held \cup L /\ \A q \in Proc \ {p} : L \cap proc[q].held = {}
      BY <2>2, <2>3, <2>5, Zenon
    <3>2. \A j \in Job : r.item[j].stamp = proc[p].item[j].stamp
      BY <2>5, Zenon
    <3> HIDE DEF L
    <3>3. QED
      BY <2>6, <3>1, <3>2, LocksGained, Zenon
  <2>9. QED
    BY <1>1, <2>1, <2>4, <2>6, <2>7, <2>8, RequestStep, Zenon DEF Moves
<1>5. QED
  BY <1>3, <1>4, Zenon

\* Finite sets whose sizes the quotas bound.
LEMMA Finite ==
    ASSUME Rows
    PROVE  /\ IsFiniteSet(views) /\ Cardinality(views) \in Nat
           /\ \A S \in SUBSET Batch : IsFiniteSet(S) /\ Cardinality(S) \in Nat
           /\ Unconfirmed \subseteq Batch /\ Expired \subseteq Batch
<1>1. IsFiniteSet(Batch)
  BY ControlAssumption, FS_Interval DEF Batch
<1>2. IsFiniteSet(views)
  BY ControlAssumption, FS_Subset DEF Rows
<1>3. \A S \in SUBSET Batch : IsFiniteSet(S)
  BY <1>1, FS_Subset, Zenon
<1>4. QED
  BY <1>2, <1>3, FS_CardinalityType, Zenon DEF Unconfirmed, Expired

\* The quota of saved views is counted (SaveView).
LEMMA CountViewsStep ==
    ASSUME JobIInv, NEW p \in Proc, CountViews(p)
    PROVE  JobIInv'
<1> USE ControlAssumption DEF JobIInv
<1>1. /\ UNCHANGED <<data, batch, views, keyOn>> /\ proc[p] \in Request
      /\ Holds(proc[p]) /\ Knows(proc[p]) /\ proc[p].pc = "v_count"
  BY Zenon DEF CountViews, Requests, At
<1>2. CASE End(p)
  BY <1>1, <1>2, EndStep, Zenon
<1>3. CASE ~End(p)
  <2>1. Moves(p, "v_commit", {}) /\ ~(Cardinality(views) >= MaxViews /\ proc[p].v \notin views)
    BY <1>3, Zenon DEF CountViews
  <2>2. proc[p] \in Saves /\ proc[p].held = {KeyShare, ViewQuota} /\ keyOn
    BY <1>1, Phases DEF Holds, Knows, KeyKept
  <2>3. PICK r : r = [proc[p] EXCEPT !.pc = "v_commit", !.held = @ \cup {}]
    OBVIOUS
  <2>4. r \in Saves /\ r.pc = "v_commit" /\ r.held = proc[p].held /\ r.v = proc[p].v
    BY <2>2, <2>3, Zenon DEF Saves
  <2>5. r \in Request /\ Holds(r) /\ ~Updating(r) /\ ~Previewing(r)
    BY <2>2, <2>4, Zenon DEF Request, Holds, Updating, Previewing
  <2>6. r.v \in views \/ Cardinality(views) < MaxViews
    BY <2>1, <2>4, Finite
  <2>7. Knows(r)
    BY <2>2, <2>4, <2>5, <2>6 DEF Knows, KeyKept, OwnTime, RoomForView, ItemsShown, RoomForBatch, BatchFound
  <2>8. \A q \in Proc \ {p} : Apart(r, proc[q]) /\ Apart(proc[q], r)
    BY <2>4, <2>5, LocksGained, Zenon
  <2>9. QED
    BY <1>1, <2>1, <2>3, <2>5, <2>7, <2>8, RequestStep, Zenon DEF Moves
<1>4. QED
  BY <1>2, <1>3, Zenon

\* The quota of previews is counted beside those to be removed (PreviewBulk).
LEMMA CleanStep ==
    ASSUME JobIInv, NEW p \in Proc, CleanBatches(p)
    PROVE  JobIInv'
<1> USE ControlAssumption DEF JobIInv
<1>1. /\ UNCHANGED <<data, batch, views, keyOn>> /\ proc[p] \in Request
      /\ Holds(proc[p]) /\ Knows(proc[p]) /\ proc[p].pc = "p_clean" /\ BlockedBy(p) = {}
  BY Zenon DEF CleanBatches, Requests, At
<1>2. CASE End(p)
  BY <1>1, <1>2, EndStep, Zenon
<1>3. CASE ~End(p)
  <2> DEFINE gone == proc[p].purge \cap Expired
             L == {BatchRow(b) : b \in gone}
  <2>1. /\ ~(Cardinality(Unconfirmed \ gone) >= MaxPending) /\ \E b \in Batch : batch[b].st = "none"
        /\ Becomes(p, [proc[p] EXCEPT !.pc = "p_read", !.purge = gone, !.held = @ \cup L])
    BY <1>3, Zenon DEF CleanBatches
  <2>2. proc[p] \in Previews /\ proc[p].held = {KeyShare, BatchQuota} /\ keyOn
    BY <1>1, Phases DEF Holds, Knows, KeyKept
  <2>3. \A q \in Proc \ {p} : L \cap proc[q].held = {}
    BY <1>1, Zenon DEF BlockedBy, Need
  <2>4. gone \subseteq Batch /\ gone \subseteq Expired /\ L \subseteq Lock
    BY LockNames, Finite, Zenon
  <2>5. Cardinality(Unconfirmed \ gone) < MaxPending
    <3>1. Cardinality(Unconfirmed \ gone) \in Nat
      BY Finite
    <3>2. QED
      BY <2>1, <3>1
  <2>6. PICK r : r = [proc[p] EXCEPT !.pc = "p_read", !.purge = gone, !.held = @ \cup L]
    BY ZenonT(40)
  <2>7. /\ r.held = {KeyShare, BatchQuota} \cup {BatchRow(b) : b \in gone}
        /\ r \in Previews /\ r.pc = "p_read" /\ r.purge = gone /\ r.item = proc[p].item
    <3> HIDE DEF gone
    <3>1. QED
      BY <2>2, <2>4, <2>6, ZenonT(40) DEF Previews
  <2>8. r \in Request /\ Holds(r) /\ ~Updating(r) /\ Previewing(proc[p])
    <3> HIDE DEF gone
    <3>1. QED
      BY <1>1, <2>7, Zenon DEF Request, Holds, Updating, Previewing
  <2>9. r.held \subseteq proc[p].held \cup L /\ \A j \in Job : r.item[j].stamp = proc[p].item[j].stamp
    BY <2>2, <2>7, Zenon
  <2>10. Becomes(p, r)
    BY <2>1, <2>6, Zenon
  <2> HIDE DEF gone, L
  <2>11. Knows(r)
    BY <1>1, <2>1, <2>2, <2>4, <2>5, <2>7, <2>8, Zenon DEF Knows, KeyKept, OwnTime, RoomForView, ItemsShown,
       RoomForBatch, BatchFound
  <2>12. \A q \in Proc \ {p} : Apart(r, proc[q]) /\ Apart(proc[q], r)
    BY <2>3, <2>8, <2>9, LocksGained, Zenon
  <2>13. QED
    BY <1>1, <2>8, <2>10, <2>11, <2>12, RequestStep, Zenon
<1>4. QED
  BY <1>2, <1>3

\* A preview shows a job as it is (PreviewBulk's SELECT).
LEMMA PreviewStep ==
    ASSUME JobIInv, NEW p \in Proc, PreviewItem(p)
    PROVE  JobIInv'
<1> USE ControlAssumption DEF JobIInv
<1>1. /\ UNCHANGED <<data, batch, views, keyOn>> /\ proc[p] \in Request /\ proc[p].todo # {}
      /\ Holds(proc[p]) /\ Knows(proc[p]) /\ proc[p].pc = "p_read"
  BY Zenon DEF PreviewItem, Requests, At
<1>2. CASE End(p)
  BY <1>1, <1>2, EndStep, Zenon
<1>3. CASE ~End(p)
  <2> DEFINE j == Min(proc[p].todo)
             i == [in |-> TRUE, on |-> job[j].on, stamp |-> job[j].stamp, res |-> "none"]
  <2>1. There(j) /\ Becomes(p, [proc[p] EXCEPT !.todo = @ \ {j}, !.item[j] = i])
    BY <1>3, Zenon DEF PreviewItem
  <2>2. proc[p] \in Previews
    BY <1>1, Phases, Zenon
  <2>3. j \in Job
    <3>1. proc[p].todo \subseteq Job
      BY <2>2, Zenon DEF Previews
    <3>2. proc[p].todo \in SUBSET Nat
      BY <3>1 DEF Job
    <3>3. QED
      BY <1>1, <3>1, <3>2, MinOf, Zenon
  <2>4. i \in Item /\ Shown(i, j) /\ i.res = "none" /\ i.stamp = job[j].stamp
    <3>1. job[j].on \in BOOLEAN /\ job[j].stamp \in Stamp /\ job[j].stamp <= clock
      BY <2>3 DEF Rows
    <3>2. QED
      BY <2>1, <3>1, Zenon DEF Item, Shown, There, Result
  <2> HIDE DEF i, j
  <2>5. PICK r : r = [proc[p] EXCEPT !.todo = @ \ {j}, !.item[j] = i]
    OBVIOUS
  <2>6. /\ r \in Previews /\ r.pc = "p_read" /\ r.held = proc[p].held /\ r.purge = proc[p].purge
        /\ r.item = [proc[p].item EXCEPT ![j] = i]
    BY <1>1, <2>2, <2>3, <2>4, <2>5, ZenonT(40) DEF Previews
  <2>7. \A k \in Job : r.item[k] = IF k = j THEN i ELSE proc[p].item[k]
    BY <2>2, <2>3, <2>6, Zenon DEF Previews
  <2>8. r \in Request /\ Holds(r) /\ ~Updating(r) /\ Previewing(proc[p])
    BY <1>1, <2>6, Zenon DEF Request, Holds, Updating, Previewing
  <2>9. Knows(r)
    <3>1. ItemsShown(r)
      BY <1>1, <2>4, <2>7, <2>8, Zenon DEF Knows, ItemsShown
    <3>2. QED
      BY <1>1, <2>6, <2>8, <3>1, Zenon DEF Knows, KeyKept, OwnTime, RoomForView, RoomForBatch, BatchFound
  <2>10. ASSUME NEW q \in Proc \ {p} PROVE Apart(r, proc[q]) /\ Apart(proc[q], r)
    <3>1. Apart(proc[p], proc[q]) /\ Apart(proc[q], proc[p]) /\ Knows(proc[q])
      BY Zenon DEF Requests
    <3>2. Updating(proc[q]) => i.stamp # proc[q].u
      BY <2>3, <2>4, <3>1, Zenon DEF Knows, OwnTime
    <3>3. QED
      BY <2>6, <2>7, <2>8, <3>1, <3>2, Zenon DEF Apart
  <2>11. QED
    BY <1>1, <2>1, <2>5, <2>8, <2>9, <2>10, RequestStep, Zenon
<1>4. QED
  BY <1>2, <1>3

\* A confirmation locks its batch and finds it unconfirmed (ConfirmBulk).
LEMMA LockBatchStep ==
    ASSUME JobIInv, NEW p \in Proc, LockBatch(p)
    PROVE  JobIInv'
<1> USE DEF JobIInv
<1> DEFINE b == proc[p].b
<1>1. /\ UNCHANGED <<data, batch, views, keyOn>> /\ proc[p] \in Request
      /\ Holds(proc[p]) /\ Knows(proc[p]) /\ proc[p].pc = "c_batch" /\ BlockedBy(p) = {}
  BY Zenon DEF LockBatch, Requests, At
<1>2. CASE End(p)
  BY <1>1, <1>2, EndStep, Zenon
<1>3. CASE ~End(p)
  <2> DEFINE todo == {j \in Job : batch[b].item[j].in}
             L == {BatchRow(b)}
  <2>1. /\ batch[b].st \notin {"purged", "confirmed"}
        /\ Becomes(p, [proc[p] EXCEPT !.pc = "c_item", !.held = @ \cup L, !.item = batch[b].item,
                                      !.todo = todo])
    BY <1>3, Zenon DEF LockBatch
  <2>2. proc[p] \in Confirms /\ b \in Batch /\ proc[p].held = {KeyShare} /\ keyOn
    BY <1>1, Phases DEF Holds, Knows, KeyKept, Confirms
  <2>3. \A q \in Proc \ {p} : L \cap proc[q].held = {}
    BY <1>1, Zenon DEF BlockedBy, Need
  <2>4. b \in Unconfirmed
    BY <1>1, <2>1, <2>2, Zenon DEF Knows, BatchFound, Rows, Unconfirmed
  <2>5. batch[b].item \in [Job -> Item] /\ \A j \in Job : batch[b].item[j].res = "none"
    BY <2>2, <2>4, Zenon DEF Rows, Stored
  <2>6. L \subseteq Lock /\ todo \subseteq Job
    BY <2>2, LockNames, ZenonT(40)
  <2>7. PICK r : r = [proc[p] EXCEPT !.pc = "c_item", !.held = @ \cup L, !.item = batch[b].item,
                                     !.todo = todo]
    BY ZenonT(40)
  <2>8. Becomes(p, r)
    BY <2>1, <2>7, Zenon
  <2>9. /\ r \in Confirms /\ r.pc = "c_item" /\ r.held = proc[p].held \cup L /\ r.b = b
        /\ r.item = batch[b].item /\ r.todo = todo
    <3> HIDE DEF todo, L
    <3>1. QED
      BY <2>2, <2>5, <2>6, <2>7, Zenon DEF Confirms, b
  <2>10. Holds(r)
    <3>1. r.held = {KeyShare, BatchRow(r.b)}
      BY <2>2, <2>9, Zenon
    <3>2. \A k \in Job : JobId(k) \notin r.held
      BY <2>2, <2>9, <3>1, LockNames, Zenon
    <3>3. QED
      BY <2>9, <3>1, <3>2, Zenon DEF Holds
  <2>11. r \in Request /\ ~Updating(r) /\ ~Previewing(r)
    BY <2>9 DEF Request, Updating, Previewing
  <2>12. ASSUME NEW j \in Job PROVE Judged(r, j)
    BY <2>5, <2>9, ZenonT(40) DEF Judged
  <2>13. Knows(r)
    BY <2>2, <2>4, <2>9, <2>11, <2>12, Zenon DEF Knows, KeyKept, OwnTime, RoomForView, ItemsShown, RoomForBatch,
       BatchFound
  <2> HIDE DEF L
  <2>14. \A q \in Proc \ {p} : Apart(r, proc[q]) /\ Apart(proc[q], r)
    BY <2>3, <2>9, <2>11, LocksGained, Zenon
  <2>15. QED
    BY <1>1, <2>8, <2>10, <2>11, <2>13, <2>14, RequestStep, Zenon
<1>4. QED
  BY <1>2, <1>3

\* A confirmation compares one more job, under its lock, or fails at it.
LEMMA ItemStep ==
    ASSUME JobIInv, NEW p \in Proc, ConfirmItem(p) \/ ItemFails(p)
    PROVE  JobIInv'
<1> USE DEF JobIInv
<1> DEFINE j == Min(proc[p].todo)
           b == proc[p].b
           L == IF There(j) THEN {JobRow(j), JobId(j)} ELSE {}
<1>1. /\ UNCHANGED <<data, batch, views, keyOn>> /\ proc[p] \in Request /\ proc[p].todo # {}
      /\ Holds(proc[p]) /\ Knows(proc[p]) /\ proc[p].pc = "c_item"
  BY Zenon DEF ConfirmItem, ItemFails, Requests, At
<1>2. proc[p] \in Confirms /\ b \in Batch /\ keyOn
  BY <1>1, Phases, Zenon DEF Knows, KeyKept, Holds, Confirms
<1>3. j \in Job /\ j \in proc[p].todo /\ \A k \in proc[p].todo : j <= k
  <2>1. proc[p].todo \subseteq Job
    BY <1>2 DEF Confirms
  <2>2. proc[p].todo \in SUBSET Nat
    BY <2>1 DEF Job
  <2>3. QED
    BY <1>1, <2>1, <2>2, MinOf, Zenon
<1>4. /\ b \in Unconfirmed /\ \A k \in Job : Judged(proc[p], k)
      /\ proc[p].item \in [Job -> Item] /\ batch[b].item \in [Job -> Item]
  BY <1>1, <1>2, Zenon DEF Knows, BatchFound, Confirms, Rows
<1>5. PICK res \in Result, l \in {{}, L} :
         /\ proc' = [proc EXCEPT ![p] = [proc[p] EXCEPT !.todo = @ \ {j}, !.held = @ \cup l,
                                                        !.item[j].res = res]]
         /\ \A q \in Proc \ {p} : l \cap proc[q].held = {}
         /\ res # "none"
         /\ \/ res = "failed"
            \/ res = Outcome(proc[p].item[j], batch[b].want, j) /\ l = L
  <2>1. CASE ConfirmItem(p)
    <3>1. Need(proc[p]) = {JobRow(j)} /\ BlockedBy(p) = {}
      BY <1>1, <2>1, Zenon DEF ConfirmItem, At, Need, NextItem
    <3>2. \A q \in Proc \ {p} : L \cap proc[q].held = {}
      <4> SUFFICES ASSUME NEW q \in Proc \ {p} PROVE L \cap proc[q].held = {}
        BY Zenon
      <4>1. JobRow(j) \notin proc[q].held
        BY <3>1, Zenon DEF BlockedBy
      <4>2. JobId(j) \notin proc[q].held
        BY <1>3, <4>1, IdWithRow, Zenon DEF Requests
      <4>3. QED
        BY <4>1, <4>2, Zenon
    <3>3. Outcome(proc[p].item[j], batch[b].want, j) \in Result \ {"none"}
      BY DEF Outcome, Result
    <3>4. proc' = [proc EXCEPT ![p] = [proc[p] EXCEPT !.todo = @ \ {j}, !.held = @ \cup L,
                      !.item[j].res = Outcome(proc[p].item[j], batch[b].want, j)]]
      BY <2>1 DEF ConfirmItem, Becomes, NextItem
    <3> HIDE DEF L
    <3>5. QED
      BY <3>2, <3>3, <3>4, Zenon
  <2>2. CASE ItemFails(p)
    <3>1. proc' = [proc EXCEPT ![p] = [proc[p] EXCEPT !.todo = @ \ {j}, !.item[j].res = "failed"]]
      BY <2>2 DEF ItemFails, Becomes, NextItem
    <3>2. [proc[p] EXCEPT !.todo = @ \ {j}, !.item[j].res = "failed"]
            = [proc[p] EXCEPT !.todo = @ \ {j}, !.held = @ \cup {}, !.item[j].res = "failed"]
      BY <1>2, Zenon DEF Confirms
    <3>3. "failed" \in Result
      BY DEF Result
    <3> HIDE DEF L
    <3>4. QED
      BY <3>1, <3>2, <3>3, Zenon
  <2>3. QED
    BY <2>1, <2>2, ZenonT(40)
<1>6. PICK r : r = [proc[p] EXCEPT !.todo = @ \ {j}, !.held = @ \cup l, !.item[j].res = res]
  OBVIOUS
<1>7. l \subseteq Lock /\ l \subseteq {JobRow(j), JobId(j)} /\ (l # {} => JobRow(j) \in l)
  BY <1>3, <1>5, LockNames
<1>8. /\ r \in Confirms /\ r.pc = "c_item" /\ r.held = proc[p].held \cup l /\ r.b = b
      /\ r.todo = proc[p].todo \ {j} /\ r.item = [proc[p].item EXCEPT ![j].res = res]
  <2> DEFINE it == [proc[p].item EXCEPT ![j].res = res]
  <2> HIDE DEF L, j
  <2>1. it \in [Job -> Item]
    BY <1>3, <1>4, <1>5 DEF Item
  <2>2. r = [proc[p] EXCEPT !.todo = @ \ {j}, !.held = @ \cup l, !.item = it]
    BY <1>6
  <2> HIDE DEF it
  <2>3. /\ r \in Confirms /\ r.pc = "c_item" /\ r.held = proc[p].held \cup l /\ r.b = b
        /\ r.todo = proc[p].todo \ {j} /\ r.item = it
    BY <1>1, <1>2, <1>7, <2>1, <2>2, Zenon DEF Confirms
  <2>4. QED
    BY <2>3, Zenon DEF it
<1>9. /\ \A k \in Job \ {j} : r.item[k] = proc[p].item[k]
      /\ r.item[j].in = proc[p].item[j].in /\ r.item[j].on = proc[p].item[j].on
      /\ r.item[j].stamp = proc[p].item[j].stamp /\ r.item[j].res = res
  <2> HIDE DEF L, j
  <2>1. QED
    BY <1>3, <1>4, <1>8 DEF Item
<1>10. Holds(r)
  <2>1. Passed(proc[p]) \subseteq Passed(r) /\ j \in Passed(r)
    <3>1. proc[p].todo \subseteq Nat /\ j \in Nat
      BY <1>2, <1>3 DEF Confirms, Job
    <3> HIDE DEF j
    <3>2. QED
      BY <1>3, <1>8, <3>1 DEF Passed
  <2> HIDE DEF L, j
  <2>2. {KeyShare, BatchRow(r.b)} \subseteq r.held
    BY <1>1, <1>8 DEF Holds, b
  <2>3. r.held \subseteq {KeyShare, BatchRow(r.b)} \cup {JobRow(k) : k \in Passed(r)}
                                                 \cup {JobId(k) : k \in Passed(r)}
    <3>1. proc[p].held \subseteq {KeyShare, BatchRow(b)} \cup {JobRow(k) : k \in Passed(proc[p])}
                                                       \cup {JobId(k) : k \in Passed(proc[p])}
      BY <1>1, Zenon DEF Holds, b
    <3>2. QED
      BY <1>7, <1>8, <2>1, <3>1, ZenonT(40)
  <2>4. \A k \in Job : JobId(k) \in r.held => JobRow(k) \in r.held
    BY <1>1, <1>3, <1>7, <1>8, LockNames, ZenonT(40) DEF Holds
  <2>5. QED
    BY <1>8, <2>2, <2>3, <2>4, Zenon DEF Holds
<1>11. ASSUME NEW k \in Job PROVE Judged(r, k)
  <2>1. CASE k # j
    <3>1. Judged(proc[p], k) /\ r.item[k] = proc[p].item[k]
      BY <1>4, <1>9, <2>1, Zenon
    <3> HIDE DEF L, j
    <3>2. QED
      BY <1>8, <2>1, <3>1, ZenonT(40) DEF Judged, b
  <2>2. CASE k = j
    <3>1. Judged(proc[p], j) /\ proc[p].item[j].in
      BY <1>3, <1>4, ZenonT(40) DEF Judged
    <3>2. Shown(batch[b].item[j], j)
      BY <1>3, <1>4, Zenon DEF Stored
    <3>3. /\ r.item[j].in /\ batch[b].item[j].in /\ batch[b].item[j].on = r.item[j].on
          /\ batch[b].item[j].stamp = r.item[j].stamp
      BY <1>9, <3>1, ZenonT(40) DEF Judged
    <3>4. job[j].st \in {"there", "gone"} /\ (r.item[j].stamp = job[j].stamp => r.item[j].on = job[j].on)
      BY <1>3, <3>2, <3>3, ZenonT(40) DEF Shown, Rows
    <3>5. CASE res = "failed"
      BY <1>5, <1>8, <1>9, <2>2, <3>3, <3>5, ZenonT(40) DEF Judged
    <3>6. CASE res = Outcome(proc[p].item[j], batch[b].want, j) /\ l = L
      <4>1. res = Outcome(r.item[j], batch[b].want, j)
        BY <1>9, <3>6, ZenonT(40) DEF Outcome
      <4>2. There(j) => JobRow(j) \in r.held
        BY <1>8, <3>6, Zenon
      <4> HIDE DEF L, j
      <4>3. /\ res \in {"applied", "unchanged", "conflict"} => There(j)
            /\ res \in {"applied", "unchanged"} => job[j].stamp = r.item[j].stamp
            /\ res = "applied" => job[j].on # batch[b].want
            /\ res = "unchanged" => job[j].on = batch[b].want
            /\ res = "conflict" => job[j].stamp # r.item[j].stamp
            /\ res = "unavailable" => job[j].st = "gone"
        BY <3>4, <4>1, Zenon DEF Outcome, There
      <4>4. QED
        BY <1>5, <1>8, <1>9, <2>2, <3>3, <4>2, <4>3, ZenonT(40) DEF Judged
    <3>7. QED
      BY <1>5, <3>5, <3>6
  <2>3. QED
    BY <2>1, <2>2
<1>12. r \in Request /\ Becomes(p, r) /\ ~Updating(r) /\ ~Previewing(r)
  BY <1>5, <1>6, <1>8, Zenon DEF Request, Updating, Previewing, Becomes
<1> HIDE DEF L, j, b
<1>13. Knows(r)
  BY <1>2, <1>4, <1>8, <1>11, <1>12, Zenon DEF Knows, KeyKept, OwnTime, RoomForView, ItemsShown, RoomForBatch,
     BatchFound
<1>14. \A q \in Proc \ {p} : Apart(r, proc[q]) /\ Apart(proc[q], r)
  <2>1. r.held \subseteq proc[p].held \cup l
    BY <1>8
  <2>2. \A q \in Proc \ {p} : l \cap proc[q].held \subseteq {KeyShare}
    BY <1>5, Zenon
  <2>3. \A q \in Proc \ {p} : proc[p].held \cap proc[q].held \subseteq {KeyShare}
    BY Zenon DEF Requests, Apart
  <2>4. \A q \in Proc \ {p} : r.held \cap proc[q].held \subseteq {KeyShare}
    BY <2>1, <2>2, <2>3
  <2>5. QED
    BY <1>12, <2>4 DEF Apart
<1>15. QED
  BY <1>1, <1>10, <1>12, <1>13, <1>14, RequestStep, Zenon
===============================================================================
