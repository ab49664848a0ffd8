------------------------------ MODULE JobControl ------------------------------
(***************************************************************************)
(* Jobs as the three doors change them at once: the REST handlers, the MCP  *)
(* tools and the admin pages call the same service, the service reads and   *)
(* then writes, and PostgreSQL runs the writes as READ COMMITTED            *)
(* transactions that take row and advisory locks.  A process here is one    *)
(* request in some server instance.  A multi-statement transaction is one   *)
(* action per statement that can wait for a lock; its writes are visible    *)
(* from its commit on, and it may abort before (timeout, lost connection,   *)
(* deadlock victim).  A single statement is one action.                     *)
(*                                                                          *)
(* Sources: internal/service/{jobs,control}.go,                             *)
(* internal/store/postgres/{store,control,queries}.go,                      *)
(* internal/api/handler_v2.go, internal/mcp/tools.go,                       *)
(* internal/webadmin/{job_handlers,control_handlers,forms}.go.              *)
(*                                                                          *)
(* A configuration has one field per row an update writes: "name" for the   *)
(* jobs row, "cron" for the schedules row.  Times of writes (updated_at)    *)
(* are only compared for equality: they are numbers taken from a counter.   *)
(***************************************************************************)
EXTENDS Naturals, FiniteSets, FiniteSetsExt

CONSTANTS
    Proc,         \* concurrent requests
    NumJobs,      \* jobs are 1..NumJobs, ordered as their ids are
    Views,        \* names of saved views
    MaxViews,     \* 20 in the code
    MaxPending,   \* 20 in the code
    MaxBatches,   \* bound: previews ever stored
    MaxClock      \* bound: writes of job rows

ASSUME ControlAssumption ==
    /\ NumJobs \in Nat \ {0} /\ MaxClock \in Nat \ {0}
    /\ MaxViews \in Nat \ {0} /\ MaxPending \in Nat \ {0}
    /\ MaxBatches \in Nat /\ IsFiniteSet(Views)

VARIABLES
    job,      \* the jobs row: [st, on, name, stamp, by]
    sched,    \* the schedules row: [cron, by]; it lives as long as its job
    runs,     \* whether the job has an execution of its own since the start
    batch,    \* admin_bulk_batches
    views,    \* admin_saved_views of the key
    keyOn,    \* the acting API key is stored and enabled
    proc,     \* the requests
    clock,    \* the last time handed out
    fleet     \* the state the last pause, resume or confirmation gave a job

vars == <<job, sched, runs, batch, views, keyOn, proc, clock, fleet>>
data == <<job, sched, runs, clock, fleet>>

Job == 1 .. NumJobs
Batch == 1 .. MaxBatches
Field == {"name", "cron"}
Stamp == 0 .. MaxClock

Idle == [pc |-> "idle", held |-> {}]
NoItem == [in |-> FALSE, on |-> FALSE, stamp |-> 0, res |-> "none"]
NoBatch == [st |-> "none", want |-> FALSE, item |-> [j \in Job |-> NoItem]]

(***************************************************************************)
(* Locks.  Waiting on a row is not being able to take the step; Need names  *)
(* what the next statement of a request must obtain.                        *)
(***************************************************************************)
JobRow(j) == <<"job", j>>
\* Held by a deleter or FOR UPDATE, needed by the foreign key of an insert.
JobId(j) == <<"id", j>>
SchedRow(j) == <<"sched", j>>
BatchRow(b) == <<"batch", b>>
ViewQuota == <<"advisory", 10>>
BatchQuota == <<"advisory", 11>>
KeyShare == <<"key", 0>>

Expired == {b \in Batch : batch[b].st = "expired"}
Unconfirmed == {b \in Batch : batch[b].st \in {"pending", "expired"}}

\* Mutant: jobs are locked in the order they were selected.
SelectionOrder(b, todo) == IF b = 1 THEN Min(todo) ELSE Max(todo)

\* The jobs of a batch are locked in the order of their ids.
NextItem(b, todo) == Min(todo)

Need(r) ==
    CASE r.pc = "u_sched"  -> {SchedRow(r.j)}
      [] r.pc = "u_job"    -> {JobRow(r.j)}
      [] r.pc = "d_first"  -> IF r.jobFirst THEN {JobRow(r.j)} ELSE {SchedRow(r.j)}
      [] r.pc = "d_second" -> IF r.jobFirst THEN {SchedRow(r.j)} ELSE {JobRow(r.j)}
      [] r.pc = "t_insert" -> {JobId(r.j)}
      [] r.pc = "v_lock"   -> {ViewQuota}
      [] r.pc = "p_lock"   -> {BatchQuota}
      [] r.pc = "p_clean"  -> {BatchRow(b) : b \in r.purge \cap Expired}
      [] r.pc = "c_batch"  -> {BatchRow(r.b)}
      [] r.pc = "c_item" /\ r.todo # {} -> {JobRow(NextItem(r.b, r.todo))}
      [] OTHER -> {}

Free(l) == \A q \in Proc : l \notin proc[q].held
BlockedBy(p) == {q \in Proc \ {p} : Need(proc[p]) \cap proc[q].held # {}}

At(p, pc) == proc[p].pc = pc /\ BlockedBy(p) = {}
Becomes(p, r) == proc' = [proc EXCEPT ![p] = r]
Moves(p, pc, locks) ==
    Becomes(p, [proc[p] EXCEPT !.pc = pc, !.held = @ \cup locks])
End(p) == Becomes(p, Idle)

Init ==
    /\ \E new \in SUBSET Job :
          job = [j \in Job |-> [st |-> IF j \in new THEN "new" ELSE "there",
                                on |-> TRUE, name |-> 0, stamp |-> 0, by |-> 0]]
    /\ sched = [j \in Job |-> [cron |-> 0, by |-> 0]]
    /\ runs = {}
    /\ batch = [b \in Batch |-> NoBatch]
    /\ views = {}
    /\ keyOn = TRUE
    /\ proc = [p \in Proc |-> Idle]
    /\ clock = 0
    /\ fleet = [j \in Job |-> TRUE]

There(j) == job[j].st = "there"

(***************************************************************************)
(* Create, pause and resume.                                                *)
(***************************************************************************)
\* Schedule, job and tags are inserted in one transaction nobody can wait for.
CreateJobAggregate(j) ==
    /\ job[j].st = "new"
    /\ job' = [job EXCEPT ![j].st = "there"]
    /\ UNCHANGED <<sched, runs, batch, views, keyOn, proc, clock, fleet>>

\* One UPDATE of enabled and updated_at alone.
SetJobEnabled(j, on) ==
    /\ There(j) /\ Free(JobRow(j)) /\ clock < MaxClock
    /\ clock' = clock + 1
    /\ job' = [job EXCEPT ![j].on = on, ![j].stamp = clock + 1]
    /\ fleet' = [fleet EXCEPT ![j] = on]
    /\ UNCHANGED <<sched, runs, batch, views, keyOn, proc>>

\* The service validates the input and gives the job and its schedule new ids;
\* a job starts enabled.
CreateJob == \E j \in Job : CreateJobAggregate(j)
PauseJob(j) == SetJobEnabled(j, FALSE)
ResumeJob(j) == SetJobEnabled(j, TRUE)

(***************************************************************************)
(* Update: read the job with its schedule, merge the given fields into what *)
(* was read, write both rows back in one transaction.                       *)
(***************************************************************************)
\* The service: the fields given, over the stored ones; updated_at is now.
UpdateJob(p, j, given, value) ==
    /\ There(j) /\ clock < MaxClock
    /\ clock' = clock + 1
    /\ Becomes(p, [pc |-> "u_sched", j |-> j, held |-> {},
                   name |-> IF "name" \in given THEN value["name"] ELSE job[j].name,
                   cron |-> IF "cron" \in given THEN value["cron"] ELSE sched[j].cron,
                   on |-> job[j].on, u |-> clock + 1])
    /\ UNCHANGED <<job, sched, runs, batch, views, keyOn, fleet>>

\* PATCH of the REST API: any of the fields.
RestUpdate(p, j) ==
    /\ proc[p].pc = "idle"
    /\ \E given \in SUBSET Field : UpdateJob(p, j, given, [f \in Field |-> clock + 1])

\* The update-job tool: its "enabled" argument reaches no field of the input.
ToolUpdate(p, j) ==
    /\ proc[p].pc = "idle"
    /\ \E given \in SUBSET (Field \cup {"enabled"}) :
          UpdateJob(p, j, given \cap Field, [f \in Field |-> clock + 1])

\* The edit page shows the stored values ...
EditPage(p, j) ==
    /\ proc[p].pc = "idle" /\ There(j)
    /\ Becomes(p, [pc |-> "form", j |-> j, held |-> {},
                   shown |-> [f \in Field |-> IF f = "name" THEN job[j].name
                                                            ELSE sched[j].cron]])
    /\ UNCHANGED <<data, batch, views, keyOn>>

\* ... and its form sends every field back, edited or not.
EditJob(p) ==
    /\ proc[p].pc = "form"
    /\ \E edited \in (SUBSET Field) \ {{}} :
          UpdateJob(p, proc[p].j, Field,
                    [f \in Field |-> IF f \in edited THEN clock + 1
                                                     ELSE proc[p].shown[f]])

EditGone(p) ==
    /\ proc[p].pc = "form" /\ ~There(proc[p].j)
    /\ End(p)
    /\ UNCHANGED <<data, batch, views, keyOn>>

\* UPDATE schedules: a row that is gone is no error.
UpdateSchedule(p) ==
    /\ At(p, "u_sched")
    /\ Moves(p, "u_job", IF There(proc[p].j) THEN {SchedRow(proc[p].j)} ELSE {})
    /\ UNCHANGED <<data, batch, views, keyOn>>

\* UPDATE jobs: no row is ErrJobNotFound; the tags are replaced behind its lock.
UpdateJobRow(p) ==
    /\ At(p, "u_job")
    /\ IF There(proc[p].j) THEN Moves(p, "u_commit", {JobRow(proc[p].j)}) ELSE End(p)
    /\ UNCHANGED <<data, batch, views, keyOn>>

\* Mutant: an edit writes the enabled flag it read.
UpdateWritesEnabled(p) ==
    LET r == proc[p] IN
    /\ At(p, "u_commit")
    /\ End(p)
    /\ job' = [job EXCEPT ![r.j].name = r.name, ![r.j].stamp = r.u, ![r.j].by = r.u,
                          ![r.j].on = r.on]
    /\ sched' = [sched EXCEPT ![r.j] = [cron |-> r.cron, by |-> r.u]]
    /\ UNCHANGED <<runs, clock, fleet, batch, views, keyOn>>

UpdateJobAggregate(p) ==
    LET r == proc[p] IN
    /\ At(p, "u_commit")
    /\ End(p)
    /\ job' = [job EXCEPT ![r.j].name = r.name, ![r.j].stamp = r.u, ![r.j].by = r.u]
    /\ sched' = [sched EXCEPT ![r.j] = [cron |-> r.cron, by |-> r.u]]
    /\ UNCHANGED <<runs, clock, fleet, batch, views, keyOn>>

(***************************************************************************)
(* Delete: one statement whose parts run in no given order.                 *)
(***************************************************************************)
DeleteJob(p, j) ==
    /\ proc[p].pc = "idle" /\ There(j)
    /\ \E jobFirst \in BOOLEAN :
          Becomes(p, [pc |-> "d_first", j |-> j, held |-> {}, jobFirst |-> jobFirst,
                      seen |-> j \in runs])
    /\ UNCHANGED <<data, batch, views, keyOn>>

\* A row deleted while the statement waited for it leaves nothing to delete.
DeleteRow(p) ==
    /\ At(p, "d_first") \/ At(p, "d_second")
    /\ IF ~There(proc[p].j)
         THEN End(p)
         ELSE Moves(p, IF proc[p].pc = "d_first" THEN "d_second" ELSE "d_end",
                    Need(proc[p])
                      \cup {JobId(j) : j \in {k \in Job : JobRow(k) \in Need(proc[p])}})
    /\ UNCHANGED <<data, batch, views, keyOn>>

\* An execution the statement's snapshot lacked fails the whole statement.
DeleteEnds(p) ==
    LET j == proc[p].j IN
    /\ At(p, "d_end")
    /\ End(p)
    /\ IF j \in runs /\ ~proc[p].seen
         THEN UNCHANGED <<job, runs>>
         ELSE /\ job' = [job EXCEPT ![j].st = "gone"]
              /\ runs' = runs \ {j}
    /\ UNCHANGED <<sched, clock, fleet, batch, views, keyOn>>

(***************************************************************************)
(* Trigger: read the job, insert an execution.                              *)
(***************************************************************************)
TriggerNow(p, j) ==
    /\ proc[p].pc = "idle" /\ There(j) /\ job[j].on
    /\ Becomes(p, [pc |-> "t_insert", j |-> j, held |-> {}])
    /\ UNCHANGED <<data, batch, views, keyOn>>

\* The foreign key refuses the row of a job that is gone.
InsertExecution(p) ==
    /\ At(p, "t_insert")
    /\ End(p)
    /\ runs' = IF There(proc[p].j) THEN runs \cup {proc[p].j} ELSE runs
    /\ UNCHANGED <<job, sched, clock, fleet, batch, views, keyOn>>

(***************************************************************************)
(* What an actor keeps: saved views and bulk previews.  Every mutation      *)
(* first locks the acting key's row against its deletion.                   *)
(***************************************************************************)
\* Mutant: the key is checked and not locked.
ActorUnlocked(p, r) == keyOn /\ Becomes(p, r)

\* SELECT ... AND enabled FOR SHARE; a missing key is ErrAPIKeyNotFound.
AuthorizedActor(p, r) == keyOn /\ Becomes(p, [r EXCEPT !.held = {KeyShare}])

SaveView(p, v) ==
    /\ proc[p].pc = "idle"
    /\ AuthorizedActor(p, [pc |-> "v_lock", v |-> v, held |-> {}])
    /\ UNCHANGED <<data, batch, views, keyOn>>

\* The service checks name and filter; the page is the admin's job list.
RequestSaveView(p) == \E v \in Views : SaveView(p, v)

\* Mutant: quotas are checked without the lock.
QuotaUnlocked(p, lock, pc) ==
    /\ Moves(p, pc, {})
    /\ UNCHANGED <<data, batch, views, keyOn>>

\* pg_advisory_xact_lock, held to the end of the transaction.
QuotaLock(p, lock, pc) ==
    /\ Moves(p, pc, {lock})
    /\ UNCHANGED <<data, batch, views, keyOn>>

LockViews(p) == At(p, "v_lock") /\ QuotaLock(p, ViewQuota, "v_count")

\* Count, then upsert by name, unless the quota refuses a new name.
CountViews(p) ==
    /\ At(p, "v_count")
    /\ IF Cardinality(views) >= MaxViews /\ proc[p].v \notin views
         THEN End(p)
         ELSE Moves(p, "v_commit", {})
    /\ UNCHANGED <<data, batch, views, keyOn>>

CommitView(p) ==
    /\ At(p, "v_commit")
    /\ views' = views \cup {proc[p].v}
    /\ End(p)
    /\ UNCHANGED <<data, batch, keyOn>>

DeleteView(v) ==
    /\ keyOn /\ v \in views
    /\ views' = views \ {v}
    /\ UNCHANGED <<data, batch, keyOn, proc>>

PreviewBulk(p, want, ids) ==
    /\ proc[p].pc = "idle"
    /\ AuthorizedActor(p, [pc |-> "p_lock", want |-> want, todo |-> ids,
                           item |-> [j \in Job |-> NoItem], purge |-> Expired,
                           held |-> {}])
    /\ UNCHANGED <<data, batch, views, keyOn>>

\* Distinct jobs, at least one, pause or resume.
RequestPreview(p) ==
    \E want \in BOOLEAN, ids \in (SUBSET Job) \ {{}} : PreviewBulk(p, want, ids)

LockBatches(p) == At(p, "p_lock") /\ QuotaLock(p, BatchQuota, "p_clean")

\* DELETE of those that had expired when the transaction began: it waits for a confirmation that
\* holds one and then sees it confirmed.  What is unconfirmed still is counted.
CleanBatches(p) ==
    LET gone == proc[p].purge \cap Expired IN
    /\ At(p, "p_clean")
    /\ IF \/ Cardinality(Unconfirmed \ gone) >= MaxPending
          \/ \A b \in Batch : batch[b].st # "none"
         THEN End(p)
         ELSE Becomes(p, [proc[p] EXCEPT !.pc = "p_read", !.purge = gone,
                            !.held = @ \cup {BatchRow(b) : b \in gone}])
    /\ UNCHANGED <<data, batch, views, keyOn>>

\* One SELECT per job; a job that is not there fails the preview.
PreviewItem(p) ==
    /\ At(p, "p_read") /\ proc[p].todo # {}
    /\ LET j == Min(proc[p].todo) IN
       IF ~There(j)
         THEN End(p)
         ELSE Becomes(p, [proc[p] EXCEPT !.todo = @ \ {j},
                !.item[j] = [in |-> TRUE, on |-> job[j].on, stamp |-> job[j].stamp,
                             res |-> "none"]])
    /\ UNCHANGED <<data, batch, views, keyOn>>

NextBatch == Min({b \in Batch : batch[b].st = "none"})

CommitPreview(p) ==
    /\ At(p, "p_read") /\ proc[p].todo = {}
    /\ batch' = [b \in Batch |->
          IF b \in proc[p].purge THEN [NoBatch EXCEPT !.st = "purged"]
          ELSE IF b = NextBatch
          THEN [st |-> "pending", want |-> proc[p].want, item |-> proc[p].item]
          ELSE batch[b]]
    /\ End(p)
    /\ UNCHANGED <<data, views, keyOn>>

\* Ten minutes pass; now() is the time a transaction began.
Expire(b) ==
    /\ batch[b].st = "pending"
    /\ batch' = [batch EXCEPT ![b].st = "expired"]
    /\ UNCHANGED <<data, views, keyOn, proc>>

ConfirmBulk(p, b) ==
    /\ proc[p].pc = "idle" /\ batch[b].st # "none"
    /\ AuthorizedActor(p, [pc |-> "c_batch", b |-> b, held |-> {},
                           fresh |-> batch[b].st # "expired",
                           todo |-> {}, item |-> batch[b].item])
    /\ UNCHANGED <<data, batch, views, keyOn>>

\* A confirmed batch is answered from its row; an expired or purged one is gone.
LockBatch(p) ==
    LET b == proc[p].b  st == batch[b].st IN
    /\ At(p, "c_batch")
    /\ IF st \in {"purged", "confirmed"} \/ (st = "expired" /\ ~proc[p].fresh)
         THEN End(p)
         ELSE Becomes(p, [proc[p] EXCEPT !.pc = "c_item", !.held = @ \cup {BatchRow(b)},
                            !.item = batch[b].item,
                            !.todo = {j \in Job : batch[b].item[j].in}])
    /\ UNCHANGED <<data, batch, views, keyOn>>

Outcome(item, want, j) ==
    CASE ~There(j) -> "unavailable"
      [] There(j) /\ (job[j].stamp # item.stamp \/ job[j].on # item.on) -> "conflict"
      [] There(j) /\ job[j].stamp = item.stamp /\ job[j].on = item.on ->
            IF job[j].on = want THEN "unchanged" ELSE "applied"

\* Mutant: a job is compared without its lock.
ItemUnlocked(p) ==
    LET r == proc[p]  j == NextItem(r.b, r.todo) IN
    /\ At(p, "c_item") /\ r.todo # {}
    /\ Becomes(p, [r EXCEPT !.todo = @ \ {j},
                            !.item[j].res = Outcome(r.item[j], batch[r.b].want, j)])
    /\ UNCHANGED <<data, batch, views, keyOn>>

\* SELECT ... FOR UPDATE, the comparison with the preview, the UPDATE.
ConfirmItem(p) ==
    LET r == proc[p]  j == NextItem(r.b, r.todo) IN
    /\ At(p, "c_item") /\ r.todo # {}
    /\ Becomes(p, [r EXCEPT !.todo = @ \ {j},
                            !.held = @ \cup (IF There(j) THEN {JobRow(j), JobId(j)} ELSE {}),
                            !.item[j].res = Outcome(r.item[j], batch[r.b].want, j)])
    /\ UNCHANGED <<data, batch, views, keyOn>>

\* An error on one item (a deadlock victim, a lock timeout) rolls back to its
\* savepoint, whether or not the row was reached.
ItemFails(p) ==
    LET r == proc[p]  j == NextItem(r.b, r.todo) IN
    /\ r.pc = "c_item" /\ r.todo # {}
    /\ Becomes(p, [r EXCEPT !.todo = @ \ {j}, !.item[j].res = "failed"])
    /\ UNCHANGED <<data, batch, views, keyOn>>

CommitConfirm(p) ==
    LET r == proc[p]
        done == {j \in Job : r.item[j].res = "applied"}
        want == batch[r.b].want IN
    /\ At(p, "c_item") /\ r.todo = {} /\ clock < MaxClock
    /\ batch' = [batch EXCEPT ![r.b].st = "confirmed", ![r.b].item = r.item]
    /\ clock' = IF done = {} THEN clock ELSE clock + 1
    /\ job' = [j \in Job |-> IF j \in done
                 THEN [job[j] EXCEPT !.on = want, !.stamp = clock + 1] ELSE job[j]]
    /\ fleet' = [j \in Job |-> IF j \in done THEN want ELSE fleet[j]]
    /\ End(p)
    /\ UNCHANGED <<sched, runs, views, keyOn>>

\* DELETE of the key waits for its sharers; its views go with it.
DeleteKey ==
    /\ keyOn /\ Free(KeyShare)
    /\ keyOn' = FALSE
    /\ views' = {}
    /\ UNCHANGED <<data, batch, proc>>

\* The request ends: the transaction is rolled back by its timeout, a lost
\* connection or the server's choice of a deadlock victim.
Abort(p) ==
    /\ proc[p].pc # "idle"
    /\ End(p)
    /\ UNCHANGED <<data, batch, views, keyOn>>

Bulk(p) ==
    \/ RequestPreview(p)
    \/ LockBatches(p) \/ CleanBatches(p) \/ PreviewItem(p) \/ CommitPreview(p)
    \/ \E b \in Batch : ConfirmBulk(p, b)
    \/ LockBatch(p) \/ ConfirmItem(p) \/ ItemFails(p) \/ CommitConfirm(p)

ViewsOf(p) ==
    \/ RequestSaveView(p)
    \/ LockViews(p) \/ CountViews(p) \/ CommitView(p)

JobsOf(p) ==
    \/ \E j \in Job : RestUpdate(p, j) \/ ToolUpdate(p, j) \/ EditPage(p, j)
    \/ EditJob(p) \/ EditGone(p)
    \/ UpdateSchedule(p) \/ UpdateJobRow(p) \/ UpdateJobAggregate(p)
    \/ \E j \in Job : DeleteJob(p, j) \/ TriggerNow(p, j)
    \/ DeleteRow(p) \/ DeleteEnds(p) \/ InsertExecution(p)

Statements ==
    \/ CreateJob
    \/ \E j \in Job : PauseJob(j) \/ ResumeJob(j)
    \/ \E v \in Views : DeleteView(v)
    \/ \E b \in Batch : Expire(b)
    \/ DeleteKey

Next ==
    \/ \E p \in Proc : Bulk(p) \/ ViewsOf(p) \/ JobsOf(p) \/ Abort(p)
    \/ Statements

Spec == Init /\ [][Next]_vars
-----------------------------------------------------------------------------
Result == {"none", "unavailable", "failed", "conflict", "unchanged", "applied"}
Item == [in : BOOLEAN, on : BOOLEAN, stamp : Stamp, res : Result]

\* The rows have their columns' types; a lock other than the share lock on the
\* key has one holder, and only a request in a transaction holds any.
TypeOK ==
    /\ job \in [Job -> [st : {"new", "there", "gone"}, on : BOOLEAN, name : Stamp,
                        stamp : Stamp, by : Stamp]]
    /\ sched \in [Job -> [cron : Stamp, by : Stamp]]
    /\ runs \subseteq Job /\ views \subseteq Views /\ keyOn \in BOOLEAN
    /\ batch \in [Batch -> [st : {"none", "pending", "expired", "confirmed", "purged"},
                            want : BOOLEAN, item : [Job -> Item]]]
    /\ clock \in Stamp /\ fleet \in [Job -> BOOLEAN]
    /\ \A p, q \in Proc : p # q => proc[p].held \cap proc[q].held \subseteq {KeyShare}
    /\ \A p \in Proc : proc[p].pc \in {"idle", "form"} => proc[p].held = {}

\* A confirmation's record is what happened: an applied job was still as the
\* preview showed it and now has the wanted state, an unchanged one had it
\* already, a job recorded as in conflict had been written since the preview,
\* and an unavailable one is gone.  The comparison is made while other requests
\* pause, edit and delete the same jobs (ConfirmBulk, "FOR UPDATE").  The record
\* is kept: no later confirmation, expiry or clean-up changes or removes it
\* (PreviewBulk's DELETE and ConfirmBulk's early return).
RecordIsTrue ==
    [][/\ \A b \in Batch : (batch[b].st # "confirmed" /\ batch'[b].st = "confirmed") =>
         \A j \in Job : LET i == batch'[b].item[j]
                            same == job[j].st = "there" /\ job[j].stamp = i.stamp IN
            /\ i.in = batch[b].item[j].in
            /\ i.res = "applied" => same /\ job'[j].on = batch[b].want /\ job[j].on # batch[b].want
            /\ i.res = "unchanged" => same /\ job[j].on = batch[b].want
            /\ i.res = "conflict" => job[j].st = "there" /\ ~same
            /\ i.res = "unavailable" => job[j].st = "gone"
            /\ i.in => i.res # "none"
       /\ \A b \in Batch : batch[b].st = "confirmed" => batch'[b] = batch[b]]_vars

\* The rows of a job fit together, whatever requests read before they write.  It
\* is enabled exactly if the last pause, resume or confirmation that touched it
\* enabled it: no edit brings an older state back (UpdateJobAggregate, "Fleet
\* state is changed only by pause/resume").  Its job row and its schedule row
\* come from the same edit.  And no execution outlives it: a manual run that
\* checked the job before its deletion is refused or fails the deletion
\* (TriggerNow, DeleteJob).
JobIsWhole ==
    /\ \A j \in Job : job[j].on = fleet[j]
    /\ \A j \in Job : There(j) => job[j].by = sched[j].by
    /\ \A j \in runs : There(j)

\* The quotas of saved views and of pending previews hold although every
\* request counts before it inserts (the advisory locks of SaveView and
\* PreviewBulk).  An expired preview counts until it is cleaned up.
QuotasKept ==
    /\ Cardinality(views) <= MaxViews
    /\ Cardinality(Unconfirmed) <= MaxPending

\* Once an API key is deleted nothing is committed on its behalf, although
\* requests checked it before it was deleted (authorizedActor, "Lock against
\* revocation/deletion while a mutation is committing").
DeletedKeyIsInert ==
    [][~keyOn => /\ views' \subseteq views
                 /\ \A b \in Batch : batch'[b].st = batch[b].st
                                       \/ (batch[b].st = "pending" /\ batch'[b].st = "expired")]_vars

\* Requests wait for each other in a circle only when one of them deletes the
\* job the other edits or deletes: an edit locks the schedule and then the job,
\* a deletion both in no given order.  Overlapping confirmations never do
\* (PreviewBulk, "Sort lock order to avoid deadlocks between overlapping
\* selections").
DeadlockOnlyOnDelete ==
    \A p, q \in Proc : (q \in BlockedBy(p) /\ p \in BlockedBy(q)) =>
        /\ "d_second" \in {proc[p].pc, proc[q].pc}
        /\ {proc[p].pc, proc[q].pc} \subseteq {"u_job", "d_second"}
        /\ proc[p].j = proc[q].j
=============================================================================
