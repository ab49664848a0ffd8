------------------------------ MODULE MCControl ------------------------------
(***************************************************************************)
(* JobControl, Migrate and Startup for TLC.  A behaviour keeps to one        *)
(* subject: saved views; the jobs themselves; previews and their quota,      *)
(* beside pauses; confirmations of two stored previews beside pauses, edits  *)
(* of the first job and deletion of the last; the migrations of the schema;  *)
(* or the start and the stop of a process.                                   *)
(***************************************************************************)
EXTENDS JobControl, Migrate, Startup, TLC

VARIABLE subject

AllThere == \A j \in Job : There(j)
Previewed(want) ==
    [st |-> "pending", want |-> want,
     item |-> [j \in Job |-> [NoItem EXCEPT !.in = TRUE, !.on = TRUE]]]
\* Two previews of all jobs as they were created: to pause them, and to pause
\* or resume them.
Stored ==
    \E want \in BOOLEAN :
       batch = [b \in Batch |-> CASE b = 1 -> Previewed(FALSE)
                                  [] b = 2 -> Previewed(want)
                                  [] OTHER -> NoBatch]

NoProcess == env = <<>> /\ supported = FALSE /\ AtLoad
NoSchema == MigrateInit /\ schema = {}
AllCreated == Init /\ AllThere

ViewsInit == subject = "views" /\ AllCreated /\ NoSchema /\ NoProcess
JobsInit == subject = "jobs" /\ Init /\ There(1) /\ NoSchema /\ NoProcess
PreviewInit == subject = "preview" /\ AllCreated /\ NoSchema /\ NoProcess
ConfirmInit ==
    /\ subject = "confirm" /\ Stored /\ NoSchema /\ NoProcess
    /\ job = [j \in Job |-> [st |-> "there", on |-> TRUE, name |-> 0, stamp |-> 0, by |-> 0]]
    /\ sched = [j \in Job |-> [cron |-> 0, by |-> 0]]
    /\ runs = {} /\ views = {} /\ keyOn = TRUE
    /\ proc = [p \in Proc |-> Idle]
    /\ clock = 0 /\ fleet = [j \in Job |-> TRUE]
SchemaInit == subject = "schema" /\ AllCreated /\ MigrateInit /\ NoProcess
ProcessInit == subject = "process" /\ AllCreated /\ NoSchema /\ StartInit

MCInit == ViewsInit \/ JobsInit \/ PreviewInit \/ ConfirmInit \/ SchemaInit \/ ProcessInit

\* Settings that are varied together.
SettingGroups ==
    {{"DISPATCH_MODE", "DB_MAX_OPEN_CONNS", "DB_POLL_INTERVAL", "LEADER_RETRY_INTERVAL",
      "LEADER_HEARTBEAT_INTERVAL", "DISPATCHER_WORKERS"},
     {"TICK_INTERVAL", "DB_OP_TIMEOUT", "MIGRATE_ON_START", "MIGRATE_LOCK_TIMEOUT", "DATABASE_URL",
      "REDIS_ADDR"},
     {"RECONCILE_ENABLED", "RECONCILE_INTERVAL", "RECONCILE_THRESHOLD",
      "RECONCILE_REQUEUE_THRESHOLD", "CRONLITE_ENV"},
     {"EVENTBUS_BUFFER_SIZE", "RECONCILE_BATCH_SIZE", "MAX_FIRES_PER_TICK", "RATE_LIMIT",
      "NAMESPACE_RATE_LIMIT"},
     {"CIRCUIT_BREAKER_THRESHOLD", "CIRCUIT_BREAKER_COOLDOWN"},
     {"CRONLITE_ENV", "DISPATCH_MODE", "METRICS_ENABLED", "API_KEY", "ADMIN_ENABLED",
      "ADMIN_COOKIE_SECURE", "ADMIN_SESSION_TTL", "ADMIN_SESSION_ABSOLUTE_TTL"},
     {"WEBHOOK_ALLOW_TAILNET", "WEBHOOK_TAILNET_HOSTS", "TS_LISTEN", "TS_STATE_DIR", "TS_HOSTNAME",
      "TS_DISABLE_PUBLIC_LISTENER", "TS_IDENTITY_LOGIN", "ADMIN_ENABLED",
      "WEBHOOK_ALLOWED_PRIVATE_SUFFIXES"}}

Previews(p) ==
    \/ PreviewBulk(p, FALSE, Job)
    \/ LockBatches(p) \/ CleanBatches(p) \/ PreviewItem(p) \/ CommitPreview(p)
    \/ ConfirmBulk(p, 1)
    \/ LockBatch(p) \/ ConfirmItem(p) \/ CommitConfirm(p)

Confirmations(p) ==
    \/ \E b \in 1 .. 2 : ConfirmBulk(p, b)
    \/ LockBatch(p) \/ ConfirmItem(p) \/ ItemFails(p) \/ CommitConfirm(p)
    \/ proc[p].pc = "idle" /\ UpdateJob(p, 1, {"name"}, [f \in Field |-> clock + 1])
    \/ DeleteJob(p, NumJobs)
    \/ UpdateSchedule(p) \/ UpdateJobRow(p) \/ UpdateJobAggregate(p)
    \/ DeleteRow(p) \/ DeleteEnds(p)

Pauses == \E j \in Job : PauseJob(j) \/ ResumeJob(j)
Expiry == Expire(1)

ControlNext ==
    /\ \/ subject = "views"   /\ ((\E p \in Proc : ViewsOf(p)) \/ (\E v \in Views : DeleteView(v)))
       \/ subject = "jobs"    /\ ((\E p \in Proc : JobsOf(p)) \/ CreateJob)
       \/ subject = "preview" /\ ((\E p \in Proc : Previews(p)) \/ Expiry)
       \/ subject = "confirm" /\ ((\E p \in Proc : Confirmations(p)) \/ Expiry)
       \/ subject \in {"jobs", "preview", "confirm"} /\ Pauses
       \/ subject \in {"views", "preview", "confirm"} /\ DeleteKey
       \/ \E p \in Proc : Abort(p)
    /\ UNCHANGED <<subject, migrateVars, startVars>>

SchemaNext == subject = "schema" /\ MigrateNext /\ UNCHANGED <<subject, vars, startVars>>
ProcessNext == subject = "process" /\ StartNext /\ UNCHANGED <<subject, vars, migrateVars>>

MCNext == ControlNext \/ SchemaNext \/ ProcessNext

MCSpec == MCInit /\ [][MCNext]_<<vars, migrateVars, startVars, subject>>

Symmetry == Permutations(Proc) \cup Permutations(Views)
=============================================================================
