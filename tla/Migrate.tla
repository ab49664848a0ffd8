------------------------------ MODULE Migrate -------------------------------
(***************************************************************************)
(* Schema migrations: instances that start at once, each running the       *)
(* pending migrations under an advisory lock, on a database that is fresh, *)
(* built by hand before the runner tracked it, or half done; crashes, lost *)
(* sessions and lost answers; and an operator who applies by hand what the *)
(* runner refuses, as schema/README.md asks, while no runner has the lock. *)
(***************************************************************************)
EXTENDS Integers, FiniteSets

CONSTANTS Runner,       \* processes that run migrations
          NoRunner,
          NumVersions,  \* embedded migrations
          Manual,       \* manualOnExisting
          Repeatable,   \* migrations whose SQL can run twice without an error
          MaxStarts     \* bound: runs of the migrations

ASSUME MigrateAssumption == NumVersions \in Nat \ {0} /\ NoRunner \notin Runner

Version == 1..NumVersions

VARIABLES schema,      \* migrations whose objects are in the database
          tracking,    \* the tracking table exists
          rec,         \* its rows
          lock,        \* whose session has the advisory lock
          sess,        \* session of each runner
          mpc,         \* where each runner is
          pending,     \* its pending migrations
          executed,    \* how often the SQL of each migration was committed
          automatic,   \* migrations the runner executed on a database built by hand
          byHand,      \* the database was built by hand
          starts

dbVars == <<schema, tracking, rec, executed, automatic>>
migrateVars == <<dbVars, lock, sess, mpc, pending, byHand, starts>>

Recorded == {v \in Version : rec[v] # "none"}
Smallest(set) == CHOOSE v \in set : \A w \in set : v <= w

MigrateInit ==
    /\ \/ schema = {} /\ byHand = FALSE
       \/ schema \in SUBSET Version \ {{}} /\ 1 \in schema /\ byHand = TRUE
    /\ tracking = FALSE /\ rec = [v \in Version |-> "none"] /\ lock = NoRunner
    /\ sess = [p \in Runner |-> "none"] /\ mpc = [p \in Runner |-> "idle"]
    /\ pending = [p \in Runner |-> {}]
    /\ executed = [v \in Version |-> IF v \in schema THEN 1 ELSE 0]
    /\ automatic = {} /\ starts = 0

Statement(p, from, to) == mpc[p] = from /\ sess[p] = "open" /\ mpc' = [mpc EXCEPT ![p] = to]
-----------------------------------------------------------------------------
(* The lock.                                                               *)

OpenConn(p) ==
    /\ mpc[p] = "idle" /\ sess[p] \in {"none", "pooled"} /\ starts < MaxStarts
    /\ mpc' = [mpc EXCEPT ![p] = "locking"] /\ sess' = [sess EXCEPT ![p] = "open"]
    /\ starts' = starts + 1
    /\ UNCHANGED <<dbVars, lock, pending, byHand>>

AcquireLock(p) ==
    /\ Statement(p, "locking", "table")
    /\ lock \in {NoRunner, p} /\ lock' = p
    /\ UNCHANGED <<dbVars, sess, pending, byHand, starts>>

\* Not granted until the deadline: the session goes back to the pool.
LockTimeout(p) ==
    /\ Statement(p, "locking", "idle") /\ lock \notin {NoRunner, p}
    /\ sess' = [sess EXCEPT ![p] = "pooled"]
    /\ UNCHANGED <<dbVars, lock, pending, byHand, starts>>

\* The answer is lost, the lock granted or not: the session is discarded.
LockError(p) ==
    /\ mpc[p] = "locking" /\ mpc' = [mpc EXCEPT ![p] = "idle"]
    /\ sess' = [sess EXCEPT ![p] = IF @ = "open" THEN "discarded" ELSE "none"]
    /\ lock' \in {lock} \cup (IF lock = NoRunner /\ sess[p] = "open" THEN {p} ELSE {})
    /\ UNCHANGED <<dbVars, pending, byHand, starts>>

ReleaseLock(p) ==
    /\ mpc[p] \in {"release", "failing"} /\ sess[p] = "open"
    /\ mpc' = [mpc EXCEPT ![p] = IF @ = "release" THEN "complete" ELSE "idle"]
    /\ lock' = NoRunner /\ sess' = [sess EXCEPT ![p] = "pooled"]
    /\ UNCHANGED <<dbVars, pending, byHand, starts>>

\* Whatever became of the unlock, the session is discarded.
ReleaseFails(p) ==
    /\ mpc[p] \in {"release", "failing"}
    /\ mpc' = [mpc EXCEPT ![p] = IF @ = "release" THEN "complete" ELSE "idle"]
    /\ sess' = [sess EXCEPT ![p] = IF @ = "open" THEN "discarded" ELSE "none"]
    /\ UNCHANGED <<dbVars, lock, pending, byHand, starts>>
-----------------------------------------------------------------------------
(* Run, under the lock.                                                    *)

\* CREATE TABLE IF NOT EXISTS, then the rows are read.
CreateTracking(p) ==
    /\ Statement(p, "table", IF Recorded = {} THEN "baseline" ELSE "pending")
    /\ tracking' = TRUE
    /\ UNCHANGED <<schema, rec, executed, automatic, lock, sess, pending, byHand, starts>>

\* The leading run of a set of migrations whose objects are present.
Present(set) == {v \in set : \A w \in set : w <= v => w \in schema}
Gap(set) == (set \cap schema) # Present(set)

RecordBaselined(set) ==
    /\ rec' = [v \in Version |-> IF v \in set THEN "baselined" ELSE rec[v]]
    /\ UNCHANGED <<schema, tracking, executed, automatic>>

\* A database without rows: if its jobs table is there, what is present is recorded.
Baseline(p) ==
    LET found == IF 1 \in schema THEN Present(Version) ELSE {} IN
    /\ Statement(p, "baseline", IF found # {} /\ Gap(Version) THEN "failing" ELSE "pending")
    /\ IF found # {} /\ Gap(Version) THEN UNCHANGED dbVars ELSE RecordBaselined(found)
    /\ UNCHANGED <<lock, sess, pending, byHand, starts>>

\* Applied by hand since: recorded too.  A manual migration among the rest refuses the run.
Decide(p) ==
    LET all == Version \ Recorded
        baselined == \E v \in Version : rec[v] = "baselined"
        found == IF baselined THEN Present(all) ELSE {}
        rest == all \ found
        gap == baselined /\ Gap(all) IN
    /\ Statement(p, "pending", IF gap \/ (baselined /\ rest \cap Manual # {}) THEN "failing"
                          ELSE "applying")
    /\ IF gap THEN UNCHANGED dbVars ELSE RecordBaselined(found)
    /\ pending' = [pending EXCEPT ![p] = rest]
    /\ UNCHANGED <<lock, sess, byHand, starts>>

\* The transaction of one migration commits: its SQL and its row.
Execute(v) ==
    /\ schema' = schema \cup {v} /\ executed' = [executed EXCEPT ![v] = @ + 1]
    /\ automatic' = automatic \cup (IF byHand THEN {v} ELSE {})

Applies(v) == v \notin schema \/ v \in Repeatable

\* Mutant: a migration is recorded in a transaction of its own.
ApplyThenRecord(p) ==
    /\ pending[p] # {} /\ Statement(p, "applying", "applying")
    /\ LET v == Smallest(pending[p]) IN
       /\ Applies(v) /\ Execute(v) /\ rec' \in {rec, [rec EXCEPT ![v] = "applied"]}
       /\ pending' = [pending EXCEPT ![p] = IF rec' = rec THEN @ ELSE @ \ {v}]
    /\ UNCHANGED <<tracking, lock, sess, byHand, starts>>

Apply(p) ==
    /\ pending[p] # {}
    /\ Statement(p, "applying", "applying")
    /\ LET v == Smallest(pending[p]) IN
       /\ Applies(v) /\ rec[v] = "none"
       /\ Execute(v) /\ rec' = [rec EXCEPT ![v] = "applied"]
       /\ pending' = [pending EXCEPT ![p] = @ \ {v}]
    /\ UNCHANGED <<tracking, lock, sess, byHand, starts>>

\* It commits, and the answer is lost.
ApplyUnanswered(p) ==
    /\ pending[p] # {}
    /\ Statement(p, "applying", "failing")
    /\ LET v == Smallest(pending[p]) IN
       /\ Applies(v) /\ rec[v] = "none"
       /\ Execute(v) /\ rec' = [rec EXCEPT ![v] = "applied"]
    /\ UNCHANGED <<tracking, lock, sess, pending, byHand, starts>>

AllApplied(p) ==
    /\ pending[p] = {}
    /\ Statement(p, "applying", "release")
    /\ UNCHANGED <<dbVars, lock, sess, pending, byHand, starts>>

\* A statement fails, or runs on a session that is gone: the run is over.
StatementError(p) ==
    /\ mpc[p] \in {"table", "baseline", "pending", "applying"}
    /\ mpc' = [mpc EXCEPT ![p] = "failing"]
    /\ UNCHANGED <<dbVars, lock, sess, pending, byHand, starts>>
-----------------------------------------------------------------------------
(* Around the runners.                                                     *)

\* The server ends a session that a runner uses, or one that nobody does.
EndSession(p) ==
    /\ sess[p] \in {"open", "discarded", "pooled"}
    /\ sess' = [sess EXCEPT ![p] = IF @ = "open" THEN "lost" ELSE "none"]
    /\ lock' = IF lock = p THEN NoRunner ELSE lock
    /\ UNCHANGED <<dbVars, mpc, pending, byHand, starts>>

CrashMigrating(p) ==
    /\ mpc[p] # "idle" /\ mpc' = [mpc EXCEPT ![p] = "idle"]
    /\ sess' = [sess EXCEPT ![p] = IF @ = "lost" THEN "none" ELSE "discarded"]
    /\ UNCHANGED <<dbVars, lock, pending, byHand, starts>>

\* The operator applies the next missing migration of a database built by hand.
ApplyByHand ==
    /\ lock = NoRunner /\ Version \ schema # {}
    /\ Recorded = {} \/ byHand
    /\ LET v == Smallest(Version \ schema) IN
       schema' = schema \cup {v} /\ executed' = [executed EXCEPT ![v] = @ + 1]
    /\ byHand' = TRUE
    /\ UNCHANGED <<tracking, rec, automatic, lock, sess, mpc, pending, starts>>

MigrateStep(p) ==
    \/ OpenConn(p) \/ AcquireLock(p) \/ LockTimeout(p) \/ LockError(p)
    \/ CreateTracking(p) \/ Baseline(p) \/ Decide(p)
    \/ Apply(p) \/ ApplyUnanswered(p) \/ AllApplied(p) \/ StatementError(p)
    \/ ReleaseLock(p) \/ ReleaseFails(p)

MigrateNext ==
    \/ \E p \in Runner : MigrateStep(p) \/ EndSession(p) \/ CrashMigrating(p)
    \/ ApplyByHand

MigrateSpec == MigrateInit /\ [][MigrateNext]_migrateVars
-----------------------------------------------------------------------------
(* Properties.                                                             *)

Status(v) == IF tracking /\ rec[v] # "none" THEN rec[v] ELSE "pending"

\* Every variable has its type; rows are in the tracking table (migrate.Run).
MigrateTypeOK ==
    /\ schema \subseteq Version /\ rec \in [Version -> {"none", "applied", "baselined"}]
    /\ {tracking, byHand} \subseteq BOOLEAN /\ (Recorded # {} => tracking)
    /\ lock \in Runner \cup {NoRunner}
    /\ sess \in [Runner -> {"none", "open", "lost", "pooled", "discarded"}]
    /\ mpc \in [Runner -> {"idle", "locking", "table", "baseline", "pending", "applying", "release",
                           "failing", "complete"}]

\* The schema and its record agree, whatever crashes, whoever loses a session or
\* an answer, and however many start (Run, baseline, apply, acquireLock).
\* - No migration runs twice, by runner or by hand.
\* - What is recorded is there, and is a prefix of the migrations: a later run
\*   never builds on a migration that is missing.
\* - "Migration 011 is never applied automatically to an existing install": not by
\*   the run that refuses, nor by a later one.
\* - A run that reports success leaves every migration in the database and
\*   recorded, also when other runners failed half way.
\* - No session goes back to the pool with the lock, which would keep every
\*   later run out.
MigrationsAreSafe ==
    /\ \A v \in Version : executed[v] <= 1
    /\ Recorded \subseteq schema /\ \A v \in Recorded : 1..v \subseteq Recorded
    /\ automatic \cap Manual = {}
    /\ (\E p \in Runner : mpc[p] \in {"release", "complete"}) =>
          schema = Version /\ \A v \in Version : Status(v) # "pending"
    /\ \A p \in Runner : sess[p] = "pooled" => lock # p
=============================================================================
