--------------------------- MODULE LeaderElection ---------------------------
(***************************************************************************)
(* DISPATCH_MODE=db: internal/leaderelection and the leaderRuntime of      *)
(* cmd/cronlite/main.go, for the instances that share one advisory lock.   *)
(* A lock belongs to a PostgreSQL session, and a session outlives what its *)
(* client knows of it: the server may drop one the client believes in, and *)
(* may run a query, and keep a lock, for a client that has gone.           *)
(***************************************************************************)
EXTENDS Integers, FiniteSets

CONSTANTS
    Inst,              \* the instances
    Sess,              \* sessions that can exist at one time
    NoSess,            \* no session
    Duty               \* scheduler and, with RECONCILE_ENABLED, reconciler

ASSUME NoSessAssumption == NoSess \notin Sess
ASSUME DutyAssumption == Duty # {}

VARIABLES
    lock,              \* server: the session that holds the lock
    open,              \* server: the sessions that are alive
    query,             \* pg_try_advisory_lock on a session: sent, or its answer
    pc,                \* where an instance is in Elector.Run
    conn,              \* its dedicated connection
    pool,              \* sessions it returned to its connection pool
    halted,            \* the context given to Run is cancelled
    elected,           \* the goroutine that calls onElected
    running,           \* leaderRuntime.running
    duties             \* the duties whose goroutines have not returned

server == <<lock, open, query>>
runtime == <<elected, running, duties>>
vars == <<server, pc, conn, pool, halted, runtime>>

\* runOnce has the lock and has not given its session up.
Leading == {"holding", "demoting", "stopping"}

TypeOK ==
    /\ lock \in open \cup {NoSess}
    /\ open \subseteq Sess
    /\ query \in [Sess -> {"sent", "yes", "no"}]
    /\ pc \in [Inst -> {"retry", "querying", "exited"} \cup Leading]
    /\ conn \in [Inst -> Sess \cup {NoSess}]
    /\ pool \in [Inst -> SUBSET Sess]
    /\ halted \in [Inst -> BOOLEAN]
    /\ elected \in [Inst -> BOOLEAN]
    /\ running \in [Inst -> BOOLEAN]
    /\ duties \in [Inst -> SUBSET Duty]

Init ==
    /\ lock = NoSess /\ open = {}
    /\ query = [s \in Sess |-> "no"]
    /\ pc = [i \in Inst |-> "retry"]
    /\ conn = [i \in Inst |-> NoSess]
    /\ pool = [i \in Inst |-> {}]
    /\ halted = [i \in Inst |-> FALSE]
    /\ elected = [i \in Inst |-> FALSE]
    /\ running = [i \in Inst |-> FALSE]
    /\ duties = [i \in Inst |-> {}]

-----------------------------------------------------------------------------
(* The server. *)

TryLock(s) ==
    /\ s \in open /\ query[s] = "sent"
    /\ query' = [query EXCEPT ![s] = IF lock \in {NoSess, s} THEN "yes" ELSE "no"]
    /\ lock' = IF lock = NoSess THEN s ELSE lock
    /\ UNCHANGED <<open, pc, conn, pool, halted, runtime>>

\* The session ends: the client closed it, its process died, or the connection
\* was lost (TCP keepalive).
EndSession(s) ==
    /\ s \in open
    /\ open' = open \ {s}
    /\ lock' = IF lock = s THEN NoSess ELSE lock
    /\ UNCHANGED <<query, pc, conn, pool, halted, runtime>>

-----------------------------------------------------------------------------
(* Elector.Run and runOnce. *)

Known(s) == \E i \in Inst : s = conn[i] \/ s \in pool[i]

\* db.Conn: a pooled session or, when the pool is empty, a new one; then the
\* query is sent.
Connect(i, s) ==
    /\ pc[i] = "retry" /\ ~halted[i]
    /\ s \in pool[i] \/ (pool[i] = {} /\ s \notin open /\ ~Known(s))
    /\ open' = IF s \in pool[i] THEN open ELSE open \cup {s}
    /\ query' = [query EXCEPT ![s] = "sent"]
    /\ conn' = [conn EXCEPT ![i] = s]
    /\ pool' = [pool EXCEPT ![i] = @ \ {s}]
    /\ pc' = [pc EXCEPT ![i] = "querying"]
    /\ UNCHANGED <<lock, halted, runtime>>

\* Not acquired: the session goes back to the pool.
NotAcquired(i) ==
    /\ pc[i] = "querying" /\ query[conn[i]] = "no"
    /\ conn' = [conn EXCEPT ![i] = NoSess]
    /\ pool' = [pool EXCEPT ![i] = @ \cup {conn[i]}]
    /\ pc' = [pc EXCEPT ![i] = "retry"]
    /\ UNCHANGED <<server, halted, runtime>>

\* runOnce returns and discards the session (driver.ErrBadConn).
Discard(i) ==
    /\ conn' = [conn EXCEPT ![i] = NoSess]
    /\ pc' = [pc EXCEPT ![i] = "retry"]
    /\ UNCHANGED <<server, pool, halted>>

\* The answer is lost, late or cancelled: the server may have run the query, or
\* may still run it.
QueryFails(i) ==
    /\ pc[i] = "querying"
    /\ Discard(i)
    /\ UNCHANGED runtime

Acquired(i) ==
    /\ pc[i] = "querying" /\ query[conn[i]] = "yes"
    /\ pc' = [pc EXCEPT ![i] = "holding"]
    /\ elected' = [elected EXCEPT ![i] = TRUE]
    /\ UNCHANGED <<server, conn, pool, halted, running, duties>>

\* leaderCtx, and the contexts the duties run under.
Cancelled(i) == halted[i] \/ pc[i] # "holding"

\* Mutant: electedDone is closed only when the duties did start.
StartNeverDone(i) ==
    LET starts == ~running[i] /\ ~Cancelled(i) IN
    /\ elected[i]
    /\ elected' = [elected EXCEPT ![i] = ~starts]
    /\ running' = [running EXCEPT ![i] = @ \/ starts]
    /\ duties' = [duties EXCEPT ![i] = IF starts THEN @ \cup Duty ELSE @]
    /\ UNCHANGED <<server, pc, conn, pool, halted>>

\* The goroutine of onElected runs leaderRuntime.start.
Start(i) ==
    LET starts == ~running[i] /\ ~Cancelled(i) IN
    /\ elected[i]
    /\ elected' = [elected EXCEPT ![i] = FALSE]
    /\ running' = [running EXCEPT ![i] = @ \/ starts]
    /\ duties' = [duties EXCEPT ![i] = IF starts THEN @ \cup Duty ELSE @]
    /\ UNCHANGED <<server, pc, conn, pool, halted>>

\* holdLock returns: shutdown, or a ping that failed.  Nothing else tells the
\* leader that its session is gone.
StopHolding(i) ==
    /\ pc[i] = "holding"
    /\ pc' = [pc EXCEPT ![i] = "demoting"]
    /\ UNCHANGED <<server, conn, pool, halted, runtime>>

DutyReturns(i, d) ==
    /\ d \in duties[i] /\ Cancelled(i)
    /\ duties' = [duties EXCEPT ![i] = @ \ {d}]
    /\ UNCHANGED <<server, pc, conn, pool, halted, elected, running>>

\* <-electedDone; then onDemoted, which has nothing to stop.
DemoteIdle(i) ==
    /\ pc[i] = "demoting" /\ ~elected[i] /\ ~running[i]
    /\ Discard(i)
    /\ UNCHANGED runtime

\* <-electedDone; then onDemoted is in leaderRuntime.stop.
Stop(i) ==
    /\ pc[i] = "demoting" /\ ~elected[i] /\ running[i]
    /\ pc' = [pc EXCEPT ![i] = "stopping"]
    /\ UNCHANGED <<server, conn, pool, halted, runtime>>

\* Mutant: stop does not wait for the duties.
StoppedNoWait(i) ==
    /\ pc[i] = "stopping"
    /\ running' = [running EXCEPT ![i] = FALSE]
    /\ Discard(i)
    /\ UNCHANGED <<elected, duties>>

\* stop's wg.Wait is over.
Stopped(i) ==
    /\ pc[i] = "stopping" /\ duties[i] = {}
    /\ running' = [running EXCEPT ![i] = FALSE]
    /\ Discard(i)
    /\ UNCHANGED <<elected, duties>>

Halt(i) ==
    /\ ~halted[i] /\ pc[i] # "exited"
    /\ halted' = [halted EXCEPT ![i] = TRUE]
    /\ UNCHANGED <<server, pc, conn, pool, runtime>>

\* The process ends; the server finds out later.
EndProcess(i) ==
    /\ pc' = [pc EXCEPT ![i] = "exited"]
    /\ conn' = [conn EXCEPT ![i] = NoSess]
    /\ pool' = [pool EXCEPT ![i] = {}]
    /\ elected' = [elected EXCEPT ![i] = FALSE]
    /\ running' = [running EXCEPT ![i] = FALSE]
    /\ duties' = [duties EXCEPT ![i] = {}]
    /\ UNCHANGED <<server, halted>>

\* Run returns at ctx.Err() and the process exits; or it crashes.
Exit(i) == pc[i] = "retry" /\ halted[i] /\ EndProcess(i)
Crash(i) == pc[i] # "exited" /\ EndProcess(i)

Restart(i) ==
    /\ pc[i] = "exited"
    /\ pc' = [pc EXCEPT ![i] = "retry"]
    /\ halted' = [halted EXCEPT ![i] = FALSE]
    /\ UNCHANGED <<server, conn, pool, runtime>>

Elect(i) ==
    \/ \E s \in Sess : Connect(i, s)
    \/ NotAcquired(i) \/ Acquired(i) \/ Start(i)

Demote(i) ==
    \/ \E d \in Duty : DutyReturns(i, d)
    \/ DemoteIdle(i) \/ Stop(i) \/ Stopped(i) \/ Exit(i) \/ Restart(i)

Next ==
    \/ \E s \in Sess : TryLock(s) \/ EndSession(s)
    \/ \E i \in Inst :
        \/ Elect(i) \/ Demote(i)
        \/ QueryFails(i) \/ StopHolding(i) \/ Halt(i) \/ Crash(i)

Spec == Init /\ [][Next]_vars

-----------------------------------------------------------------------------
\* The server ended the session that the instance still takes for its own.
Dropped(i) == conn[i] \in Sess \ open

\* Two instances run the leader's duties at the same time only while the server
\* has dropped the session of one of them and that one has not found out: no
\* order of election, slow start, demotion, shutdown and restart makes two
\* leaders by itself (runOnce, leaderRuntime).
OverlapOnlyAfterConnLoss ==
    \A i, j \in Inst :
        i # j /\ duties[i] # {} /\ duties[j] # {} => Dropped(i) \/ Dropped(j)

\* The lock is never held by a session that sits in a connection pool, where
\* nobody would give it up: no instance could lead until that pool closed the
\* connection (discardSession in runOnce).
LockNeverPooled == \A i \in Inst : lock \notin pool[i]

\* Duties start only when none of an earlier term is left: the Scheduler of an
\* instance, which is one object with one lastTick, never runs twice at once
\* (leaderRuntime.start and stop).
TermsSerialized ==
    [][\A i \in Inst : duties[i] # {} =>
            duties'[i] \subseteq duties[i] /\ (running'[i] => running[i])]_vars

=============================================================================
