---------------------------- MODULE ChannelMode ----------------------------
(***************************************************************************)
(* Channel dispatch mode in one process: the scheduler, the handlers of    *)
(* manual triggers and the reconciler put executions on a bounded event    *)
(* bus, one dispatcher goroutine takes them off, and runServe stops all of *)
(* them in order.  The rows outlive the process; the bus does not.         *)
(*                                                                         *)
(* Abstracted: the lease protocol (ExecutionOwnership).  A delivery either *)
(* settles its row or is abandoned, which leaves the row in_progress under *)
(* a lease that runs out.  Executions are numbered in the order of their   *)
(* created_at.  The reconciler is enabled (RECONCILE_ENABLED).             *)
(***************************************************************************)
EXTENDS Naturals, FiniteSets, Sequences

CONSTANTS MaxExec,     \* bound: executions ever inserted
          Handler,     \* requests that trigger a job by hand
          Buffer,      \* EVENTBUS_BUFFER_SIZE
          BatchSize    \* RECONCILE_BATCH_SIZE

ASSUME ChannelAssumption ==
    /\ MaxExec \in Nat /\ Buffer \in Nat \ {0} /\ BatchSize \in Nat \ {0}
    /\ {"scheduler", "reconciler"} \cap Handler = {}

Exec == 1..MaxExec
NoExec == 0
Producer == {"scheduler", "reconciler"} \cup Handler

VARIABLES row,        \* status of each execution row, "none" before its INSERT
          leased,     \* in_progress rows whose lease_until is in the future
          due,        \* rows older than the threshold, or claimed before
          queue,      \* the channel of the EventBus
          emitting,   \* what each producer is blocked emitting
          handling,   \* requests accepted whose row is not inserted yet
          rpc, batch, \* the reconciler's place in a cycle, orphans left to emit
          dpc, cur,   \* the dispatcher's place, the event it has taken
          draining, timedOut,   \* it is in drain; the drain's timeout has passed
          stage,      \* how far runServe's shutdown has come
          forced      \* HTTP shutdown timed out: handlers may still be running

rows == <<row, leased, due>>
dispatch == <<dpc, cur, draining, timedOut>>
recon == <<rpc, batch>>
serve == <<stage, forced>>
vars == <<rows, queue, emitting, handling, recon, dispatch, serve>>

\* The place of e in the rows of S in order of created_at.
Place(S, e) == Cardinality({f \in S : f <= e})

\* The ORDER BY created_at ASC LIMIT of a set of rows.
Oldest(S, n) ==
    [k \in 1..(IF Cardinality(S) < n THEN Cardinality(S) ELSE n) |-> CHOOSE e \in S : Place(S, e) = k]

Init ==
    /\ row = [e \in Exec |-> "none"] /\ leased = {} /\ due = {}
    /\ queue = <<>> /\ emitting = [p \in Producer |-> NoExec] /\ handling = {}
    /\ rpc = "idle" /\ batch = <<>>
    /\ dpc = "wait" /\ cur = NoExec /\ draining = FALSE /\ timedOut = FALSE
    /\ stage = "serving" /\ forced = FALSE

Up == stage # "exited"
-----------------------------------------------------------------------------
(* Producers.                                                              *)

\* InsertExecution of the next execution.
InsertRow(e) ==
    /\ row[e] = "none" /\ \A f \in 1..(e - 1) : row[f] # "none"
    /\ row' = [row EXCEPT ![e] = "emitted"]

\* By p, which then emits it.
Insert(p) ==
    \E e \in Exec : InsertRow(e) /\ emitting' = [emitting EXCEPT ![p] = e]

\* The insert commits and its answer is lost: the row is there and nobody emits it.
InsertUnanswered ==
    /\ stage \in {"serving", "http"} \/ (Up /\ handling # {})
    /\ \E e \in Exec : InsertRow(e)
    /\ UNCHANGED <<leased, due, queue, emitting, handling, recon, dispatch, serve>>

\* The scheduler inserts under its own context, which is cancelled when the
\* HTTP server has stopped.
Fire ==
    /\ stage \in {"serving", "http"} /\ emitting["scheduler"] = NoExec
    /\ Insert("scheduler")
    /\ UNCHANGED <<leased, due, queue, handling, recon, dispatch, serve>>

AcceptRequest(h) ==
    /\ stage = "serving" /\ h \notin handling /\ emitting[h] = NoExec
    /\ handling' = handling \cup {h}
    /\ UNCHANGED <<rows, queue, emitting, recon, dispatch, serve>>

\* Cancelling the request contexts makes the inserts fail.
TriggerNow(h) ==
    /\ Up /\ h \in handling /\ ~forced
    /\ Insert(h)
    /\ handling' = handling \ {h}
    /\ UNCHANGED <<leased, due, queue, recon, dispatch, serve>>

\* Unknown or disabled job, failed insert, cancelled context.
RefuseRequest(h) ==
    /\ Up /\ h \in handling
    /\ handling' = handling \ {h}
    /\ UNCHANGED <<rows, queue, emitting, recon, dispatch, serve>>

\* The context p emits under is cancelled.  A handler's is detached from the
\* request.
Cancelled(p) ==
    \/ p = "scheduler" /\ stage = "scheduler"
    \/ p = "reconciler" /\ stage = "reconciler"

EmitAccepted(p) ==
    /\ Up /\ emitting[p] # NoExec /\ Len(queue) < Buffer
    /\ queue' = Append(queue, emitting[p])
    /\ emitting' = [emitting EXCEPT ![p] = NoExec]
    /\ UNCHANGED <<rows, handling, recon, dispatch, serve>>

\* The timer fires on a full buffer, or the context is done: the producer logs
\* and goes on, and the execution is left to the reconciler.
EmitFails(p) ==
    /\ Up /\ emitting[p] # NoExec
    /\ Len(queue) = Buffer \/ Cancelled(p)
    /\ emitting' = [emitting EXCEPT ![p] = NoExec]
    /\ UNCHANGED <<rows, queue, handling, recon, dispatch, serve>>
-----------------------------------------------------------------------------
(* The reconciler.                                                         *)

ReconcilerUp == stage \in {"serving", "http", "scheduler"}

Stale == {e \in Exec : row[e] = "in_progress" /\ e \notin leased}

\* Mutant: expired claims are not taken back.
RequeueNothing(ok) ==
    /\ ReconcilerUp /\ rpc = "idle"
    /\ rpc' = "fetch"
    /\ UNCHANGED <<rows, queue, emitting, handling, batch, dispatch, serve>>

\* A cycle starts by requeueing rows whose lease has run out.  FALSE: the
\* statement fails, and the cycle goes on without it.
Requeue(ok) ==
    /\ ReconcilerUp /\ rpc = "idle"
    /\ \E n \in SUBSET Stale :
        /\ Cardinality(n) = IF Cardinality(Stale) < BatchSize THEN Cardinality(Stale) ELSE BatchSize
        /\ row' = IF ok THEN [e \in Exec |-> IF e \in n THEN "emitted" ELSE row[e]] ELSE row
    /\ rpc' = "fetch"
    /\ UNCHANGED <<leased, due, queue, emitting, handling, batch, dispatch, serve>>

Orphans == {e \in Exec : row[e] = "emitted" /\ e \in due}

FetchOrphans ==
    /\ ReconcilerUp /\ rpc = "fetch"
    /\ batch' = Oldest(Orphans, BatchSize)
    /\ rpc' = IF Orphans = {} THEN "idle" ELSE "emit"
    /\ UNCHANGED <<rows, queue, emitting, handling, dispatch, serve>>

FetchFails ==
    /\ Up /\ rpc = "fetch"
    /\ rpc' = "idle"
    /\ UNCHANGED <<rows, queue, emitting, handling, batch, dispatch, serve>>

\* The next orphan is emitted unless the context is done.
ReEmit ==
    /\ ReconcilerUp /\ rpc = "emit" /\ emitting["reconciler"] = NoExec /\ batch # <<>>
    /\ emitting' = [emitting EXCEPT !["reconciler"] = Head(batch)]
    /\ batch' = Tail(batch)
    /\ UNCHANGED <<rows, queue, handling, rpc, dispatch, serve>>

CycleEnds ==
    /\ Up /\ rpc = "emit" /\ emitting["reconciler"] = NoExec
    /\ batch = <<>> \/ Cancelled("reconciler")
    /\ rpc' = "idle" /\ batch' = <<>>
    /\ UNCHANGED <<rows, queue, emitting, handling, dispatch, serve>>
-----------------------------------------------------------------------------
(* The dispatcher.                                                         *)

\* The context of the event being dispatched: the dispatcher's own in Run, the
\* drain's once it drains.
CtxDone == IF draining THEN timedOut ELSE stage = "dispatcher"

\* Run and drain both select among the ready cases in any order: an event may
\* be taken although the context is done.
Receive ==
    /\ dpc = "wait" /\ Up /\ queue # <<>>
    /\ dpc' = "got" /\ cur' = Head(queue) /\ queue' = Tail(queue)
    /\ UNCHANGED <<rows, emitting, handling, recon, draining, timedOut, serve>>

ToWait == dpc' = "wait" /\ cur' = NoExec /\ UNCHANGED <<draining, timedOut>>
Rest == UNCHANGED <<queue, emitting, handling, recon, serve>>

TakeRow(e) ==
    /\ row' = [row EXCEPT ![e] = "in_progress"]
    /\ leased' = leased \cup {e} /\ due' = due \cup {e}

\* Mutant: the claim does not test the status.
ClaimAnything ==
    /\ Up /\ dpc = "got" /\ ~CtxDone
    /\ TakeRow(cur)
    /\ dpc' = "busy" /\ UNCHANGED <<cur, draining, timedOut>>
    /\ Rest
Claim ==
    /\ Up /\ dpc = "got" /\ ~CtxDone /\ row[cur] = "emitted"
    /\ TakeRow(cur)
    /\ dpc' = "busy" /\ UNCHANGED <<cur, draining, timedOut>>
    /\ Rest

\* A stale event: the row was claimed or settled through another copy of it.
ClaimNothing ==
    /\ Up /\ dpc = "got" /\ ~CtxDone /\ row[cur] # "emitted"
    /\ ToWait /\ UNCHANGED rows /\ Rest

\* Under a done context the claim is not even sent.
ClaimCancelled ==
    /\ Up /\ dpc = "got" /\ CtxDone
    /\ ToWait /\ UNCHANGED rows /\ Rest

\* The database fails, before or after the commit.
ClaimError ==
    /\ Up /\ dpc = "got" /\ ~CtxDone
    /\ UNCHANGED rows \/ (row[cur] = "emitted" /\ TakeRow(cur))
    /\ ToWait /\ Rest

Settle(e) ==
    /\ row' = [row EXCEPT ![e] = "settled"]
    /\ leased' = leased \ {e} /\ UNCHANGED due

Complete ==
    /\ Up /\ dpc = "busy" /\ ~CtxDone
    /\ Settle(cur) /\ ToWait /\ Rest

\* dispatchOwned returns without a terminal status: job not read, circuit open,
\* ownership lost, context done; or the answer to the completion is lost.
Abandon ==
    /\ Up /\ dpc = "busy"
    /\ UNCHANGED rows \/ Settle(cur)
    /\ ToWait /\ Rest

BeginDrain ==
    /\ stage = "dispatcher" /\ dpc = "wait" /\ ~draining
    /\ draining' = TRUE
    /\ UNCHANGED <<rows, queue, emitting, handling, recon, dpc, cur, timedOut, serve>>

DrainTimeout ==
    /\ Up /\ draining /\ dpc # "off" /\ ~timedOut
    /\ timedOut' = TRUE
    /\ UNCHANGED <<rows, queue, emitting, handling, recon, dpc, cur, draining, serve>>

DrainReturns ==
    /\ draining /\ dpc = "wait" /\ Up
    /\ timedOut \/ queue = <<>>
    /\ dpc' = "off"
    /\ UNCHANGED <<rows, queue, emitting, handling, recon, cur, draining, timedOut, serve>>
-----------------------------------------------------------------------------
(* runServe's shutdown, the end of the process, and its start.             *)

Advance(from, to) ==
    /\ stage = from /\ stage' = to
    /\ UNCHANGED <<rows, queue, emitting, handling, recon, dispatch>>

HandlersIdle == handling = {} /\ \A h \in Handler : emitting[h] = NoExec

Signal == Advance("serving", "http") /\ UNCHANGED forced
HttpStopped == HandlersIdle /\ Advance("http", "scheduler") /\ UNCHANGED forced
\* Mutant: the HTTP shutdown has no deadline.
HttpNeverForced == FALSE /\ UNCHANGED vars
HttpForced == ~HandlersIdle /\ Advance("http", "scheduler") /\ forced' = TRUE

\* Mutant: nobody waits for the scheduler to return.
SchedulerNotAwaited == Advance("scheduler", "reconciler") /\ UNCHANGED forced
SchedulerStopped ==
    emitting["scheduler"] = NoExec /\ Advance("scheduler", "reconciler") /\ UNCHANGED forced

\* Its wait group covers the whole cycle.
ReconcilerStopped ==
    rpc = "idle" /\ Advance("reconciler", "dispatcher") /\ UNCHANGED forced

DispatcherStopped == dpc = "off" /\ Advance("dispatcher", "exited") /\ UNCHANGED forced

\* The process's memory is empty.
Reset(where, pc) ==
    /\ queue' = <<>> /\ emitting' = [p \in Producer |-> NoExec] /\ handling' = {}
    /\ rpc' = "idle" /\ batch' = <<>>
    /\ dpc' = pc /\ cur' = NoExec /\ draining' = FALSE /\ timedOut' = FALSE
    /\ stage' = where /\ forced' = FALSE
    /\ UNCHANGED rows

Crash == Up /\ Reset("exited", "off")
Restart == stage = "exited" /\ Reset("serving", "wait")
-----------------------------------------------------------------------------
(* Time.                                                                   *)

Age(e) ==
    /\ row[e] # "none" /\ e \notin due
    /\ due' = due \cup {e}
    /\ UNCHANGED <<row, leased, queue, emitting, handling, recon, dispatch, serve>>

\* A delivery under way keeps its lease, or is abandoned first.
LeaseExpires(e) ==
    /\ e \in leased /\ ~(dpc = "busy" /\ cur = e)
    /\ leased' = leased \ {e}
    /\ UNCHANGED <<row, due, queue, emitting, handling, recon, dispatch, serve>>
-----------------------------------------------------------------------------
Produce ==
    \/ Fire
    \/ \E h \in Handler : AcceptRequest(h) \/ TriggerNow(h) \/ RefuseRequest(h)

Emit == \E p \in Producer : EmitAccepted(p) \/ EmitFails(p)

Reconcile ==
    \/ Requeue(TRUE) \/ FetchOrphans \/ ReEmit \/ CycleEnds
    \/ Cancelled("reconciler") /\ FetchFails

Dispatch == Receive \/ Claim \/ ClaimNothing \/ ClaimCancelled \/ Complete

Drain == BeginDrain \/ DrainReturns

Shutdown ==
    \/ HttpStopped \/ HttpForced \/ SchedulerStopped \/ ReconcilerStopped
    \/ DispatcherStopped

Time == \E e \in Exec : Age(e) \/ LeaseExpires(e)

\* What a fault does.
DatabaseFault == InsertUnanswered \/ Requeue(FALSE) \/ FetchFails \/ ClaimError

Next ==
    \/ Produce \/ Emit \/ Reconcile \/ Dispatch \/ Abandon \/ Drain \/ DrainTimeout
    \/ Signal \/ Shutdown \/ Time \/ DatabaseFault \/ Crash \/ Restart

Spec == Init /\ [][Next]_vars
-----------------------------------------------------------------------------
(* Properties.                                                             *)

\* Every variable has its type; the channel holds at most its capacity (EventBus).
TypeOK ==
    /\ row \in [Exec -> {"none", "emitted", "in_progress", "settled"}]
    /\ leased \subseteq {e \in Exec : row[e] = "in_progress"} /\ due \subseteq Exec
    /\ queue \in Seq(Exec) /\ Len(queue) <= Buffer
    /\ emitting \in [Producer -> Exec \cup {NoExec}] /\ handling \subseteq Handler
    /\ rpc \in {"idle", "fetch", "emit"} /\ batch \in Seq(Exec) /\ Len(batch) <= BatchSize
    /\ dpc \in {"wait", "got", "busy", "off"} /\ cur \in Exec \cup {NoExec}
    /\ draining \in BOOLEAN /\ timedOut \in BOOLEAN
    /\ stage \in {"serving", "http", "scheduler", "reconciler", "dispatcher", "exited"}
    /\ forced \in BOOLEAN

\* A process that stops within its budgets, HTTP not forced and the drain not
\* timed out, leaves no event on the bus and no producer in the middle of one
\* (runServe's order of shutdown, Dispatcher.drain).
GracefulExitDrains ==
    stage = "exited" /\ ~forced /\ ~timedOut =>
        queue = <<>> /\ \A p \in Producer : emitting[p] = NoExec

\* Two copies of one execution on the bus lead to one claim: what is being
\* delivered or is settled is claimed again only after its lease ran out and the
\* reconciler took it back (Dispatch, queryClaimExecution, runCycle).
ClaimedOnce ==
    [][\A e \in Exec :
          /\ row[e] = "settled" => row'[e] = "settled"
          /\ row[e] = "in_progress" /\ row'[e] = "emitted" => ~(dpc = "busy" /\ cur = e)
          /\ (dpc # "busy" /\ dpc' = "busy" /\ cur = e) => row[e] = "emitted"]_vars

=============================================================================
