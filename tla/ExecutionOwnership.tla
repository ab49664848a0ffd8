------------------------- MODULE ExecutionOwnership -------------------------
(***************************************************************************)
(* Who may deliver an execution: the claim, renew, complete and requeue    *)
(* statements of internal/store/postgres, and the delivery goroutines of   *)
(* internal/dispatcher with their execution lease.                         *)
(*                                                                         *)
(* A statement is sent, executed by the database, and answered in separate *)
(* steps.  A client that gives up (timeout, cancellation, crash) leaves    *)
(* the statement behind: the database may still execute it later, or not.  *)
(*                                                                         *)
(* Time is kept as time left.  The database's lease_until - now is         *)
(* lease[e]; the goroutine's deadline - now is held[p].rem, which starts   *)
(* to run when the claim or renewal is sent, before the database grants    *)
(* it.  Clock offsets do not exist in this picture, as in the code, which  *)
(* never compares a database time with a local one; the two clocks are     *)
(* assumed to run at the same rate.                                        *)
(***************************************************************************)
EXTENDS Integers

CONSTANTS
    Exec,              \* execution ids
    Proc,              \* delivery goroutines, of any number of instances
    NoExec,            \* not an execution
    Lease,             \* lease duration, in clock ticks
    MaxAttempts,       \* maxAttempts of dispatcher.go (4 there)
    MaxGen             \* bound: claims of one execution

ASSUME LeaseAssumption == Lease \in Nat \ {0}
ASSUME MaxAttemptsAssumption == MaxAttempts \in Nat \ {0}
ASSUME MaxGenAssumption == MaxGen \in Nat
ASSUME NoExecAssumption == NoExec \notin Exec

VARIABLES
    status,            \* executions.status
    generation,        \* executions.claim_generation
    lease,             \* executions.lease_until, as time left; Null for SQL NULL
    pc,                \* what the delivery goroutine is doing
    held,              \* its executionLease: execution, generation, time left, cancelled
    attempt,           \* the attempt it is making
    outcome,           \* the result of its last Send
    renewal,           \* the renewal it holds renewMu for
    left,              \* statements whose client has given up
    acked              \* <<e, g>> for every 2xx answer

row == <<status, generation, lease>>
worker == <<pc, held, attempt, outcome, renewal>>
vars == <<row, worker, left, acked>>

Terminal == {"delivered", "failed"}
Null == -1

Delivering == {"loading", "confirming", "sending", "recording", "backoff",
               "completing", "completed"}
Holding == Delivering \union {"claimed"}

NoClaim == [exec |-> NoExec, gen |-> 0, rem |-> 0, cancelled |-> FALSE]
NoRenewal == [st |-> "off", by |-> "main", rem |-> 0]

ClaimStmt(e) == [op |-> "claim", exec |-> e, gen |-> 0, to |-> "failed"]
RenewStmt(e, g) == [op |-> "renew", exec |-> e, gen |-> g, to |-> "failed"]
CompleteStmt(e, g, s) == [op |-> "complete", exec |-> e, gen |-> g, to |-> s]
Stmt == [op : {"claim", "renew", "complete"}, exec : Exec, gen : Nat, to : Terminal]

HeldLease == [exec : Exec \union {NoExec}, gen : Nat, rem : 0..Lease, cancelled : BOOLEAN]
Renewal == [st : {"off", "issued", "granted"}, by : {"main", "ticker"}, rem : 0..Lease]

TypeOK ==
    /\ status \in [Exec -> {"absent", "emitted", "in_progress", "deleted"} \union Terminal]
    /\ generation \in [Exec -> Nat]
    /\ lease \in [Exec -> Null..Lease]
    /\ pc \in [Proc -> {"idle", "claiming"} \union Holding]
    /\ held \in [Proc -> HeldLease]
    /\ attempt \in [Proc -> 0..MaxAttempts]
    /\ outcome \in [Proc -> {"none", "success", "retryable", "permanent"}]
    /\ renewal \in [Proc -> Renewal]
    /\ left \subseteq Stmt
    /\ acked \subseteq Exec \X Nat

\* Before the first step every row is yet to be inserted, or is one that a
\* binary older than migration 011 left in progress.
Init ==
    /\ status \in [Exec -> {"absent", "in_progress"}]
    /\ generation = [e \in Exec |-> 0]
    /\ lease = [e \in Exec |-> Null]
    /\ pc = [p \in Proc |-> "idle"]
    /\ held = [p \in Proc |-> NoClaim]
    /\ attempt = [p \in Proc |-> 0]
    /\ outcome = [p \in Proc |-> "none"]
    /\ renewal = [p \in Proc |-> NoRenewal]
    /\ left = {}
    /\ acked = {}

(***************************************************************************)
(* The statements, as the database executes them.                          *)
(***************************************************************************)

\* Mutant: the generation is not compared.
OwnsAnyGeneration(e, g) == status[e] = "in_progress" /\ lease[e] > 0

\* queryRenewExecutionClaim and queryCompleteExecution test the row they have locked.
Owns(e, g) == status[e] = "in_progress" /\ generation[e] = g /\ lease[e] > 0

\* queryClaimExecution; queryDequeueExecution(s) pick the row themselves.
Claimable(e) == status[e] = "emitted" /\ generation[e] < MaxGen

ClaimRow(e) ==
    /\ status' = [status EXCEPT ![e] = "in_progress"]
    /\ generation' = [generation EXCEPT ![e] = @ + 1]
    /\ lease' = [lease EXCEPT ![e] = Lease]

RenewRow(e) ==
    /\ lease' = [lease EXCEPT ![e] = Lease]
    /\ UNCHANGED <<status, generation>>

CompleteRow(e, s) ==
    /\ status' = [status EXCEPT ![e] = s]
    /\ lease' = [lease EXCEPT ![e] = Null]
    /\ UNCHANGED generation

InsertExecution(e) ==
    /\ status[e] = "absent"
    /\ status' = [status EXCEPT ![e] = "emitted"]
    /\ UNCHANGED <<generation, lease, worker, left, acked>>

\* Mutant: rows without a lease are forgotten.
StaleLeasedOnly(e) == status[e] = "in_progress" /\ lease[e] = 0

\* queryRequeueStaleExecutions; the second alternative is the recovery of rows
\* from before migration 011.
Stale(e) ==
    /\ status[e] = "in_progress"
    /\ lease[e] = 0 \/ (lease[e] = Null /\ generation[e] = 0)

\* Mutant: generation 0 stays generation 0.
RequeueKeepsGeneration(e) ==
    /\ Stale(e)
    /\ status' = [status EXCEPT ![e] = "emitted"]
    /\ lease' = [lease EXCEPT ![e] = Null]
    /\ UNCHANGED <<generation, worker, left, acked>>

RequeueExpired(e) ==
    /\ Stale(e)
    /\ status' = [status EXCEPT ![e] = "emitted"]
    /\ lease' = [lease EXCEPT ![e] = Null]
    /\ generation' = [generation EXCEPT ![e] = IF @ = 0 THEN 1 ELSE @]
    /\ UNCHANGED <<worker, left, acked>>

\* Deleting the job deletes its executions, whatever is being done with them.
DeleteJob(e) ==
    /\ status[e] \notin {"absent", "deleted"}
    /\ status' = [status EXCEPT ![e] = "deleted"]
    /\ lease' = [lease EXCEPT ![e] = Null]
    /\ UNCHANGED <<generation, worker, left, acked>>

(***************************************************************************)
(* Leaving a delivery.  What it has sent and not seen executed is left     *)
(* behind.                                                                 *)
(***************************************************************************)
RenewalInFlight(p) ==
    IF renewal[p].st = "issued" THEN {RenewStmt(held[p].exec, held[p].gen)} ELSE {}

Target(p) == IF outcome[p] = "success" THEN "delivered" ELSE "failed"

MainInFlight(p) ==
    CASE pc[p] = "claiming" -> {ClaimStmt(held[p].exec)}
      [] pc[p] = "completing" -> {CompleteStmt(held[p].exec, held[p].gen, Target(p))}
      [] OTHER -> {}

Leave(p) ==
    /\ pc' = [pc EXCEPT ![p] = "idle"]
    /\ held' = [held EXCEPT ![p] = NoClaim]
    /\ attempt' = [attempt EXCEPT ![p] = 0]
    /\ outcome' = [outcome EXCEPT ![p] = "none"]
    /\ renewal' = [renewal EXCEPT ![p] = NoRenewal]
    /\ left' = left \union MainInFlight(p) \union RenewalInFlight(p)

(***************************************************************************)
(* The delivery goroutine: Dispatch / dbPollWorker, then dispatchOwned.    *)
(***************************************************************************)

\* claimStarted is read before the claim is sent: the local lease runs from here.
IssueClaim(p, e) ==
    /\ pc[p] = "idle"
    /\ pc' = [pc EXCEPT ![p] = "claiming"]
    /\ held' = [held EXCEPT ![p] =
          [exec |-> e, gen |-> 0, rem |-> Lease, cancelled |-> FALSE]]
    /\ UNCHANGED <<row, attempt, outcome, renewal, left, acked>>

ExecuteClaim(p) ==
    LET e == held[p].exec IN
    /\ pc[p] = "claiming"
    /\ Claimable(e)
    /\ ClaimRow(e)
    /\ pc' = [pc EXCEPT ![p] = "claimed"]
    /\ held' = [held EXCEPT ![p].gen = generation[e] + 1]
    /\ UNCHANGED <<attempt, outcome, renewal, left, acked>>

\* The row was not there to be claimed: the store returns nil, nil.
ClaimNothing(p) ==
    /\ pc[p] = "claiming"
    /\ status[held[p].exec] # "emitted"
    /\ pc' = [pc EXCEPT ![p] = "idle"]
    /\ held' = [held EXCEPT ![p] = NoClaim]
    /\ UNCHANGED <<row, attempt, outcome, renewal, left, acked>>

\* newExecutionLease starts the watchdog and the renewal ticker.
StartLease(p) ==
    /\ pc[p] = "claimed"
    /\ pc' = [pc EXCEPT ![p] = "loading"]
    /\ UNCHANGED <<row, held, attempt, outcome, renewal, left, acked>>

\* The job is read and the circuit breaker admits the delivery.
Admit(p) ==
    /\ pc[p] = "loading"
    /\ pc' = [pc EXCEPT ![p] = "confirming"]
    /\ attempt' = [attempt EXCEPT ![p] = 1]
    /\ UNCHANGED <<row, held, outcome, renewal, left, acked>>

\* The job lookup fails, the job has no URL, or its circuit is open: the row
\* stays in progress until its lease expires.
Defer(p) ==
    /\ pc[p] = "loading"
    /\ Leave(p)
    /\ UNCHANGED <<row, acked>>

\* renew: from the attempt loop, or from the ticker while renewMu is free.
IssueRenewal(p, by) ==
    /\ pc[p] \in IF by = "main" THEN {"confirming"} ELSE Delivering \ {"completing", "completed"}
    /\ renewal[p].st = "off"
    /\ ~held[p].cancelled
    /\ renewal' = [renewal EXCEPT ![p] = [st |-> "issued", by |-> by, rem |-> Lease]]
    /\ UNCHANGED <<row, pc, held, attempt, outcome, left, acked>>

ExecuteRenewal(p) ==
    LET e == held[p].exec IN
    /\ renewal[p].st = "issued"
    /\ Owns(e, held[p].gen)
    /\ RenewRow(e)
    /\ renewal' = [renewal EXCEPT ![p].st = "granted"]
    /\ UNCHANGED <<pc, held, attempt, outcome, left, acked>>

\* Mutant: the new deadline counts from when the answer is received.
AcceptRenewalFromReceipt(p) ==
    /\ renewal[p].st = "granted"
    /\ ~held[p].cancelled
    /\ held[p].rem > 0
    /\ held' = [held EXCEPT ![p].rem = Lease]
    /\ pc' = [pc EXCEPT ![p] = IF renewal[p].by = "main" THEN "sending" ELSE @]
    /\ renewal' = [renewal EXCEPT ![p] = NoRenewal]
    /\ UNCHANGED <<row, attempt, outcome, left, acked>>

\* The renewal returned nil: the new deadline counts from when it was sent.
\* Main goes on to Send.
AcceptRenewal(p) ==
    /\ renewal[p].st = "granted"
    /\ ~held[p].cancelled
    /\ held[p].rem > 0
    /\ held' = [held EXCEPT ![p].rem = renewal[p].rem]
    /\ pc' = [pc EXCEPT ![p] = IF renewal[p].by = "main" THEN "sending" ELSE @]
    /\ renewal' = [renewal EXCEPT ![p] = NoRenewal]
    /\ UNCHANGED <<row, attempt, outcome, left, acked>>

\* The renewal is refused, fails, times out, or returns after the lease is over:
\* ownership is uncertain and the lease is revoked.  Main returns the error.
FailRenewal(p) ==
    /\ renewal[p].st # "off"
    /\ IF renewal[p].by = "main"
       THEN Leave(p)
       ELSE /\ held' = [held EXCEPT ![p].cancelled = TRUE]
            /\ renewal' = [renewal EXCEPT ![p] = NoRenewal]
            /\ left' = left \union RenewalInFlight(p)
            /\ UNCHANGED <<pc, attempt, outcome>>
    /\ UNCHANGED <<row, acked>>

WatchExpiry(p) ==
    /\ pc[p] \in Delivering
    /\ held[p].rem = 0 /\ ~held[p].cancelled
    /\ held' = [held EXCEPT ![p].cancelled = TRUE]
    /\ UNCHANGED <<row, pc, attempt, outcome, renewal, left, acked>>

\* operationContext's deadline passed, or the parent context was cancelled.
Revoke(p) ==
    /\ pc[p] \in Delivering
    /\ ~held[p].cancelled
    /\ held' = [held EXCEPT ![p].cancelled = TRUE]
    /\ UNCHANGED <<row, pc, attempt, outcome, renewal, left, acked>>

SendReturns(p, r) ==
    /\ pc[p] = "sending"
    /\ pc' = [pc EXCEPT ![p] = "recording"]
    /\ outcome' = [outcome EXCEPT ![p] = r]
    /\ acked' = IF r = "success" THEN acked \union {<<held[p].exec, held[p].gen>>} ELSE acked
    /\ UNCHANGED <<row, held, attempt, renewal, left>>

\* InsertDeliveryAttempt has returned (its error is only logged) and the lease
\* still stands: retry, or stop the renewal ticker and send the completion.
RecordAttempt(p) ==
    /\ pc[p] = "recording"
    /\ ~held[p].cancelled
    /\ IF outcome[p] = "retryable" /\ attempt[p] < MaxAttempts
       THEN /\ pc' = [pc EXCEPT ![p] = "backoff"]
            /\ UNCHANGED <<renewal, left>>
       ELSE /\ pc' = [pc EXCEPT ![p] = "completing"]
            /\ renewal' = [renewal EXCEPT ![p] = NoRenewal]
            /\ left' = left \union RenewalInFlight(p)
    /\ UNCHANGED <<row, held, attempt, outcome, acked>>

BackoffElapsed(p) ==
    /\ pc[p] = "backoff"
    /\ pc' = [pc EXCEPT ![p] = "confirming"]
    /\ attempt' = [attempt EXCEPT ![p] = @ + 1]
    /\ UNCHANGED <<row, held, outcome, renewal, left, acked>>

ExecuteComplete(p) ==
    LET e == held[p].exec IN
    /\ pc[p] = "completing"
    /\ Owns(e, held[p].gen)
    /\ CompleteRow(e, Target(p))
    /\ pc' = [pc EXCEPT ![p] = "completed"]
    /\ UNCHANGED <<held, attempt, outcome, renewal, left, acked>>

\* complete returns: the row is completed, or it was refused (ErrExecutionClaimLost).
FinishComplete(p) ==
    LET e == held[p].exec IN
    /\ \/ pc[p] = "completed"
       \/ pc[p] = "completing" /\ ~Owns(e, held[p].gen)
    /\ Leave(p)
    /\ UNCHANGED <<row, acked>>

\* A revoked delivery returns at its next check of the context.
StopRevoked(p) ==
    /\ pc[p] \in Delivering \ {"sending"}
    /\ held[p].cancelled
    /\ Leave(p)
    /\ UNCHANGED <<row, acked>>

\* The claim or the completion failed or its answer was lost; or the process died.
Crash(p) ==
    /\ pc[p] # "idle"
    /\ Leave(p)
    /\ UNCHANGED <<row, acked>>

(***************************************************************************)
(* Statements left behind, and the clock.                                  *)
(***************************************************************************)
ExecuteLeft(s) ==
    /\ s \in left
    /\ left' = left \ {s}
    /\ \/ s.op = "claim" /\ Claimable(s.exec) /\ ClaimRow(s.exec)
       \/ s.op = "renew" /\ Owns(s.exec, s.gen) /\ RenewRow(s.exec)
       \/ s.op = "complete" /\ Owns(s.exec, s.gen) /\ CompleteRow(s.exec, s.to)
    /\ UNCHANGED <<worker, acked>>

DropLeft(s) ==
    /\ s \in left
    /\ left' = left \ {s}
    /\ UNCHANGED <<row, worker, acked>>

\* Mutant: an expired lease goes on counting.
DownForever(n) == n - 1

Down(n) == IF n > 0 THEN n - 1 ELSE n

Tick ==
    /\ lease' = [e \in Exec |-> Down(lease[e])]
    /\ held' = [p \in Proc |-> [held[p] EXCEPT !.rem = Down(held[p].rem)]]
    /\ renewal' = [p \in Proc |-> [renewal[p] EXCEPT !.rem = Down(renewal[p].rem)]]
    /\ UNCHANGED <<status, generation, pc, attempt, outcome, left, acked>>

Results == {"success", "retryable", "permanent"}

RowStep(e) == InsertExecution(e) \/ RequeueExpired(e) \/ DeleteJob(e)

WorkerStep(p) ==
    \/ \E e \in Exec : IssueClaim(p, e)
    \/ ExecuteClaim(p) \/ ClaimNothing(p) \/ StartLease(p) \/ Admit(p) \/ Defer(p)
    \/ \E by \in {"main", "ticker"} : IssueRenewal(p, by)
    \/ ExecuteRenewal(p) \/ AcceptRenewal(p) \/ FailRenewal(p)
    \/ WatchExpiry(p) \/ Revoke(p)
    \/ \E r \in Results : SendReturns(p, r)
    \/ RecordAttempt(p) \/ BackoffElapsed(p)
    \/ ExecuteComplete(p) \/ FinishComplete(p) \/ StopRevoked(p) \/ Crash(p)

LeftStep(s) == ExecuteLeft(s) \/ DropLeft(s)

Next ==
    \/ \E e \in Exec : RowStep(e)
    \/ \E p \in Proc : WorkerStep(p)
    \/ \E s \in left : LeftStep(s)
    \/ Tick

Spec == Init /\ [][Next]_vars

(***************************************************************************)
(* Properties.                                                             *)
(***************************************************************************)

\* p holds a lease object that has neither expired nor been cancelled.
ValidLease(p) == pc[p] \in Holding /\ ~held[p].cancelled /\ held[p].rem > 0

\* A goroutine whose local lease is valid still owns the row: no one has
\* requeued or re-claimed it, and the database lease outlives the local one.
\* The row is out of its hands only once it has completed it itself, or the
\* job is gone.  (newExecutionLease, renew: deadlines count from the request.)
LeaseSafety ==
    \A p \in Proc : ValidLease(p) =>
        LET e == held[p].exec IN
        /\ generation[e] = held[p].gen
        /\ \/ status[e] = "in_progress" /\ lease[e] >= held[p].rem
           \/ status[e] = Target(p) /\ pc[p] = "completed"
           \/ status[e] = "deleted"

\* Two webhook calls for one execution are in flight together only when one of
\* the callers has already lost its lease ("Old in-flight remote effects can
\* still overlap recovery", OPERATORS.md).
OverlapOnlyAfterExpiry ==
    \A p, q \in Proc :
        /\ p # q /\ held[p].exec = held[q].exec
        /\ pc[p] = "sending" /\ pc[q] = "sending"
        => ~ValidLease(p) \/ ~ValidLease(q)

\* The recorded outcome is the outcome of the generation that recorded it:
\* delivered after a 2xx to that very claim, failed only without one.
OutcomeTruthful ==
    \A e \in Exec :
        /\ status[e] = "delivered" => <<e, generation[e]>> \in acked
        /\ status[e] = "failed" => <<e, generation[e]>> \notin acked

\* A terminal status never changes, short of deleting the job, and a generation
\* never goes back.
TerminalImmutable ==
    [][\A e \in Exec :
        /\ status[e] \in Terminal => status'[e] \in {status[e], "deleted"}
        /\ generation'[e] >= generation[e]]_vars

\* The executions table behaves as ExecutionLifecycle says, its columns and the
\* answers being all that the abstract specification sees: leases, processes,
\* clocks and messages in flight are hidden.
Lifecycle == INSTANCE ExecutionLifecycle WITH
    Exec <- Exec, status <- status, generation <- generation, acked <- acked
LifecycleSpec == Lifecycle!Spec

=============================================================================
