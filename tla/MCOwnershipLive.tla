-------------------------- MODULE MCOwnershipLive --------------------------
(***************************************************************************)
(* Every execution is brought to an end, if failures do not go on forever. *)
(* A failure here is a step that makes a delivery goroutine give up or its *)
(* lease run out while it holds it; MaxFaults of them may happen, anywhere.*)
(***************************************************************************)
EXTENDS ExecutionOwnership

CONSTANT MaxFaults     \* bound: failures in one behaviour

VARIABLE faults

liveVars == <<vars, faults>>

LiveInit == Init /\ faults = 0

\* The next tick would end a lease some goroutine counts on.
TimeIsShort ==
    \E p \in Proc : \/ pc[p] # "idle" /\ held[p].rem = 1
                    \/ renewal[p].st # "off" /\ renewal[p].rem = 1

\* A poll that finds no emitted row changes nothing and is left out.
Poll(p, e) == status[e] = "emitted" /\ IssueClaim(p, e)

MainStep(p) ==
    \/ ExecuteClaim(p) \/ ClaimNothing(p) \/ StartLease(p) \/ Admit(p)
    \/ IssueRenewal(p, "main")
    \/ \E r \in Results : SendReturns(p, r)
    \/ RecordAttempt(p) \/ BackoffElapsed(p)
    \/ ExecuteComplete(p) \/ FinishComplete(p) \/ StopRevoked(p)

\* The database refuses the renewal, or its answer finds the lease over.
Refused(p) ==
    /\ \/ renewal[p].st = "issued" /\ ~Owns(held[p].exec, held[p].gen)
       \/ renewal[p].st = "granted" /\ (held[p].cancelled \/ held[p].rem = 0)
    /\ FailRenewal(p)

RenewalStep(p) == ExecuteRenewal(p) \/ AcceptRenewal(p) \/ Refused(p)

Fault ==
    \/ \E p \in Proc : Defer(p) \/ FailRenewal(p) \/ Revoke(p) \/ Crash(p)
    \/ TimeIsShort /\ Tick

LiveNext ==
    \/ /\ \/ \E e \in Exec : RowStep(e) \/ \E p \in Proc : Poll(p, e)
          \/ \E p \in Proc : MainStep(p) \/ RenewalStep(p) \/ WatchExpiry(p) \/ IssueRenewal(p, "ticker")
          \/ \E s \in left : LeftStep(s)
          \/ ~TimeIsShort /\ Tick
       /\ UNCHANGED faults
    \/ faults < MaxFaults /\ Fault /\ faults' = faults + 1

\* Goroutines are scheduled, statements are answered, Send has a timeout, the
\* watchdog timer fires, the pollers look for emitted rows, the reconciler runs.
\* The main path is strongly fair: renewMu is a Go mutex, which does not starve
\* a waiter although the ticker takes it again and again.
LiveSpec ==
    /\ LiveInit /\ [][LiveNext]_liveVars
    /\ \A p \in Proc :
        /\ SF_liveVars(MainStep(p) /\ UNCHANGED faults)
        /\ WF_liveVars(RenewalStep(p) /\ UNCHANGED faults)
        /\ WF_liveVars(WatchExpiry(p) /\ UNCHANGED faults)
    /\ \A e \in Exec :
        /\ SF_liveVars(\E p \in Proc : Poll(p, e) /\ UNCHANGED faults)
        /\ WF_liveVars(RequeueExpired(e) /\ UNCHANGED faults)
    /\ WF_liveVars(~TimeIsShort /\ Tick /\ UNCHANGED faults)

\* Whatever fails on the way, an inserted execution is eventually delivered,
\* failed or deleted: a claim whose answer was lost, a crashed goroutine, a row
\* of an old binary are all recovered through RequeueExpiredExecutions.
EventuallySettled ==
    \A e \in Exec :
        status[e] \in {"emitted", "in_progress"} ~> status[e] \in Terminal \union {"deleted"}

=============================================================================
