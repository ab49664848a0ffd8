--------------------------- MODULE MCChannel -----------------------------
(***************************************************************************)
(* ChannelMode with a bounded number of faults, under the fairness of its  *)
(* goroutines and timers.  Requests are not assumed to make progress.      *)
(***************************************************************************)
EXTENDS ChannelMode

CONSTANT MaxFaults     \* bound: faults, abandoned deliveries and signals

VARIABLE faults

\* A delivery under a done context comes to an end.
Interrupted == CtxDone /\ Abandon

Deliver == Dispatch \/ Interrupted

Fault == DatabaseFault \/ (~CtxDone /\ Abandon) \/ Signal \/ Crash

LiveNext ==
    \/ /\ UNCHANGED faults
       /\ \/ Produce \/ Emit \/ Reconcile \/ Deliver \/ Drain \/ DrainTimeout
          \/ Shutdown \/ Time \/ Restart
    \/ faults < MaxFaults /\ faults' = faults + 1 /\ Fault

LiveInit == Init /\ faults = 0

LiveSpec ==
    /\ LiveInit
    /\ [][LiveNext]_<<vars, faults>>
    /\ \A p \in Producer : WF_vars(EmitAccepted(p) \/ EmitFails(p))
    /\ WF_vars(Reconcile) /\ WF_vars(Deliver) /\ WF_vars(Drain) /\ WF_vars(DrainTimeout)
    /\ WF_vars(Shutdown) /\ WF_vars(Restart)
    /\ \A e \in Exec : WF_vars(Age(e)) /\ WF_vars(LeaseExpires(e))

\* Every execution inserted is settled, whatever was dropped from a full bus,
\* lost with a process or a lease, or consumed under a done context, once faults
\* stop and a process runs (runCycle, Emit, Dispatch).
EventuallyDispatched ==
    \A e \in Exec : row[e] # "none" ~> row[e] = "settled"

\* A shutdown that has begun comes to an end: a request that never returns, a
\* full bus, a cycle under way or a hanging delivery only uses up its budget
\* (runServe, Emit, drain).
ShutdownCompletes == stage # "serving" ~> stage = "exited"

=============================================================================
