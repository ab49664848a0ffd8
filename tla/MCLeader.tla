---------------------------- MODULE MCLeader ------------------------------
(***************************************************************************)
(* LeaderElection with a bounded number of faults, under the fairness of   *)
(* its loops: retries, pings and exits happen, an operator restarts what   *)
(* has exited, and the server answers and notices dead clients.            *)
(***************************************************************************)
EXTENDS LeaderElection

CONSTANT MaxFaults     \* bound: faults, shutdowns included

VARIABLE faults

\* The server ends a session that a process still uses.
LoseSession(s) == Known(s) /\ EndSession(s)
\* It ends one that no process knows of any more.
Reap(s) == ~Known(s) /\ EndSession(s)

\* The ping fails although the session is there.
PingError(i) == conn[i] \in open /\ ~halted[i] /\ StopHolding(i)
NoticeLoss(i) == (conn[i] \notin open \/ halted[i]) /\ StopHolding(i)

\* A query on a dead session, or under a cancelled context, fails.
QueryDead(i) == (conn[i] \notin open \/ halted[i]) /\ QueryFails(i)
QueryError(i) == conn[i] \in open /\ ~halted[i] /\ QueryFails(i)

Fault ==
    \/ \E s \in Sess : LoseSession(s)
    \/ \E i \in Inst : PingError(i) \/ QueryError(i) \/ Halt(i) \/ Crash(i)

Work(i) == Elect(i) \/ Demote(i) \/ NoticeLoss(i) \/ QueryDead(i)

LiveNext ==
    \/ /\ UNCHANGED faults
       /\ (\E s \in Sess : TryLock(s) \/ Reap(s)) \/ (\E i \in Inst : Work(i))
    \/ faults < MaxFaults /\ faults' = faults + 1 /\ Fault

LiveInit == Init /\ faults = 0

LiveSpec ==
    /\ LiveInit
    /\ [][LiveNext]_<<vars, faults>>
    /\ \A s \in Sess : WF_vars(TryLock(s)) /\ WF_vars(Reap(s))
    /\ \A i \in Inst : WF_vars(Work(i))

\* Once faults stop, one instance comes to run all the leader's duties under the
\* lock and keeps them, and no other runs any: a lost answer, a dead leader, a
\* pooled session or a shutdown in the middle of an election never leaves the
\* lock with nobody, nor an instance stuck in demotion (Elector.Run, runOnce,
\* leaderRuntime.stop).
EventuallyOneLeader ==
    <>[](\E i \in Inst :
            /\ lock = conn[i] /\ duties[i] = Duty
            /\ \A j \in Inst \ {i} : duties[j] = {})

=============================================================================
