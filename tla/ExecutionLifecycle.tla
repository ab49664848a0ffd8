------------------------- MODULE ExecutionLifecycle -------------------------
(***************************************************************************)
(* What the executions table promises about one execution, whatever the    *)
(* number of dispatcher processes: the life cycle                          *)
(*                                                                         *)
(*    emitted --> in_progress --> delivered | failed                       *)
(*       ^             |                                                   *)
(*       +-------------+  (stale requeue by the reconciler)                *)
(*                                                                         *)
(* in which every claim gets a generation of its own, a terminal status is *)
(* final, and the status recorded for a generation agrees with what the    *)
(* webhook receiver answered to that generation.  ExecutionOwnership is    *)
(* shown to implement this module.                                         *)
(***************************************************************************)
EXTENDS Integers

CONSTANT Exec          \* the execution ids

VARIABLES
    status,            \* executions.status; "absent" before INSERT, "deleted" after DELETE
    generation,        \* executions.claim_generation
    acked              \* {<<e, g>>: a 2xx answer reached the claim of e with generation g}

vars == <<status, generation, acked>>

Terminal == {"delivered", "failed"}
Status == {"absent", "emitted", "in_progress", "deleted"} \union Terminal

TypeOK ==
    /\ status \in [Exec -> Status]
    /\ generation \in [Exec -> Nat]
    /\ acked \subseteq Exec \X Nat

\* A database upgraded by migration 011 may hold rows an old binary had
\* claimed: in progress, generation 0, no lease.
Init ==
    /\ status \in [Exec -> {"absent", "in_progress"}]
    /\ generation = [e \in Exec |-> 0]
    /\ acked = {}

Insert(e) ==
    /\ status[e] = "absent"
    /\ status' = [status EXCEPT ![e] = "emitted"]
    /\ UNCHANGED <<generation, acked>>

Claim(e) ==
    /\ status[e] = "emitted"
    /\ status' = [status EXCEPT ![e] = "in_progress"]
    /\ generation' = [generation EXCEPT ![e] = @ + 1]
    /\ UNCHANGED acked

Requeue(e) ==
    /\ status[e] = "in_progress"
    /\ status' = [status EXCEPT ![e] = "emitted"]
    /\ generation' = [generation EXCEPT ![e] = IF @ = 0 THEN 1 ELSE @]
    /\ UNCHANGED acked

\* The receiver answers 2xx to generation g, which may be out of date by then.
Acknowledge(e, g) ==
    /\ g \in 1..generation[e]
    /\ ~(status[e] = "failed" /\ g = generation[e])
    /\ acked' = acked \union {<<e, g>>}
    /\ UNCHANGED <<status, generation>>

Deliver(e) ==
    /\ status[e] = "in_progress"
    /\ <<e, generation[e]>> \in acked
    /\ status' = [status EXCEPT ![e] = "delivered"]
    /\ UNCHANGED <<generation, acked>>

Fail(e) ==
    /\ status[e] = "in_progress"
    /\ generation[e] > 0
    /\ <<e, generation[e]>> \notin acked
    /\ status' = [status EXCEPT ![e] = "failed"]
    /\ UNCHANGED <<generation, acked>>

Delete(e) ==
    /\ status[e] \notin {"absent", "deleted"}
    /\ status' = [status EXCEPT ![e] = "deleted"]
    /\ UNCHANGED <<generation, acked>>

Next ==
    \E e \in Exec :
        \/ Insert(e) \/ Claim(e) \/ Requeue(e)
        \/ Deliver(e) \/ Fail(e) \/ Delete(e)
        \/ \E g \in 1..generation[e] : Acknowledge(e, g)

Spec == Init /\ [][Next]_vars

=============================================================================
