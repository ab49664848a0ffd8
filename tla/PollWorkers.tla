----------------------------- MODULE PollWorkers -----------------------------
(***************************************************************************)
(* Delivery in database mode: poll workers reserve delivery slots, claim as  *)
(* many executions as they reserved, and hand each to a goroutine that gives *)
(* its slot back when the delivery ends.                                    *)
(*                                                                          *)
(* Source: internal/dispatcher/dispatcher.go, RunDBPoll and dbPollWorker.   *)
(* What a claim and a delivery do to an execution is ExecutionOwnership's;  *)
(* here executions are counted.                                             *)
(***************************************************************************)
EXTENDS Naturals, FiniteSets

CONSTANTS
    Worker,        \* poll workers
    SlotsEach,     \* delivery slots per worker: 4 in the code
    MaxReserve,    \* slots reserved for one claim: at most 16
    MaxIdle,       \* the longest idle delay, in poll intervals
    MaxQueue       \* bound: executions waiting at once

ASSUME WorkerAssumption ==
    /\ IsFiniteSet(Worker) /\ Worker # {}
    /\ SlotsEach \in Nat \ {0} /\ MaxReserve \in Nat \ {0}
    /\ MaxIdle \in Nat \ {0} /\ MaxQueue \in Nat

VARIABLES
    used,        \* slots taken: the length of the channel
    worker,      \* what each poll worker is doing
    running,     \* deliveries in progress
    waiting,       \* executions waiting to be claimed
    supply,      \* executions the scheduler has still to insert
    cancelled,   \* the dispatcher's context
    returned     \* RunDBPoll has returned

pollVars == <<used, worker, running, waiting, supply, cancelled, returned>>

Cap == SlotsEach * Cardinality(Worker)
Least(a, b) == IF a < b THEN a ELSE b
Fresh == [pc |-> "top", reserved |-> 0, delay |-> 1]

PollInit ==
    /\ used = 0 /\ running = 0 /\ waiting = 0 /\ supply = MaxQueue
    /\ worker = [w \in Worker |-> Fresh]
    /\ cancelled = FALSE /\ returned = FALSE

Goes(w, pc, n) == worker' = [worker EXCEPT ![w].pc = pc, ![w].reserved = n]
OnlyWorker == UNCHANGED <<used, running, waiting, supply, cancelled, returned>>

\* Every blocking point of the loop also watches the context, and so does its
\* top.
Exit(w) ==
    /\ cancelled /\ worker[w].pc \in {"top", "slot", "wait", "retry"}
    /\ Goes(w, "exited", 0)
    /\ OnlyWorker

\* Mutant: the top of the loop does not look at the context.
CheckDropped(w) ==
    /\ worker[w].pc = "top"
    /\ Goes(w, "slot", 0)
    /\ OnlyWorker

Check(w) ==
    /\ worker[w].pc = "top" /\ ~cancelled
    /\ Goes(w, "slot", 0)
    /\ OnlyWorker

\* The first slot is waited for; with the context done as well, either case of
\* the select may be taken.
Reserve(w) ==
    /\ worker[w].pc = "slot" /\ used < Cap
    /\ used' = used + 1
    /\ Goes(w, "more", 1)
    /\ UNCHANGED <<running, waiting, supply, cancelled, returned>>

\* More slots are taken only while they are free.
ReserveMore(w) ==
    /\ worker[w].pc = "more"
    /\ IF worker[w].reserved < Least(MaxReserve, Cap) /\ used < Cap
         THEN /\ used' = used + 1
              /\ Goes(w, "more", worker[w].reserved + 1)
         ELSE /\ used' = used
              /\ Goes(w, "claim", worker[w].reserved)
    /\ UNCHANGED <<running, waiting, supply, cancelled, returned>>

\* Mutant: slots that were not needed are kept.
KeepReserved(w, n) ==
    /\ worker[w].pc = "claim" /\ n > 0
    /\ n <= worker[w].reserved /\ n <= waiting
    /\ used' = used
    /\ running' = running + n
    /\ waiting' = waiting - n
    /\ worker' = [worker EXCEPT ![w] = Fresh]
    /\ UNCHANGED <<supply, cancelled, returned>>

\* A claim of n executions: the slots it did not need are given back, every
\* execution gets a goroutine, the idle delay starts over.
Claim(w, n) ==
    /\ worker[w].pc = "claim" /\ n > 0
    /\ n <= worker[w].reserved /\ n <= waiting
    /\ used' = used - (worker[w].reserved - n)
    /\ running' = running + n
    /\ waiting' = waiting - n
    /\ worker' = [worker EXCEPT ![w] = Fresh]
    /\ UNCHANGED <<supply, cancelled, returned>>

\* Nothing to claim, or only rows another worker's claim has locked: all slots
\* are given back and the worker waits.
ClaimNothing(w) ==
    /\ worker[w].pc = "claim"
    /\ waiting = 0 \/ \E v \in Worker \ {w} : worker[v].pc = "claim"
    /\ used' = used - worker[w].reserved
    /\ worker' = [worker EXCEPT ![w].pc = "wait", ![w].reserved = 0]
    /\ UNCHANGED <<running, waiting, supply, cancelled, returned>>

\* The delay doubles while that stays below the limit.
NextDelay(d) == IF 2 * d < MaxIdle THEN d * 2 ELSE MaxIdle

Wake(w) ==
    /\ worker[w].pc = "wait"
    /\ worker' = [worker EXCEPT ![w].pc = "top", ![w].delay = NextDelay(@)]
    /\ OnlyWorker

\* Mutant: a failed query ends the worker.
ErrorReturns(w) ==
    /\ worker[w].pc = "claim"
    /\ used' = used - worker[w].reserved
    /\ Goes(w, "exited", 0)
    /\ UNCHANGED <<running, waiting, supply, cancelled, returned>>

\* A failed query: the slots are given back; the worker retries after the poll
\* interval, unless the context is done.
ClaimFails(w) ==
    /\ worker[w].pc = "claim"
    /\ used' = used - worker[w].reserved
    /\ Goes(w, IF cancelled THEN "exited" ELSE "retry", 0)
    /\ UNCHANGED <<running, waiting, supply, cancelled, returned>>

Retry(w) ==
    /\ worker[w].pc = "retry"
    /\ Goes(w, "top", 0)
    /\ OnlyWorker

\* dispatchOwned returns, whatever its outcome, and frees the slot.
DeliveryEnds ==
    /\ running > 0
    /\ running' = running - 1
    /\ used' = used - 1
    /\ UNCHANGED <<worker, waiting, supply, cancelled, returned>>

Arrives ==
    /\ supply > 0
    /\ supply' = supply - 1
    /\ waiting' = waiting + 1
    /\ UNCHANGED <<used, worker, running, cancelled, returned>>

Cancel ==
    /\ ~cancelled
    /\ cancelled' = TRUE
    /\ UNCHANGED <<used, worker, running, waiting, supply, returned>>

\* The poll workers are waited for, then the deliveries.
Returns ==
    /\ ~returned
    /\ \A w \in Worker : worker[w].pc = "exited"
    /\ running = 0
    /\ returned' = TRUE
    /\ UNCHANGED <<used, worker, running, waiting, supply, cancelled>>

Work(w) ==
    \/ Exit(w) \/ Check(w) \/ Reserve(w) \/ ReserveMore(w) \/ ClaimNothing(w) \/ Wake(w) \/ Retry(w)
    \/ \E n \in 1 .. MaxQueue : Claim(w, n)

PollNext ==
    \/ \E w \in Worker : Work(w) \/ ClaimFails(w)
    \/ DeliveryEnds \/ Arrives \/ Cancel \/ Returns

\* Goroutines are scheduled, deliveries end (each attempt has a timeout and the
\* attempts a last one), and the database does not fail for ever.
PollFairness ==
    /\ \A w \in Worker :
          /\ WF_pollVars(Work(w))
          /\ SF_pollVars(\E n \in 1 .. MaxQueue : Claim(w, n))
    /\ WF_pollVars(DeliveryEnds) /\ WF_pollVars(Returns)

PollSpec == PollInit /\ [][PollNext]_pollVars /\ PollFairness
-----------------------------------------------------------------------------
\* The counters are in range; an idle delay never exceeds its limit.
PollTypeOK ==
    /\ used \in 0 .. Cap /\ running \in Nat /\ waiting \in 0 .. MaxQueue
    /\ supply \in 0 .. MaxQueue /\ cancelled \in BOOLEAN /\ returned \in BOOLEAN
    /\ worker \in [Worker -> [pc : {"top", "slot", "more", "claim", "wait", "retry", "exited"},
                              reserved : 0 .. MaxReserve, delay : 1 .. MaxIdle]]

\* The slots workers hold for their next claim, each worker's numbered from 1.
Held == {s \in Worker \X (1 .. MaxReserve) : s[2] <= worker[s[1]].reserved}
Reserved == Cardinality(Held)

\* Every slot taken is one a worker holds for its next claim or one a delivery
\* in progress occupies: none leaks on an empty or failed claim, so deliveries
\* never exceed the slots ("without unbounded claims or goroutines"); and when
\* RunDBPoll returns all are free, whatever order workers and deliveries ended
\* in ("Blocks until poll workers and deliveries exit").
SlotsExact == used = Reserved + running /\ (returned => used = 0)

\* Until shutdown, every waiting execution is claimed, although slow deliveries
\* may occupy all slots, claims may fail and the workers may all be idle when
\* it arrives.
QueueDrains == (waiting > 0) ~> (waiting = 0 \/ cancelled)

\* After cancellation the workers stop, the deliveries end and RunDBPoll
\* returns.
CancelReturns == cancelled ~> returned
=============================================================================
