------------------------------ MODULE MCDrain ------------------------------
(***************************************************************************)
(* ChannelMode without faults, remembering what was on the bus when the    *)
(* dispatcher was cancelled.                                               *)
(***************************************************************************)
EXTENDS ChannelMode, SequencesExt

VARIABLE buffered      \* events on the bus at cancelDispatcher

DrainNext ==
    /\ Produce \/ Emit \/ Reconcile \/ Dispatch \/ Drain \/ DrainTimeout \/ Signal \/ Shutdown
    /\ buffered' = IF stage # "dispatcher" /\ stage' = "dispatcher" THEN ToSet(queue) ELSE buffered

DrainInit == Init /\ buffered = {}

DrainSpec == DrainInit /\ [][DrainNext]_<<vars, buffered>>

\* Dispatcher.Run: "After cancellation, it drains remaining buffered events with
\* a timeout": with no fault, no drain timeout and no producer left running, what
\* was on the bus at the cancellation has been dispatched when the process exits.
DrainDispatches ==
    stage = "exited" /\ ~timedOut /\ ~forced => \A e \in buffered : row[e] # "emitted"

=============================================================================
