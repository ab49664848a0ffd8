---------------------------- MODULE CircuitBreaker ----------------------------
(***************************************************************************)
(* internal/circuitbreaker for one URL (the map's entries do not interact) *)
(* and the delivery goroutines of one process that consult it in           *)
(* dispatchOwned.  Every method holds the mutex, so it is one step.  The   *)
(* time since openedAt is kept as the cooldown left.                       *)
(***************************************************************************)
EXTENDS Integers, FiniteSets

CONSTANTS
    Proc,              \* delivery goroutines
    Threshold,         \* failures that open the circuit
    Probes,            \* halfOpenProbes
    Cooldown,          \* cooldown, in clock ticks
    MaxFailures        \* bound: failures of the endpoint

ASSUME ProcAssumption == IsFiniteSet(Proc)
ASSUME BreakerAssumption ==
    /\ Threshold \in Nat \ {0} /\ Probes \in Nat \ {0}
    /\ Cooldown \in Nat /\ MaxFailures \in Nat

VARIABLES
    entry,             \* cb.states[url]; obj is the identity of the *urlState
    made,              \* urlStates allocated so far
    pc,                \* what a goroutine is doing
    permit,            \* its cancelProbe closure: the urlState and epoch it captured
    failures           \* failures so far

vars == <<entry, made, pc, permit, failures>>

\* Absence is the closed state.
Absent == [obj |-> 0, state |-> "absent", fails |-> 0, cool |-> 0, probes |-> 0, epoch |-> 0]
NoPermit == <<0, 0>>

Entry == [obj : Nat, state : {"absent", "closed", "open", "half_open"},
          fails : 0..Threshold, cool : 0..Cooldown, probes : 0..Probes, epoch : Nat]

TypeOK ==
    /\ entry \in Entry
    /\ made \in Nat
    /\ pc \in [Proc -> {"idle", "sending", "returning"}]
    /\ permit \in [Proc -> Nat \X Nat]
    /\ failures \in 0..MaxFailures

Init ==
    /\ entry = Absent
    /\ made = 0
    /\ pc = [p \in Proc |-> "idle"]
    /\ permit = [p \in Proc |-> NoPermit]
    /\ failures = 0

Admit(p, held) ==
    /\ pc[p] = "idle"
    /\ pc' = [pc EXCEPT ![p] = "sending"]
    /\ permit' = [permit EXCEPT ![p] = held]
    /\ UNCHANGED <<made, failures>>

\* AllowWithCancel, when it admits; ErrCircuitOpen changes nothing.
AllowClosed(p) ==
    /\ entry.state \in {"absent", "closed"}
    /\ Admit(p, NoPermit)
    /\ UNCHANGED entry

\* Mutant: reopening does not start a new epoch.
AllowFirstProbeSameEpoch(p) ==
    /\ entry.state = "open" /\ entry.cool = 0
    /\ entry' = [entry EXCEPT !.state = "half_open", !.probes = 1]
    /\ Admit(p, <<entry.obj, entry.epoch>>)

AllowFirstProbe(p) ==
    /\ entry.state = "open" /\ entry.cool = 0
    /\ entry' = [entry EXCEPT !.state = "half_open", !.probes = 1, !.epoch = @ + 1]
    /\ Admit(p, <<entry.obj, entry.epoch + 1>>)

AllowProbe(p) ==
    /\ entry.state = "half_open" /\ entry.probes < Probes
    /\ entry' = [entry EXCEPT !.probes = @ + 1]
    /\ Admit(p, <<entry.obj, entry.epoch>>)

Answered(p) ==
    /\ pc[p] = "sending"
    /\ pc' = [pc EXCEPT ![p] = "returning"]
    /\ UNCHANGED permit

\* Mutant: a successful probe does not close the circuit.
RecordSuccessWhenClosed(p) ==
    /\ Answered(p)
    /\ entry' = IF entry.state = "closed" THEN Absent ELSE entry
    /\ UNCHANGED <<made, failures>>

RecordSuccess(p) ==
    /\ Answered(p)
    /\ entry' = Absent
    /\ UNCHANGED <<made, failures>>

\* consecutiveFailures is only compared with the threshold, and counted up to it.
RecordFailure(p) ==
    LET new == [obj |-> made + 1, state |-> "closed", fails |-> 0, cool |-> 0,
                probes |-> 0, epoch |-> 0]
        s == IF entry.state = "absent" THEN new ELSE entry
        opens == s.fails + 1 >= Threshold
    IN
    /\ failures < MaxFailures
    /\ Answered(p)
    /\ entry' = IF opens
                THEN [s EXCEPT !.fails = Threshold, !.state = "open", !.cool = Cooldown]
                ELSE [s EXCEPT !.fails = @ + 1]
    /\ made' = IF entry.state = "absent" THEN made + 1 ELSE made
    /\ failures' = failures + 1

\* The lease is lost, the process shuts down, or the destination is blocked:
\* dispatchOwned returns without telling the breaker anything.
Abandon(p) ==
    /\ Answered(p)
    /\ UNCHANGED <<entry, made, failures>>

\* dispatchOwned returns: the deferred cancelProbe runs, after any record.
Return(p) ==
    /\ pc[p] = "returning"
    /\ pc' = [pc EXCEPT ![p] = "idle"]
    /\ permit' = [permit EXCEPT ![p] = NoPermit]
    /\ entry' = IF /\ entry.state = "half_open"
                   /\ permit[p] = <<entry.obj, entry.epoch>>
                   /\ entry.probes > 0
                THEN [entry EXCEPT !.probes = @ - 1] ELSE entry
    /\ UNCHANGED <<made, failures>>

Tick ==
    /\ entry.cool > 0
    /\ entry' = [entry EXCEPT !.cool = @ - 1]
    /\ UNCHANGED <<made, pc, permit, failures>>

Allow(p) == AllowClosed(p) \/ AllowFirstProbe(p) \/ AllowProbe(p)

Next ==
    \/ \E p \in Proc :
        \/ Allow(p) \/ RecordSuccess(p) \/ RecordFailure(p) \/ Abandon(p) \/ Return(p)
    \/ Tick

\* Deliveries keep coming; they do not all end without an answer; time passes.
Fairness ==
    /\ \A p \in Proc : WF_vars(Allow(p)) /\ SF_vars(RecordSuccess(p)) /\ WF_vars(Return(p))
    /\ WF_vars(Tick)

Spec == Init /\ [][Next]_vars
FairSpec == Spec /\ Fairness

Holders == {p \in Proc : permit[p] = <<entry.obj, entry.epoch>>}

\* While the circuit is half-open the probe count is the number of deliveries in
\* flight that this opening admitted: no abandoned probe keeps its permit (the
\* circuit would refuse everyone for good), none gives back one of a later
\* opening (more than Probes would be in flight).
PermitsExact ==
    entry.state = "half_open" => entry.probes = Cardinality(Holders)

\* Once the endpoint answers again, the circuit closes again, although probes
\* may be abandoned and late failures reopen it.
EventuallyCloses == []<>(entry.state \in {"absent", "closed"})

=============================================================================
