---------------------------- MODULE DeliveryProofs ---------------------------
(***************************************************************************)
(* Deliveries, for any number of them: the probes of the circuit breaker,  *)
(* for any threshold, probe limit and cooldown; the slots of the poll      *)
(* workers; where a webhook request may go, through redirects and reused   *)
(* connections; and the pages on which the admin UI lists them.            *)
(***************************************************************************)
EXTENDS CircuitBreaker, Destination, PollWorkers, RunHistory, FiniteSetTheorems, TLAPS

\* No permit is of a urlState still to be allocated, or of an epoch still to come.
PermitsPast ==
    /\ entry.obj <= made
    /\ entry.state = "absent" <=> entry.obj = 0
    /\ \A p \in Proc :
        /\ permit[p][1] <= made
        /\ permit[p][1] = 0 => permit[p] = NoPermit
        /\ permit[p][1] = entry.obj => permit[p][2] <= entry.epoch
        /\ pc[p] = "idle" => permit[p] = NoPermit

IInv == TypeOK /\ PermitsPast /\ PermitsExact

-----------------------------------------------------------------------------
\* With no entry and no permit the invariant holds.
LEMMA InitInv == Init => IInv
  BY BreakerAssumption
  DEF Init, IInv, TypeOK, Entry, PermitsPast, PermitsExact, Absent, NoPermit

\* Taking and giving back permits changes the count of their holders by one.
LEMMA HoldersFinite == IsFiniteSet(Holders) /\ Cardinality(Holders) \in Nat
<1>1. Holders \subseteq Proc
  BY DEF Holders
<1> QED
  BY <1>1, ProcAssumption, FS_Subset, FS_CardinalityType

\* The first probe after the cooldown opens an epoch and takes its first permit.
LEMMA FirstProbeInv ==
    ASSUME IInv, NEW p \in Proc, AllowFirstProbe(p)
    PROVE  IInv'
<1> USE BreakerAssumption DEF IInv, TypeOK, AllowFirstProbe, Admit
<1>1. TypeOK'
  <2>1. entry.epoch + 1 \in Nat /\ 1 \in 0..Probes
    BY DEF Entry
  <2>2. entry' \in Entry
    BY <2>1, Zenon DEF Entry
  <2> QED
    BY <2>1, <2>2 DEF Entry, NoPermit
<1>2. PermitsPast'
  BY DEF PermitsPast, NoPermit, Entry
<1>3. Holders' = {p}
  BY DEF Holders, PermitsPast, NoPermit, Entry
<1>4. PermitsExact'
  BY <1>3, FS_Singleton, Zenon DEF PermitsExact, Entry
<1> QED
  BY <1>1, <1>2, <1>4

\* A further probe takes one permit of the epoch.
LEMMA ProbeInv ==
    ASSUME IInv, NEW p \in Proc, AllowProbe(p)
    PROVE  IInv'
<1> USE BreakerAssumption DEF IInv, TypeOK, AllowProbe, Admit
<1>1. TypeOK'
  <2>1. entry' \in Entry
    BY DEF Entry
  <2> QED
    BY <2>1 DEF Entry, NoPermit
<1>2. PermitsPast'
  BY DEF PermitsPast, NoPermit, Entry
<1>3. p \notin Holders /\ Holders' = Holders \union {p}
  BY DEF Holders, PermitsPast, NoPermit, Entry
<1>4. Cardinality(Holders') = Cardinality(Holders) + 1
  BY <1>3, HoldersFinite, FS_AddElement, Zenon
<1>5. PermitsExact'
  BY <1>4, HoldersFinite DEF PermitsExact, Entry
<1> QED
  BY <1>1, <1>2, <1>5

\* A permit is given back once, and counts only in its own epoch.
LEMMA ReturnInv ==
    ASSUME IInv, NEW p \in Proc, Return(p)
    PROVE  IInv'
<1> USE BreakerAssumption DEF IInv, TypeOK, Return
<1>1. TypeOK'
  <2>1. entry' \in Entry
    BY DEF Entry
  <2> QED
    BY <2>1 DEF Entry, NoPermit
<1>2. PermitsPast'
  BY DEF PermitsPast, NoPermit, Entry
<1>3. PermitsExact'
  <2> SUFFICES ASSUME entry.state = "half_open" PROVE PermitsExact'
    BY DEF PermitsExact
  <2>1. CASE p \in Holders
    <3>1. Holders' = Holders \ {p}
      BY <2>1 DEF Holders, PermitsPast, NoPermit
    <3>2. Cardinality(Holders') = Cardinality(Holders) - 1 /\ Cardinality(Holders) > 0
      BY <2>1, <3>1, HoldersFinite, FS_RemoveElement, FS_EmptySet
    <3> QED
      BY <2>1, <3>2, HoldersFinite DEF PermitsExact, Holders
  <2>2. CASE p \notin Holders
    <3>1. Holders' = Holders
      BY <2>2 DEF Holders, PermitsPast, NoPermit
    <3> QED
      BY <2>2, <3>1, Zenon DEF PermitsExact, Holders
  <2> QED
    BY <2>1, <2>2
<1> QED
  BY <1>1, <1>2, <1>3

\* A failure may allocate the entry or open it; the permits stay those of its epoch.
LEMMA FailureInv ==
    ASSUME IInv, NEW p \in Proc, RecordFailure(p)
    PROVE  IInv'
<1> USE BreakerAssumption DEF IInv, TypeOK, RecordFailure, Answered, Absent
<1>1. TypeOK'
  <2>1. entry' \in Entry
    <3> DEFINE new == [obj |-> made + 1, state |-> "closed", fails |-> 0, cool |-> 0,
                       probes |-> 0, epoch |-> 0]
               s == IF entry.state = "absent" THEN new ELSE entry
    <3>1. new \in Entry
      BY DEF Entry
    <3>2. s \in Entry
      BY <3>1
    <3>3. entry' = IF s.fails + 1 >= Threshold
                   THEN [s EXCEPT !.fails = Threshold, !.state = "open", !.cool = Cooldown]
                   ELSE [s EXCEPT !.fails = @ + 1]
      OBVIOUS
    <3> HIDE DEF s
    <3>4. CASE s.fails + 1 >= Threshold
      <4>1. Threshold \in 0..Threshold /\ Cooldown \in 0..Cooldown
        BY BreakerAssumption
      <4>2. entry' = [s EXCEPT !.fails = Threshold, !.state = "open", !.cool = Cooldown]
        BY <3>3, <3>4
      <4>3. [s EXCEPT !.fails = Threshold] \in Entry
        BY <3>2, <4>1 DEF Entry
      <4>4. [[s EXCEPT !.fails = Threshold] EXCEPT !.state = "open"] \in Entry
        BY <4>3, Zenon DEF Entry
      <4>5. [[[s EXCEPT !.fails = Threshold] EXCEPT !.state = "open"]
              EXCEPT !.cool = Cooldown] \in Entry
        BY <4>4, <4>1, Zenon DEF Entry
      <4> QED
        BY <4>2, <4>5, Zenon
    <3>5. CASE ~(s.fails + 1 >= Threshold)
      <4>1. s.fails + 1 \in 0..Threshold
        BY <3>2, <3>5 DEF Entry
      <4> QED
        BY <3>2, <3>3, <3>5, <4>1 DEF Entry
    <3> QED
      BY <3>4, <3>5
  <2> QED
    BY <2>1 DEF Entry, NoPermit
<1>2. PermitsPast'
  BY DEF PermitsPast, NoPermit, Entry
<1>3. PermitsExact'
  <2> SUFFICES ASSUME entry'.state = "half_open" PROVE PermitsExact'
    BY DEF PermitsExact
  <2>1. /\ entry.state = "half_open" /\ entry'.probes = entry.probes
        /\ entry'.obj = entry.obj /\ entry'.epoch = entry.epoch
    BY DEF Entry
  <2>2. Holders' = Holders
    BY <2>1 DEF Holders
  <2> QED
    BY <2>1, <2>2 DEF PermitsExact
<1> QED
  BY <1>1, <1>2, <1>3

\* The other steps leave the permits of a half-open circuit alone.
LEMMA OtherInv ==
    ASSUME IInv, NEW p \in Proc,
           AllowClosed(p) \/ RecordSuccess(p) \/ Abandon(p)
    PROVE  IInv'
<1> USE BreakerAssumption DEF IInv, TypeOK
<1>1. CASE AllowClosed(p)
  BY <1>1 DEF AllowClosed, Admit, PermitsPast, PermitsExact, NoPermit
<1>2. CASE RecordSuccess(p)
  BY <1>2 DEF RecordSuccess, Answered, PermitsPast, PermitsExact, Absent, NoPermit, Entry
<1>3. CASE Abandon(p)
  BY <1>3 DEF Abandon, Answered, PermitsPast, PermitsExact, Holders
<1> QED
  BY <1>1, <1>2, <1>3

\* Every step keeps the inductive invariant.
LEMMA NextInv == IInv /\ [Next]_vars => IInv'
<1> SUFFICES ASSUME IInv, [Next]_vars PROVE IInv'
  OBVIOUS
<1>1. CASE UNCHANGED vars
  BY <1>1 DEF vars, IInv, TypeOK, PermitsPast, PermitsExact, Holders
<1>2. CASE Tick
  BY <1>2, BreakerAssumption DEF Tick, IInv, TypeOK, PermitsPast, PermitsExact, Holders, Entry
<1>3. ASSUME NEW p \in Proc,
             \/ Allow(p) \/ RecordSuccess(p) \/ RecordFailure(p) \/ Abandon(p) \/ Return(p)
      PROVE  IInv'
  BY <1>3, FirstProbeInv, ProbeInv, ReturnInv, FailureInv, OtherInv DEF Allow
<1> QED
  BY <1>1, <1>2, <1>3 DEF Next

\* The inductive invariant holds in every reachable state.
THEOREM Invariance == Spec => []IInv
BY InitInv, NextInv, PTL DEF Spec

\* The breaker's state keeps its type: never more than Probes permits, and a
\* failure count that stops at the threshold (AllowWithCancel, RecordFailure).
THEOREM TypeCorrect == Spec => []TypeOK
<1>1. IInv => TypeOK
  BY DEF IInv
<1> QED
  BY <1>1, Invariance, PTL

\* probesInFlight counts exactly the goroutines that still hold a permit of
\* the current epoch of the current urlState: no permit leaks, none is
\* returned twice (cancelProbe).
THEOREM PermitsAreExact == Spec => []PermitsExact
<1>1. IInv => PermitsExact
  BY DEF IInv
<1> QED
  BY <1>1, Invariance, PTL

-----------------------------------------------------------------------------
(***************************************************************************)
(* PollWorkers.  A worker holds slots only between its reservation and the *)
(* end of its claim, and RunDBPoll has returned only if there is nobody    *)
(* left to take one.                                                       *)
(***************************************************************************)
PollIInv ==
    /\ PollTypeOK
    /\ waiting + supply <= MaxQueue
    /\ \A w \in Worker : worker[w].pc \notin {"more", "claim"} => worker[w].reserved = 0
    /\ returned => running = 0 /\ \A w \in Worker : worker[w].pc = "exited"
    /\ used = Reserved + running

\* The capacity of the channel of slots, whatever it is (RunDBPoll).
LEMMA CapIsNat == Cap \in Nat
<1>1. Cardinality(Worker) \in Nat
  BY WorkerAssumption, FS_CardinalityType
<1>2. \A a, b \in Nat : a * b \in Nat
  BY SMT
<1>3. QED
  BY <1>1, <1>2, WorkerAssumption DEF Cap

\* What a worker is (dbPollWorker).
WorkerState == [pc : {"top", "slot", "more", "claim", "wait", "retry", "exited"},
                reserved : 0 .. MaxReserve, delay : 1 .. MaxIdle]

\* The held slots are finitely many.
LEMMA HeldFinite == IsFiniteSet(Held) /\ Reserved \in Nat
<1>1. IsFiniteSet(Worker \X (1 .. MaxReserve))
  <2>1. IsFiniteSet(1 .. MaxReserve)
    BY WorkerAssumption, FS_Interval
  <2>2. QED
    BY <2>1, WorkerAssumption, FS_Product
<1>2. Held \subseteq Worker \X (1 .. MaxReserve)
  BY DEF Held
<1>3. QED
  BY <1>1, <1>2, FS_Subset, FS_CardinalityType DEF Reserved

\* A worker that takes one more slot makes the held slots one more.
LEMMA HeldGrows ==
    ASSUME worker \in [Worker -> WorkerState], NEW w \in Worker,
           worker[w].reserved < MaxReserve,
           worker' \in [Worker -> WorkerState],
           worker'[w].reserved = worker[w].reserved + 1,
           \A v \in Worker \ {w} : worker'[v].reserved = worker[v].reserved
    PROVE  Reserved' = Reserved + 1
<1> DEFINE r == worker[w].reserved
<1>1. r \in 0 .. MaxReserve /\ MaxReserve \in Nat
  BY WorkerAssumption DEF WorkerState
<1>2. <<w, r + 1>> \in Worker \X (1 .. MaxReserve) /\ <<w, r + 1>> \notin Held
  BY <1>1 DEF Held
<1>3. Held' = Held \cup {<<w, r + 1>>}
  <2>1. ASSUME NEW v \in Worker, NEW n \in 1 .. MaxReserve
        PROVE  n <= worker'[v].reserved <=> (n <= worker[v].reserved \/ <<v, n>> = <<w, r + 1>>)
    <3>1. CASE v = w
      BY <1>1, <3>1 DEF WorkerState
    <3>2. CASE v # w
      BY <3>2
    <3>3. QED
      BY <3>1, <3>2
  <2>2. QED
    BY <1>2, <2>1 DEF Held
<1>4. QED
  BY <1>2, <1>3, HeldFinite, FS_AddElement, Zenon DEF Reserved

\* A worker that gives its slots back makes the held slots fewer by as many.
LEMMA HeldShrinks ==
    ASSUME worker \in [Worker -> WorkerState], NEW w \in Worker,
           worker' \in [Worker -> WorkerState],
           worker'[w].reserved = 0,
           \A v \in Worker \ {w} : worker'[v].reserved = worker[v].reserved
    PROVE  Reserved' = Reserved - worker[w].reserved /\ Reserved >= worker[w].reserved
<1> DEFINE r == worker[w].reserved
           mine == {w} \X (1 .. r)
<1>1. r \in 0 .. MaxReserve /\ MaxReserve \in Nat
  BY WorkerAssumption DEF WorkerState
<1>2. IsFiniteSet(mine) /\ Cardinality(mine) = r
  <2>1. IsFiniteSet({w}) /\ Cardinality({w}) = 1
    BY FS_Singleton, Zenon
  <2>2. IsFiniteSet(1 .. r) /\ Cardinality(1 .. r) = r
    <3>1. r \in Int /\ 1 \in Int /\ r >= 0
      BY <1>1
    <3> HIDE DEF r
    <3>2. IsFiniteSet(1 .. r) /\ Cardinality(1 .. r) = IF 1 > r THEN 0 ELSE r - 1 + 1
      BY <3>1, FS_Interval
    <3>3. QED
      BY <3>1, <3>2
  <2>3. IsFiniteSet(mine) /\ Cardinality(mine) = Cardinality({w}) * Cardinality(1 .. r)
    BY <2>1, <2>2, FS_Product, Zenon
  <2>4. QED
    BY <1>1, <2>1, <2>2, <2>3
<1>3. mine \subseteq Held
  BY <1>1 DEF Held
<1>4. Held' = Held \ mine
  <2>1. ASSUME NEW v \in Worker, NEW n \in 1 .. MaxReserve
        PROVE  n <= worker'[v].reserved <=> (n <= worker[v].reserved /\ <<v, n>> \notin mine)
    <3>1. CASE v = w
      BY <1>1, <3>1 DEF WorkerState
    <3>2. CASE v # w
      BY <3>2
    <3>3. QED
      BY <3>1, <3>2
  <2>2. QED
    BY <2>1 DEF Held
<1>5. Cardinality(Held \ mine) = Cardinality(Held) - Cardinality(Held \cap mine)
  BY HeldFinite, FS_Difference, Zenon
<1>6. Held \cap mine = mine
  BY <1>3
<1>7. Cardinality(mine) <= Cardinality(Held)
  BY <1>3, HeldFinite, FS_Subset
<1>8. QED
  BY <1>1, <1>2, <1>4, <1>5, <1>6, <1>7, HeldFinite, Zenon DEF Reserved

\* Nothing is held where no reservation changes.
LEMMA HeldSame ==
    ASSUME \A v \in Worker : worker'[v].reserved = worker[v].reserved
    PROVE  Reserved' = Reserved
<1>1. Held' = Held
  BY DEF Held
<1>2. QED
  BY <1>1 DEF Reserved

\* Nothing is held by a fresh worker (RunDBPoll).
LEMMA PollStarts == PollInit => PollIInv
<1> SUFFICES ASSUME PollInit PROVE PollIInv
  OBVIOUS
<1>1. Held = {}
  BY DEF PollInit, Fresh, Held
<1>2. Reserved = 0
  BY <1>1, FS_EmptySet DEF Reserved
<1>3. worker \in [Worker -> WorkerState] /\ \A w \in Worker : worker[w].reserved = 0
  BY WorkerAssumption DEF PollInit, Fresh, WorkerState
<1>4. used = Reserved + running /\ waiting + supply <= MaxQueue /\ ~returned
  BY <1>2, WorkerAssumption DEF PollInit
<1>5. /\ used \in 0 .. Cap /\ running \in Nat /\ waiting \in 0 .. MaxQueue
      /\ supply \in 0 .. MaxQueue
  BY CapIsNat, WorkerAssumption DEF PollInit
<1>6. cancelled \in BOOLEAN /\ returned \in BOOLEAN
  BY Zenon DEF PollInit
<1>7. PollTypeOK
  BY <1>3, <1>5, <1>6 DEF PollTypeOK, WorkerState
<1>8. QED
  BY <1>3, <1>4, <1>7 DEF PollIInv

\* Steps of a worker that take and give no slot (dbPollWorker).
LEMMA PollMoves ==
    ASSUME PollIInv, NEW w \in Worker, Exit(w) \/ Check(w) \/ Wake(w) \/ Retry(w)
    PROVE  PollIInv'
<1> USE WorkerAssumption DEF PollIInv, PollTypeOK, OnlyWorker, Goes
<1>1. worker' \in [Worker -> WorkerState]
  <2>1. \A d \in 1 .. MaxIdle : NextDelay(d) \in 1 .. MaxIdle
    BY DEF NextDelay
  <2>2. QED
    BY <2>1 DEF Exit, Check, Wake, Retry, WorkerState
<1>2. \A v \in Worker : worker'[v].reserved = worker[v].reserved
  BY DEF Exit, Check, Wake, Retry
<1>3. Reserved' = Reserved
  BY <1>2, HeldSame
<1>4. returned' => \A v \in Worker : worker'[v].pc = "exited"
  BY Zenon DEF Exit, Check, Wake, Retry
<1>5. \A v \in Worker : worker'[v].pc \notin {"more", "claim"} => worker'[v].reserved = 0
  BY DEF Exit, Check, Wake, Retry
<1>6. UNCHANGED <<used, running, waiting, supply, cancelled, returned>>
  BY DEF Exit, Check, Wake, Retry
<1>7. QED
  BY <1>1, <1>3, <1>4, <1>5, <1>6 DEF WorkerState

\* Slots are taken (the selects on the channel of slots).
LEMMA PollReserves ==
    ASSUME PollIInv, NEW w \in Worker, Reserve(w) \/ ReserveMore(w)
    PROVE  PollIInv'
<1> USE WorkerAssumption, CapIsNat DEF PollIInv, PollTypeOK, Goes
<1>1. worker \in [Worker -> WorkerState] /\ worker[w] \in WorkerState /\ ~returned
  BY DEF Reserve, ReserveMore, WorkerState
<1>2. \/ used' = used /\ worker'[w].reserved = worker[w].reserved
      \/ /\ used' = used + 1 /\ used < Cap
         /\ worker[w].reserved < MaxReserve /\ worker'[w].reserved = worker[w].reserved + 1
  BY <1>1 DEF Reserve, ReserveMore, Least, WorkerState
<1>3. worker' \in [Worker -> WorkerState]
  BY <1>1 DEF Reserve, ReserveMore, Least, WorkerState
<1>4. \A v \in Worker \ {w} : worker'[v] = worker[v]
  BY DEF Reserve, ReserveMore
<1>5. worker'[w].pc \in {"more", "claim"}
  BY <1>1 DEF Reserve, ReserveMore, WorkerState
<1>6. UNCHANGED <<running, waiting, supply, cancelled, returned>>
  BY DEF Reserve, ReserveMore
<1>7. used' \in 0 .. Cap /\ used' = Reserved' + running'
  <2>1. CASE used' = used /\ worker'[w].reserved = worker[w].reserved
    <3>1. Reserved' = Reserved
      BY <1>4, <2>1, HeldSame
    <3>2. QED
      BY <1>6, <2>1, <3>1
  <2>2. CASE ~(used' = used /\ worker'[w].reserved = worker[w].reserved)
    <3>1. Reserved' = Reserved + 1
      BY <1>1, <1>2, <1>3, <1>4, <2>2, HeldGrows
    <3>2. QED
      BY <1>2, <1>6, <2>2, <3>1, HeldFinite
  <2>3. QED
    BY <2>1, <2>2
<1>8. QED
  BY <1>1, <1>3, <1>4, <1>5, <1>6, <1>7 DEF WorkerState

\* A claim gives back what it does not need, or everything (ClaimNext, ReleaseSlots).
LEMMA PollClaims ==
    ASSUME PollIInv, NEW w \in Worker,
           ClaimNothing(w) \/ ClaimFails(w) \/ \E n \in 1 .. MaxQueue : Claim(w, n)
    PROVE  PollIInv'
<1> USE WorkerAssumption, CapIsNat DEF PollIInv, PollTypeOK, Goes
<1>1. worker \in [Worker -> WorkerState] /\ worker[w] \in WorkerState /\ ~returned
  BY DEF ClaimNothing, ClaimFails, Claim, WorkerState
<1>2. PICK n \in Nat :
        /\ n <= worker[w].reserved /\ n <= waiting
        /\ used' = used - (worker[w].reserved - n)
        /\ running' = running + n /\ waiting' = waiting - n
  <2>1. CASE ClaimNothing(w) \/ ClaimFails(w)
    <3>1. /\ 0 <= worker[w].reserved /\ 0 <= waiting
          /\ used' = used - (worker[w].reserved - 0)
          /\ running' = running + 0 /\ waiting' = waiting - 0
      BY <1>1, <2>1 DEF ClaimNothing, ClaimFails, WorkerState
    <3>2. QED
      BY <3>1
  <2>2. CASE \E n \in 1 .. MaxQueue : Claim(w, n)
    BY <2>2 DEF Claim
  <2>3. QED
    BY <2>1, <2>2
<1>3. worker' \in [Worker -> WorkerState]
  BY <1>1 DEF ClaimNothing, ClaimFails, Claim, WorkerState, Fresh
<1>4. \A v \in Worker \ {w} : worker'[v] = worker[v]
  BY DEF ClaimNothing, ClaimFails, Claim
<1>5. worker'[w].reserved = 0
  BY DEF ClaimNothing, ClaimFails, Claim, Fresh
<1>6. UNCHANGED <<supply, cancelled, returned>>
  BY DEF ClaimNothing, ClaimFails, Claim
<1>7. Reserved' = Reserved - worker[w].reserved /\ Reserved >= worker[w].reserved
  BY <1>1, <1>3, <1>4, <1>5, HeldShrinks
<1>8. Reserved \in Nat /\ worker[w].reserved \in Nat
  BY <1>1, HeldFinite DEF WorkerState
<1>9. used' \in 0 .. Cap /\ used' = Reserved' + running'
  BY <1>2, <1>7, <1>8
<1>10. waiting' \in 0 .. MaxQueue /\ running' \in Nat /\ waiting' + supply' <= MaxQueue
  BY <1>2, <1>6
<1>11. QED
  BY <1>1, <1>3, <1>4, <1>5, <1>6, <1>9, <1>10, Zenon DEF WorkerState

\* The rest: deliveries end, executions arrive, the context is done, RunDBPoll returns.
LEMMA PollOthers ==
    ASSUME PollIInv, DeliveryEnds \/ Arrives \/ Cancel \/ Returns
    PROVE  PollIInv'
<1> USE WorkerAssumption, CapIsNat, HeldFinite DEF PollIInv, PollTypeOK
<1>1. worker' = worker
  BY DEF DeliveryEnds, Arrives, Cancel, Returns
<1>2. Reserved' = Reserved
  BY <1>1 DEF Reserved, Held
<1>3. CASE DeliveryEnds
  BY <1>1, <1>2, <1>3 DEF DeliveryEnds
<1>4. CASE Arrives
  BY <1>1, <1>2, <1>4 DEF Arrives
<1>5. CASE Cancel
  BY <1>1, <1>2, <1>5 DEF Cancel
<1>6. CASE Returns
  BY <1>1, <1>2, <1>6 DEF Returns
<1>7. QED
  BY <1>3, <1>4, <1>5, <1>6

\* The inductive invariant holds in every state of the poll workers.
THEOREM PollInvariance == PollSpec => []PollIInv
<1>1. PollIInv /\ [PollNext]_pollVars => PollIInv'
  <2> SUFFICES ASSUME PollIInv, [PollNext]_pollVars PROVE PollIInv'
    OBVIOUS
  <2>1. CASE PollNext
    BY <2>1, PollMoves, PollReserves, PollClaims, PollOthers DEF PollNext, Work
  <2>2. CASE UNCHANGED pollVars
    BY <2>2 DEF pollVars, PollIInv, PollTypeOK, Reserved, Held
  <2>3. QED
    BY <2>1, <2>2
<1>2. QED
  BY <1>1, PollStarts, PTL DEF PollSpec

\* The counters stay in range: no more deliveries and reservations than slots
\* (RunDBPoll, "without unbounded claims or goroutines").
THEOREM PollTypes == PollSpec => []PollTypeOK
<1>1. PollIInv => PollTypeOK
  BY DEF PollIInv
<1>2. QED
  BY <1>1, PollInvariance, PTL

\* No slot leaks and none is given back twice, for any number of workers and
\* slots; all are free when RunDBPoll returns (dbPollWorker).
THEOREM SlotsAreExact == PollSpec => []SlotsExact
<1>1. ASSUME PollIInv PROVE SlotsExact
  <2>1. ASSUME returned PROVE Reserved = 0
    <3>1. Held = {}
      BY <1>1, <2>1 DEF PollIInv, Held
    <3>2. QED
      BY <3>1, FS_EmptySet DEF Reserved
  <2>2. QED
    BY <1>1, <2>1 DEF PollIInv, SlotsExact
<1>2. QED
  BY <1>1, PollInvariance, PTL

-----------------------------------------------------------------------------
(* Where a webhook request may go.                                         *)

\* An address passed the guard of the path that leads to host h, as dialled.
Guarded(h, a) ==
    /\ a \in AllAddr
    /\ TailnetHost(h) => a[2] \in {"node", "node6"}
    /\ ~TailnetHost(h) => /\ a[2] \notin {"local", "node", "self", "service"}
                          /\ a[2] \in {"private", "private6", "node6"} => Matches(h)
                          /\ h[1] = "lit" => a[2] = h[2][2]

\* A connection, in use or in the pool: its host is one the transport dials, and
\* its path and its address are that host's under the settings in force.
Sound(c) ==
    /\ c.host \in Host /\ c.host[1] # "wide" /\ c \in [host : Host, addr : AllAddr, via : {"tailnet", "public"}]
    /\ c.via = "tailnet" <=> TailnetHost(c.host)
    /\ Guarded(c.host, c.addr)

\* A request under way: it passed the policy, and what it has got so far is for
\* the host it asks for.
Passed(r) ==
    /\ r.pc \in {"get", "dial", "sent"} /\ r.ns \in Namespace /\ r.host \in Host
    /\ r.made \in 1..MaxRequests /\ CheckTailnet(r.ns, r.host)
    /\ r.pc = "dial" => \A a \in r.checked : Guarded(DialName(r.host), a)
    /\ r.pc = "sent" => Sound(r.conn) /\ r.conn.host = DialName(r.host)

\* The inductive invariant.
SendIInv ==
    /\ tailnet \in BOOLEAN /\ send = [s \in Sender |-> send[s]]
    /\ \A s \in Sender : send[s].pc = "idle" \/ Passed(send[s])
    /\ \A c \in pool : Sound(c)
-----------------------------------------------------------------------------
\* What a host is, and what the transport makes of it.
LEMMA Hosts ==
    ASSUME NEW h \in Host
    PROVE  /\ DialName(h) \in Host /\ DialName(h)[1] # "wide" /\ DialName(h)[2] = h[2]
           /\ h[1] # "wide" => DialName(h) = h
           /\ h[1] = "wide" => DialName(h)[1] = "tail"
           /\ h[1] = "lit" => h[2] \in AllAddr
<1>1. h[1] = "wide" => h[2] \in Label
  BY DEF Host
<1>2. h[1] = "lit" => h[2] \in AllAddr
  BY DestinationAssumption DEF Host
<1>3. CASE h[1] = "wide"
  <2>1. DialName(h) = <<"tail", h[2]>>
    BY <1>3 DEF DialName
  <2>2. <<"tail", h[2]>> \in Host
    BY <1>1, <1>3 DEF Host
  <2>3. QED
    BY <1>2, <1>3, <2>1, <2>2
<1>4. CASE h[1] # "wide"
  BY <1>2, <1>4 DEF DialName
<1>5. QED
  BY <1>3, <1>4

\* An IPv4-mapped address is of the range of the address it carries.
LEMMA Unmapped ==
    ASSUME NEW a \in AllAddr
    PROVE  Unmap(a) \in AllAddr /\ Unmap(a)[2] = a[2]
  BY DEF Unmap, AllAddr, V4

\* While the settings stay, what passed the checks still passes them.
LEMMA SettingsKept ==
    ASSUME Settings
    PROVE  /\ \A c : Sound(c) => Sound(c)'
           /\ \A q : Passed(q) => Passed(q)'
<1>1. ASSUME NEW h PROVE TailnetHost(h)' <=> TailnetHost(h)
  BY DEF TailnetHost, Settings
<1>2. ASSUME NEW h PROVE Matches(h)' <=> Matches(h)
  BY DEF Matches, Settings
<1>3. ASSUME NEW h, NEW a, Guarded(h, a) PROVE Guarded(h, a)'
  BY <1>1, <1>2, <1>3 DEF Guarded
<1>4. ASSUME NEW c, Sound(c) PROVE Sound(c)'
  BY <1>1, <1>3, <1>4 DEF Sound
<1>5. ASSUME NEW ns, NEW h, CheckTailnet(ns, h) PROVE CheckTailnet(ns, h)'
  BY <1>5 DEF CheckTailnet, Allows, Settings
<1>6. ASSUME NEW q, Passed(q) PROVE Passed(q)'
  BY <1>3, <1>4, <1>5, <1>6 DEF Passed, DialName
<1>7. QED
  BY <1>4, <1>6

\* A step of one sender that leaves the settings alone.
LEMMA SenderStep ==
    ASSUME SendIInv, NEW s \in Sender, NEW r, Becomes(s, r), Settings,
           r.pc = "idle" \/ Passed(r), \A c \in pool' : Sound(c)
    PROVE  SendIInv'
<1>1. \A q \in Sender : send'[q] = IF q = s THEN r ELSE send[q]
  BY DEF SendIInv, Becomes
<1>2. send' = [q \in Sender |-> send'[q]]
  BY DEF SendIInv, Becomes
<1>3. QED
  BY <1>1, <1>2, SettingsKept DEF SendIInv, Settings

\* A request that starts, or is redirected, has passed the policy.
LEMMA StartsStep ==
    ASSUME SendIInv, NEW s \in Sender, NEW h \in Host,
           (\E ns \in Namespace : Send(s, ns, h)) \/ Redirect(s, h)
    PROVE  SendIInv'
<1>1. CASE \E ns \in Namespace : Send(s, ns, h)
  <2>1. PICK ns \in Namespace : Send(s, ns, h)
    BY <1>1, Zenon
  <2> DEFINE r == [pc |-> "get", ns |-> ns, host |-> h, made |-> 1]
  <2>2. Passed(r)
    <3>1. 1 \in 1..MaxRequests
      BY DestinationAssumption
    <3>2. r.pc = "get" /\ r.ns = ns /\ r.host = h /\ r.made = 1
      BY Zenon
    <3>3. QED
      BY <2>1, <3>1, <3>2, Zenon DEF Passed, Send
  <2>3. Becomes(s, r) /\ Settings /\ \A c \in pool' : Sound(c)
    BY <2>1 DEF Send, SendIInv
  <2> HIDE DEF r
  <2>4. QED
    BY <2>2, <2>3, SenderStep
<1>2. CASE Redirect(s, h)
  <2> DEFINE r == [pc |-> "get", ns |-> send[s].ns, host |-> h, made |-> send[s].made + 1]
  <2>1. send[s].pc = "sent" /\ Passed(send[s])
    BY <1>2, Zenon DEF SendIInv, Redirect
  <2>2. Passed(r)
    <3>1. /\ send[s].made \in 1..MaxRequests /\ send[s].made < MaxRequests
          /\ send[s].ns \in Namespace /\ CheckTailnet(send[s].ns, h)
      BY <1>2, <2>1, Zenon DEF Passed, Redirect
    <3>2. send[s].made + 1 \in 1..MaxRequests
      BY <3>1, DestinationAssumption
    <3>3. r.pc = "get" /\ r.ns = send[s].ns /\ r.host = h /\ r.made = send[s].made + 1
      BY Zenon
    <3>4. QED
      BY <3>1, <3>2, <3>3, Zenon DEF Passed
  <2>3. \A c \in pool' : Sound(c)
    BY <1>2, <2>1, Zenon DEF Redirect, Released, SendIInv, Passed
  <2>4. Becomes(s, r) /\ Settings
    BY <1>2 DEF Redirect
  <2> HIDE DEF r
  <2>5. QED
    BY <2>2, <2>3, <2>4, SenderStep
<1>3. QED
  BY <1>1, <1>2

\* The addresses a request goes on to dial passed the guard of its path.
LEMMA DialStep ==
    ASSUME SendIInv, NEW s \in Sender, NEW as \in SUBSET AllAddr,
           TailnetDial(s, as) \/ GuardedDial(s, as)
    PROVE  SendIInv'
<1> DEFINE h == DialName(send[s].host)
<1> DEFINE r == [pc |-> "dial", ns |-> send[s].ns, host |-> send[s].host, made |-> send[s].made,
                 checked |-> {Unmap(a) : a \in as}]
<1>1. send[s].pc = "get" /\ Passed(send[s])
  BY Zenon DEF SendIInv, TailnetDial, GuardedDial
<1>2. h \in Host /\ h[1] # "wide"
  BY <1>1, Hosts DEF Passed
<1>3. \A a \in as : Guarded(h, Unmap(a))
  <2> SUFFICES ASSUME NEW a \in as PROVE Guarded(h, Unmap(a))
    BY Zenon
  <2>1. Unmap(a) \in AllAddr /\ Unmap(a)[2] = a[2]
    BY Unmapped, Zenon
  <2>2. CASE TailnetDial(s, as)
    BY <2>1, <2>2, Zenon DEF TailnetDial, Checked, CheckTailnetAddr, Guarded
  <2>3. CASE GuardedDial(s, as)
    <3>1. CheckAddr(a, Matches(h)) /\ ~TailnetHost(h) /\ (h[1] = "lit" => as = {h[2]})
      BY <2>3, Zenon DEF GuardedDial, Checked
    <3>2. QED
      BY <2>1, <3>1, Zenon DEF CheckAddr, Guarded
  <2>4. QED
    BY <2>2, <2>3, Zenon
<1>4. Becomes(s, r) /\ Settings /\ pool' = pool
  BY Zenon DEF TailnetDial, GuardedDial, Checked
<1>5. Passed(r)
  BY <1>1, <1>3, Zenon DEF Passed
<1>6. \A c \in pool' : Sound(c)
  BY <1>4 DEF SendIInv
<1> HIDE DEF r
<1>7. QED
  BY <1>4, <1>5, <1>6, SenderStep

\* A connection, pooled or new, that carries the request is the host's.
LEMMA CarriesStep ==
    ASSUME SendIInv, NEW s \in Sender, Reuse(s) \/ Connects(s)
    PROVE  SendIInv'
<1>1. Passed(send[s])
  BY DEF SendIInv, Reuse, Connects
<1>2. ASSUME NEW c, Carries(s, c), Sound(c), c.host = DialName(send[s].host), Settings,
             \A d \in pool' : Sound(d)
      PROVE  SendIInv'
  <2> DEFINE r == [pc |-> "sent", ns |-> send[s].ns, host |-> send[s].host, made |-> send[s].made,
                   conn |-> c]
  <2>1. Passed(r)
    BY <1>1, <1>2 DEF Passed
  <2>2. Becomes(s, r)
    BY <1>2 DEF Carries
  <2> HIDE DEF r
  <2>3. QED
    BY <1>2, <2>1, <2>2, SenderStep
<1>3. CASE Reuse(s)
  BY <1>2, <1>3 DEF Reuse, SendIInv
<1>4. CASE Connects(s)
  <2> DEFINE h == DialName(send[s].host)
  <2>1. PICK a \in send[s].checked :
           Carries(s, [host |-> h, addr |-> a, via |-> IF TailnetHost(h) THEN "tailnet" ELSE "public"])
    BY <1>4, Zenon DEF Connects
  <2>2. Guarded(h, a) /\ h \in Host /\ h[1] # "wide"
    BY <1>1, <1>4, <2>1, Hosts, Zenon DEF Passed, Connects
  <2> DEFINE c == [host |-> h, addr |-> a, via |-> IF TailnetHost(h) THEN "tailnet" ELSE "public"]
  <2>3. Sound(c) /\ c.host = h
    BY <2>2, Zenon DEF Sound, Guarded
  <2>4. Carries(s, c)
    BY <2>1, Zenon
  <2>5. Settings /\ \A d \in pool' : Sound(d)
    BY <1>4 DEF Connects, SendIInv
  <2> HIDE DEF c
  <2>6. QED
    BY <1>2, <2>3, <2>4, <2>5, Zenon
<1>5. QED
  BY <1>3, <1>4

\* The answers DNS gives are addresses.
LEMMA AnswersAre == Answers \subseteq SUBSET AllAddr
  BY DestinationAssumption DEF Answers

\* Every step keeps the invariant.
LEMMA SendStep ==
    ASSUME SendIInv, [SendNext]_sendVars
    PROVE  SendIInv'
<1>1. ASSUME NEW s \in Sender, NEW ns \in Namespace, NEW h \in Host, Send(s, ns, h) PROVE SendIInv'
  BY <1>1, StartsStep
<1>2. ASSUME NEW s \in Sender, NEW h \in Host, Redirect(s, h) PROVE SendIInv'
  BY <1>2, StartsStep
<1>3. ASSUME NEW s \in Sender, NEW as \in Answers, TailnetDial(s, as) \/ GuardedDial(s, as)
      PROVE  SendIInv'
  BY <1>3, AnswersAre, DialStep, Zenon
<1>4. ASSUME NEW s \in Sender, Reuse(s) \/ Connects(s) PROVE SendIInv'
  BY <1>4, CarriesStep
<1>5. ASSUME NEW s \in Sender, Responds(s) \/ SendFails(s) PROVE SendIInv'
  <2>1. Becomes(s, Idle) /\ Settings /\ Idle.pc = "idle"
    BY <1>5 DEF Responds, SendFails, Idle
  <2>2. \A c \in pool' : Sound(c)
    BY <1>5 DEF Responds, SendFails, Released, SendIInv, Passed
  <2>3. QED
    BY <2>1, <2>2, SenderStep
<1>6. ASSUME send' = send, pool' \subseteq pool, Settings PROVE SendIInv'
  BY <1>6, SettingsKept DEF SendIInv, Settings
<1>7. CASE ConnCloses
  BY <1>6, <1>7 DEF ConnCloses
<1>8. CASE Restart
  BY <1>8 DEF Restart, SendIInv, Idle
<1>9. CASE UNCHANGED sendVars
  BY <1>6, <1>9, Zenon DEF sendVars, Settings
<1>10. QED
  BY <1>1, <1>2, <1>3, <1>4, <1>5, <1>7, <1>8, <1>9 DEF SendNext

\* A request under way on a connection goes where it may.
LEMMA WhereItGoes ==
    ASSUME SendIInv, NEW s \in Sender, send[s].pc = "sent"
    PROVE  LET c == send[s].conn
           IN /\ c.via = "tailnet" =>
                    /\ c.host[1] = "tail" /\ c.addr[2] \in {"node", "node6"}
                    /\ \E key \in DOMAIN policy \cap {send[s].ns, "*"} :
                          policy[key] \cap {c.host[2], "*"} # {}
              /\ c.via = "public" =>
                    /\ c.addr[2] \notin {"local", "node", "self", "service"}
                    /\ c.addr[2] \in {"private", "private6", "node6"} => Matches(c.host)
                    /\ Validate(send[s].host)
              /\ c.via = "tailnet" <=> tailnet /\ Under(send[s].host)
<1> DEFINE c == send[s].conn
<1> DEFINE h == send[s].host
<1>1. /\ Passed(send[s]) /\ Sound(c) /\ c.host = DialName(h)
      /\ h \in Host /\ CheckTailnet(send[s].ns, h)
  BY Zenon DEF SendIInv, Passed
<1>2. /\ c.host[1] # "wide" /\ c.host[2] = h[2]
      /\ h[1] # "wide" => c.host = h
      /\ h[1] = "wide" => c.host[1] = "tail"
  BY <1>1, Hosts, Zenon
<1>3. /\ c.via = "tailnet" <=> TailnetHost(c.host)
      /\ Guarded(c.host, c.addr)
  BY <1>1 DEF Sound
<1>4. c.via = "tailnet" <=> tailnet /\ Under(h)
  BY <1>2, <1>3, Zenon DEF TailnetHost, Under
<1>5. CASE c.via = "tailnet"
  <2>1. h[1] \in {"tail", "wide"} /\ Allows(send[s].ns, h[2])
    BY <1>1, <1>4, <1>5, Zenon DEF CheckTailnet
  <2>2. c.host[1] = "tail" /\ c.addr[2] \in {"node", "node6"}
    BY <1>2, <1>3, <1>5, <2>1, Zenon DEF Guarded
  <2>3. \E key \in DOMAIN policy \cap {send[s].ns, "*"} : policy[key] \cap {c.host[2], "*"} # {}
    BY <1>2, <2>1, Zenon DEF Allows
  <2>4. QED
    BY <1>4, <1>5, <2>2, <2>3, Zenon
<1>6. CASE c.via = "public"
  <2>1. /\ c.addr[2] \notin {"local", "node", "self", "service"}
        /\ c.addr[2] \in {"private", "private6", "node6"} => Matches(c.host)
        /\ c.host[1] = "lit" => c.addr[2] = c.host[2][2]
    BY <1>3, <1>6, Zenon DEF Guarded
  <2>2. Validate(h)
    BY <1>2, <2>1 DEF Validate, Matches
  <2>3. QED
    BY <1>4, <1>6, <2>1, <2>2, Zenon
<1>7. QED
  BY <1>4, <1>5, <1>6, Zenon

\* The invariant holds in every state.
THEOREM SendInvariance == SendSpec => []SendIInv
<1>1. SendInit => SendIInv
  BY DEF SendInit, SendIInv, Idle
<1>2. QED
  BY <1>1, SendStep, PTL DEF SendSpec

\* However many senders, names, addresses and settings there are, and whatever
\* DNS answers, peers redirect to and the pool hands out, a webhook request goes
\* only where the policy of its namespace and the guard of its path let it.
THEOREM GoesWhereItMay == SendSpec => []DestinationKept
<1>1. SendIInv => DestinationKept
  BY WhereItGoes, Zenon DEF DestinationKept, Sent
<1>2. QED
  BY <1>1, SendInvariance, PTL

\* A Send's requests, and the connections kept, are what they should be; a Send
\* follows no redirect beyond its limit.
THEOREM SendTypes == SendSpec => []SendTypeOK
<1>1. SendIInv => SendTypeOK
  BY DEF SendIInv, SendTypeOK, Sound, Passed
<1>2. QED
  BY <1>1, SendInvariance, PTL

-----------------------------------------------------------------------------
(* The paged lists of the admin UI.                                        *)

\* A product grows with its first factor.
LEMMA Monotone ==
    ASSUME NEW a \in Int, NEW b \in Int, NEW m \in Nat, a <= b
    PROVE  a * m <= b * m
<1>1. (b - a) * m >= 0
  OBVIOUS
<1>2. (b - a) * m = b * m - a * m
  OBVIOUS
<1>3. a * m \in Int /\ b * m \in Int
  OBVIOUS
<1>4. QED
  BY <1>1, <1>2, <1>3

\* The number of pages is the least that holds all the rows.
LEMMA Pages ==
    ASSUME NEW total \in Nat
    PROVE  /\ PageCount(total) \in Nat /\ PageCount(total) >= 1
           /\ total <= PageCount(total) * PageSize
           /\ total > 0 => (PageCount(total) - 1) * PageSize < total
<1> DEFINE P == PageSize
<1> DEFINE d == (total + P - 1) \div P
<1>1. P \in Nat /\ P > 0
  BY HistoryAssumption
<1>2. CASE total = 0
  BY <1>1, <1>2 DEF PageCount
<1>3. CASE total > 0
  <2>1. d \in Int /\ d * P <= total + P - 1 /\ total + P - 1 < d * P + P
    BY <1>1
  <2>2. PageCount(total) = d
    BY <1>3 DEF PageCount
  <2> HIDE DEF d
  <2>3. (d - 1) * P = d * P - P /\ d * P \in Int
    BY <1>1, <2>1
  <2>4. d >= 1
    <3> SUFFICES ASSUME d <= 0 PROVE FALSE
      BY <2>1
    <3>1. d * P <= 0 * P
      BY <1>1, <2>1, Monotone
    <3>2. QED
      BY <1>1, <1>3, <2>1, <3>1
  <2>5. QED
    BY <1>1, <1>3, <2>1, <2>2, <2>3, <2>4
<1>4. QED
  BY <1>2, <1>3

\* A page that is not past the end is one of the pages, another follows exactly
\* when rows remain, and its links are there.
LEMMA PageFacts ==
    ASSUME NEW total \in Nat, NEW page \in Nat \ {0}, page = 1 \/ (page - 1) * PageSize < total
    PROVE  LET last == PageCount(total) IN
           /\ page <= last
           /\ total - (page - 1) * PageSize >= PageSize + 1 <=> page < last
           /\ (page - 1) * PageSize \in Nat /\ total - (page - 1) * PageSize \in Nat
           /\ {1, page, last} \cup ({page - 1, page + 1} \cap 1..last) \subseteq PageLinks(page, total)
<1> DEFINE P == PageSize
<1> DEFINE last == PageCount(total)
<1> DEFINE skip == (page - 1) * P
<1>1. P \in Nat /\ P > 0
  BY HistoryAssumption
<1>2. last \in Nat /\ last >= 1 /\ total <= last * P /\ (total > 0 => (last - 1) * P < total)
  BY Pages
<1>3. skip \in Nat /\ page * P = skip + P /\ page * P \in Nat /\ last * P \in Nat
  BY <1>1, <1>2
<1>4. page <= last
  <2> SUFFICES ASSUME last <= page - 1 PROVE FALSE
    BY <1>2
  <2>1. last * P <= (page - 1) * P
    BY <1>1, <1>2, Monotone
  <2>2. QED
    BY <1>2, <1>3, <2>1
<1>5. total - skip >= P + 1 => page < last
  <2> SUFFICES ASSUME total - skip >= P + 1, last <= page PROVE FALSE
    BY <1>2
  <2>1. last * P <= page * P
    BY <1>1, <1>2, Monotone
  <2>2. QED
    BY <1>1, <1>2, <1>3, <2>1
<1>6. page < last => total - skip >= P + 1
  <2> SUFFICES ASSUME page < last PROVE total - skip >= P + 1
    OBVIOUS
  <2>1. page <= last - 1 /\ last - 1 \in Int
    BY <1>2
  <2>2. page * P <= (last - 1) * P
    BY <1>1, <2>1, Monotone
  <2>3. total > 0
    BY DEF PageCount
  <2>4. (last - 1) * P \in Int
    BY <1>1, <1>2
  <2>5. QED
    BY <1>1, <1>2, <1>3, <2>2, <2>3, <2>4
<1>7. total - skip \in Nat
  <2>1. page = 1 => skip = 0
    BY <1>1
  <2>2. QED
    BY <1>3, <2>1
<1>8. {1, page, last} \cup ({page - 1, page + 1} \cap 1..last) \subseteq PageLinks(page, total)
  <2> HIDE DEF last
  <2>1. PageLinks(page, total) = {n \in {1, last} \cup (page - 2)..(page + 2) : n \in 1..last}
    BY Zenon DEF PageLinks, last
  <2>2. QED
    BY <1>2, <1>4, <2>1
<1>9. QED
  BY <1>3, <1>4, <1>5, <1>6, <1>7, <1>8

-----------------------------------------------------------------------------
\* The reader: the total it was told is the number of rows in the snapshot the
\* page will be read from.
Counted ==
    view.at = "counted" /\ view.list # "executions" =>
        /\ IsFiniteSet(Listed(view.list, view.snap, view.now))
        /\ view.total = Cardinality(Listed(view.list, view.snap, view.now))

\* The inductive invariant.
HistoryIInv ==
    /\ IsFiniteSet(DOMAIN rows)
    /\ view = [list |-> view.list, at |-> view.at, page |-> view.page, now |-> view.now,
               total |-> view.total, snap |-> view.snap, shown |-> view.shown, more |-> view.more]
    /\ view.page \in Nat \ {0}
    /\ Counted /\ PageAgrees

\* The reader asks for a page.
LEMMA Asks ==
    ASSUME HistoryIInv, NEW list, NEW page \in Nat \ {0}, Request(list, page), rows' = rows
    PROVE  HistoryIInv'
<1>1. PICK a : a = [NoView EXCEPT !.list = list]
  BY Zenon
<1>2. PICK b : b = [a EXCEPT !.at = "asked"]
  BY Zenon
<1>3. PICK c : c = [b EXCEPT !.page = page]
  BY Zenon
<1>4. PICK d : d = [c EXCEPT !.now = time]
  BY Zenon
<1>5. PICK no : no = FALSE
  BY Zenon
<1>6. NoView = [list |-> "jobs", at |-> "idle", page |-> 1, now |-> 0, total |-> 0,
                snap |-> << >>, shown |-> << >>, more |-> no]
  BY <1>5, Zenon DEF NoView
<1>7. a = [list |-> list, at |-> "idle", page |-> 1, now |-> 0, total |-> 0,
           snap |-> << >>, shown |-> << >>, more |-> no]
  BY <1>1, <1>6
<1>8. b = [list |-> list, at |-> "asked", page |-> 1, now |-> 0, total |-> 0,
           snap |-> << >>, shown |-> << >>, more |-> no]
  BY <1>2, <1>7
<1>9. c = [list |-> list, at |-> "asked", page |-> page, now |-> 0, total |-> 0,
           snap |-> << >>, shown |-> << >>, more |-> no]
  BY <1>3, <1>8
<1>10. d = [list |-> list, at |-> "asked", page |-> page, now |-> time, total |-> 0,
            snap |-> << >>, shown |-> << >>, more |-> no]
  BY <1>4, <1>9
<1>11. view' = d
  BY <1>1, <1>2, <1>3, <1>4, Zenon DEF Request
<1>12. QED
  BY <1>10, <1>11 DEF HistoryIInv, Counted, PageAgrees

\* The count and the snapshot are taken together.
LEMMA Counts ==
    ASSUME HistoryIInv, CountRows
    PROVE  HistoryIInv'
<1> DEFINE S == Listed(view.list, rows, view.now)
<1>1. PICK n : n = IF view.list = "executions" THEN 0 ELSE Cardinality(S)
  OBVIOUS
<1>2. PICK a : a = [view EXCEPT !.at = "counted"]
  BY Zenon
<1>3. PICK b : b = [a EXCEPT !.snap = rows]
  BY Zenon
<1>4. PICK c : c = [b EXCEPT !.total = n]
  BY Zenon
<1>5. a = [list |-> view.list, at |-> "counted", page |-> view.page, now |-> view.now,
           total |-> view.total, snap |-> view.snap, shown |-> view.shown, more |-> view.more]
  BY <1>2 DEF HistoryIInv
<1>6. b = [list |-> view.list, at |-> "counted", page |-> view.page, now |-> view.now,
           total |-> view.total, snap |-> rows, shown |-> view.shown, more |-> view.more]
  BY <1>3, <1>5
<1>7. c = [list |-> view.list, at |-> "counted", page |-> view.page, now |-> view.now,
           total |-> n, snap |-> rows, shown |-> view.shown, more |-> view.more]
  BY <1>4, <1>6
<1>8. view' = c /\ rows' = rows
  BY <1>1, <1>2, <1>3, <1>4 DEF CountRows
<1>9. IsFiniteSet(S)
  <2>1. S \subseteq DOMAIN rows
    BY DEF Listed
  <2>2. QED
    BY <2>1, FS_Subset DEF HistoryIInv
<1>10. c.list = view.list /\ c.now = view.now /\ c.snap = rows /\ c.total = n /\ c.at = "counted"
  BY <1>7, Zenon
<1>11. Counted'
  BY <1>1, <1>8, <1>9, <1>10, Zenon DEF Counted
<1>12. PageAgrees'
  BY <1>8, <1>10, Zenon DEF PageAgrees
<1>13. QED
  BY <1>7, <1>8, <1>11, <1>12 DEF HistoryIInv

\* The page is read from that snapshot.
LEMMA Shows ==
    ASSUME HistoryIInv, ShowPage
    PROVE  HistoryIInv'
<1> DEFINE S == Listed(view.list, view.snap, view.now)
<1>1. PICK s \in Orders(view.list, view.snap, S) :
         view' = [view EXCEPT !.at = "shown", !.snap = << >>, !.shown = PageRows(s, (view.page - 1) * PageSize),
                              !.more = Len(s) - (view.page - 1) * PageSize >= PageSize + 1]
  BY Zenon DEF ShowPage, PageTable
<1>2. PICK skip, shown : skip = (view.page - 1) * PageSize /\ shown = PageRows(s, skip)
  OBVIOUS
<1>3. PICK more : more = (Len(s) - skip >= PageSize + 1)
  OBVIOUS
<1>4. PICK a : a = [view EXCEPT !.at = "shown"]
  BY Zenon
<1>5. PICK b : b = [a EXCEPT !.snap = << >>]
  BY Zenon
<1>6. PICK c : c = [b EXCEPT !.shown = shown]
  BY Zenon
<1>7. PICK d : d = [c EXCEPT !.more = more]
  BY Zenon
<1>8. a = [list |-> view.list, at |-> "shown", page |-> view.page, now |-> view.now,
           total |-> view.total, snap |-> view.snap, shown |-> view.shown, more |-> view.more]
  BY <1>4 DEF HistoryIInv
<1>9. b = [list |-> view.list, at |-> "shown", page |-> view.page, now |-> view.now,
           total |-> view.total, snap |-> << >>, shown |-> view.shown, more |-> view.more]
  BY <1>5, <1>8
<1>10. c = [list |-> view.list, at |-> "shown", page |-> view.page, now |-> view.now,
            total |-> view.total, snap |-> << >>, shown |-> shown, more |-> view.more]
  BY <1>6, <1>9
<1>11. d = [list |-> view.list, at |-> "shown", page |-> view.page, now |-> view.now,
            total |-> view.total, snap |-> << >>, shown |-> shown, more |-> more]
  BY <1>7, <1>10
<1>12. view' = d /\ rows' = rows
  BY <1>1, <1>2, <1>3, <1>4, <1>5, <1>6, <1>7, Zenon DEF ShowPage
<1>13. /\ d.list = view.list /\ d.at = "shown" /\ d.page = view.page /\ d.total = view.total
       /\ d.shown = shown /\ d.more = more
  BY <1>11, Zenon
<1>14. PageAgrees'
  <2> SUFFICES ASSUME view.list # "executions" PROVE PageAgrees'
    BY <1>12, <1>13, Zenon DEF PageAgrees
  <2>1. PICK total, page : total = view.total /\ page = view.page /\ page \in Nat \ {0}
    BY DEF HistoryIInv
  <2>2. total = Cardinality(S) /\ total \in Nat
    BY <2>1, FS_CardinalityType DEF HistoryIInv, Counted, ShowPage
  <2>3. Len(s) = total
    <3>1. s \in [1..total -> S]
      BY <1>1, <2>2 DEF Orders
    <3>2. QED
      BY <2>2, <3>1
  <2>4. page = 1 \/ (page - 1) * PageSize < total
    <3>1. (page - 1) * PageSize \in Int
      BY <2>1, HistoryAssumption
    <3>2. QED
      BY <2>1, <2>2, <3>1 DEF ShowPage, PastTheEnd
  <2>5. PICK last : last = PageCount(total)
    BY Zenon
  <2>6. /\ page <= last
        /\ total - skip >= PageSize + 1 <=> page < last
        /\ skip \in Nat /\ total - skip \in Nat
        /\ {1, page, last} \cup ({page - 1, page + 1} \cap 1..last) \subseteq PageLinks(page, total)
    BY <1>2, <2>1, <2>2, <2>4, <2>5, PageFacts, Zenon
  <2>7. Len(shown) = Fewer(PageSize, total - skip)
    <3>1. PICK m : m = Fewer(PageSize, total - skip) /\ m \in Nat
      BY <2>6, HistoryAssumption DEF Fewer
    <3>2. shown = [k \in 1..m |-> s[skip + k]]
      BY <1>2, <2>3, <3>1 DEF PageRows
    <3>3. QED
      BY <3>1, <3>2
  <2>8. more <=> page < last
    BY <1>3, <2>3, <2>6, Zenon
  <2>9. QED
    BY <1>2, <1>12, <1>13, <2>1, <2>5, <2>6, <2>7, <2>8, ZenonT(40) DEF PageAgrees
<1>15. Counted'
  BY <1>12, <1>13 DEF Counted
<1>16. QED
  BY <1>11, <1>12, <1>14, <1>15, Zenon DEF HistoryIInv

\* Every step keeps the invariant.
LEMMA HistoryStep ==
    ASSUME HistoryIInv, [HistoryNext]_historyVars
    PROVE  HistoryIInv'
<1>1. ASSUME view' = view, IsFiniteSet(DOMAIN rows') PROVE HistoryIInv'
  BY <1>1 DEF HistoryIInv, Counted, PageAgrees
<1>2. CASE InsertRow
  <2>1. PICK i \in RowId : DOMAIN rows' = DOMAIN rows \cup {i}
    BY <1>2 DEF InsertRow
  <2>2. IsFiniteSet(DOMAIN rows')
    BY <2>1, FS_AddElement DEF HistoryIInv
  <2>3. QED
    BY <1>1, <1>2, <2>2 DEF InsertRow
<1>3. ASSUME NEW i \in DOMAIN rows, SettleRow(i) PROVE HistoryIInv'
  <2>1. DOMAIN rows' = DOMAIN rows /\ view' = view
    BY <1>3 DEF SettleRow
  <2>2. QED
    BY <1>1, <2>1 DEF HistoryIInv
<1>4. ASSUME NEW i \in DOMAIN rows, DeleteRow(i) PROVE HistoryIInv'
  <2>1. DOMAIN rows' \subseteq DOMAIN rows /\ view' = view
    BY <1>4 DEF DeleteRow
  <2>2. IsFiniteSet(DOMAIN rows')
    BY <2>1, FS_Subset DEF HistoryIInv
  <2>3. QED
    BY <1>1, <2>1, <2>2
<1>5. CASE TimePasses \/ UNCHANGED historyVars
  <2>1. rows' = rows /\ view' = view
    BY <1>5 DEF TimePasses, historyVars
  <2>2. QED
    BY <1>1, <2>1 DEF HistoryIInv
<1>6. ASSUME NEW list \in Lists, NEW page \in 1..(Cardinality(RowId) + 1), AskPage(list, page)
      PROVE  HistoryIInv'
  <2>1. page \in Nat \ {0}
    BY <1>6, HistoryAssumption, FS_CardinalityType
  <2>2. QED
    BY <1>6, <2>1, Asks DEF AskPage
<1>7. CASE FollowNext
  <2>1. view.page + 1 \in Nat \ {0} /\ rows' = rows /\ Request(view.list, view.page + 1)
    BY <1>7 DEF FollowNext, HistoryIInv
  <2>2. PICK list, page : list = view.list /\ page = view.page + 1
    OBVIOUS
  <2>3. page \in Nat \ {0} /\ Request(list, page)
    BY <2>1, <2>2 DEF Request
  <2>4. QED
    BY <2>1, <2>3, Asks, Zenon
<1>8. CASE CountRows
  BY <1>8, Counts
<1>9. CASE RedirectToLast
  <2>1. rows' = rows /\ Request(view.list, PageCount(view.total)) /\ view.at = "counted" /\ view.list # "executions"
    BY <1>9 DEF RedirectToLast, PastTheEnd
  <2>2. view.total \in Nat
    BY <2>1, FS_CardinalityType DEF HistoryIInv, Counted
  <2>3. PICK list, page : list = view.list /\ page = PageCount(view.total)
    OBVIOUS
  <2>4. page \in Nat \ {0} /\ Request(list, page)
    BY <2>1, <2>2, <2>3, Pages DEF Request
  <2>5. QED
    BY <2>1, <2>4, Asks
<1>10. CASE ShowPage
  BY <1>10, Shows
<1>11. QED
  BY <1>2, <1>3, <1>4, <1>5, <1>6, <1>7, <1>8, <1>9, <1>10 DEF HistoryNext

\* For any page size and any rows, inserted, settled and deleted while pages are
\* read, a rendered page of jobs or runs agrees with the total over it.
THEOREM PagesAgree == HistorySpec => []PageAgrees
<1>1. HistoryInit => HistoryIInv
  <2> SUFFICES ASSUME HistoryInit PROVE HistoryIInv
    OBVIOUS
  <2>1. IsFiniteSet(DOMAIN rows)
    <3>1. DOMAIN rows = {}
      BY DEF HistoryInit
    <3>2. QED
      BY <3>1, FS_EmptySet
  <2>2. QED
    BY <2>1 DEF HistoryInit, NoView, HistoryIInv, Counted, PageAgrees
<1>2. HistoryIInv => PageAgrees
  BY DEF HistoryIInv
<1>3. QED
  BY <1>1, <1>2, HistoryStep, PTL DEF HistorySpec
=============================================================================
