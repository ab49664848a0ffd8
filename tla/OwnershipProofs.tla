-------------------------- MODULE OwnershipProofs ---------------------------
(***************************************************************************)
(* Who owns what in the database.  Executions by lease, for any number of  *)
(* executions and goroutines, any lease length and any bound on claims and *)
(* attempts; the schema by the runners' lock, for any number of processes  *)
(* that migrate it and any migrations.                                     *)
(***************************************************************************)
EXTENDS ExecutionOwnership, Migrate, WellFoundedInduction, TLAPS

\* A goroutine past its claim has a generation of its own.
ClaimsUnique ==
    \A p, q \in Proc :
        /\ p # q /\ pc[p] \in Holding /\ pc[q] \in Holding
        /\ held[p].exec = held[q].exec
        => held[p].gen # held[q].gen

\* What a goroutine holds is an execution, and a generation already given out.
ClaimsGiven ==
    \A p \in Proc :
        /\ pc[p] # "idle" => held[p].exec \in Exec
        /\ pc[p] \in Holding => held[p].gen \in 1..generation[held[p].exec]
        /\ pc[p] = "backoff" => attempt[p] < MaxAttempts
        /\ renewal[p].st # "off" =>
              pc[p] \in IF renewal[p].by = "main" THEN {"confirming"} ELSE Delivering

\* The row of the newest claim: still in progress while the lease is valid and
\* then never for less time than the goroutine counts on; terminal only by this
\* goroutine's own completion.
RowOfClaim ==
    \A p \in Proc : LET e == held[p].exec IN
        /\ pc[p] \in Holding /\ held[p].gen = generation[e]
        => /\ status[e] = "in_progress" =>
                /\ held[p].rem <= lease[e]
                /\ renewal[p].st = "granted" => renewal[p].rem <= lease[e]
           /\ status[e] \in Terminal => pc[p] = "completed" /\ status[e] = Target(p)

\* Statements left behind act for claims that no goroutine holds any more.
LeftOrphaned ==
    \A s \in left : s.op = "complete" =>
        /\ s.gen \in 1..generation[s.exec]
        /\ \A p \in Proc : ~(pc[p] \in Holding /\ held[p].exec = s.exec /\ held[p].gen = s.gen)
        /\ s.to = "delivered" <=> <<s.exec, s.gen>> \in acked

\* A claim has been answered 2xx exactly when its holder remembers a success.
Remembered == {"recording", "completing", "completed"}
AckedRemembered ==
    /\ \A p \in Proc : pc[p] \in Holding =>
        (<<held[p].exec, held[p].gen>> \in acked
            <=> pc[p] \in Remembered /\ outcome[p] = "success")
    /\ \A e \in Exec, g \in Nat : <<e, g>> \in acked => g <= generation[e]

IInv ==
    /\ TypeOK /\ ClaimsUnique /\ ClaimsGiven /\ RowOfClaim /\ LeaseSafety
    /\ LeftOrphaned /\ AckedRemembered /\ OutcomeTruthful

-----------------------------------------------------------------------------
USE LeaseAssumption, MaxAttemptsAssumption
    DEF Holding, Delivering, Remembered, Terminal, Null, Target, row, worker

(***************************************************************************)
(* The invariant holds initially and every action preserves it.            *)
(***************************************************************************)
LEMMA InitInv == Init => IInv
<1> SUFFICES ASSUME Init PROVE IInv
  OBVIOUS
<1>1. TypeOK
  BY DEF Init, TypeOK, NoClaim, NoRenewal, HeldLease, Renewal
<1>2. ClaimsUnique /\ ClaimsGiven /\ RowOfClaim /\ LeaseSafety
  BY DEF Init, NoRenewal, ClaimsUnique, ClaimsGiven, RowOfClaim, LeaseSafety, ValidLease
<1>3. LeftOrphaned /\ AckedRemembered /\ OutcomeTruthful
  BY DEF Init, LeftOrphaned, AckedRemembered, OutcomeTruthful
<1> QED
  BY <1>1, <1>2, <1>3 DEF IInv

\* Sending the claim changes only where the goroutine is.
LEMMA IssueClaimInv ==
    ASSUME IInv, NEW p \in Proc, NEW x \in Exec, IssueClaim(p, x)
    PROVE  IInv'
<1> USE DEF IInv, TypeOK, IssueClaim
<1>1. TypeOK'
  BY DEF HeldLease
<1>2. ClaimsUnique'
  BY DEF ClaimsUnique, ClaimsGiven
<1>3. ClaimsGiven'
  BY DEF ClaimsGiven
<1>4. RowOfClaim'
  BY DEF RowOfClaim, ClaimsGiven, ClaimsUnique
<1>5. LeaseSafety'
  BY DEF LeaseSafety, ValidLease, ClaimsGiven, RowOfClaim, ClaimsUnique
<1>6. LeftOrphaned'
  BY DEF LeftOrphaned, ClaimsGiven, ClaimsUnique, AckedRemembered
<1>7. AckedRemembered'
  BY DEF AckedRemembered, ClaimsGiven, ClaimsUnique
<1>8. OutcomeTruthful'
  BY DEF OutcomeTruthful, AckedRemembered, ClaimsGiven, RowOfClaim
<1> QED
  BY <1>1, <1>2, <1>3, <1>4, <1>5, <1>6, <1>7, <1>8

\* A claim that finds a row gives it a generation nobody has seen.
LEMMA ExecuteClaimInv ==
    ASSUME IInv, NEW p \in Proc, ExecuteClaim(p)
    PROVE  IInv'
<1> USE DEF IInv, TypeOK, ExecuteClaim, Claimable, ClaimRow
<1>1. TypeOK'
  <2>1. held' \in [Proc -> HeldLease]
    BY DEF HeldLease, ClaimsGiven
  <2>2. Lease \in Null..Lease
    OBVIOUS
  <2>3. lease' \in [Exec -> Null..Lease]
    BY <2>2, Zenon
  <2> QED
    BY <2>1, <2>3
<1>2. ClaimsUnique'
  BY DEF ClaimsUnique, ClaimsGiven
<1>3. ClaimsGiven'
  BY DEF ClaimsGiven
<1>4. RowOfClaim'
  BY DEF RowOfClaim, ClaimsGiven, ClaimsUnique, HeldLease, Renewal
<1>5. LeaseSafety'
  BY DEF LeaseSafety, ValidLease, ClaimsGiven, ClaimsUnique, HeldLease
<1>6. LeftOrphaned'
  BY DEF LeftOrphaned, ClaimsGiven, ClaimsUnique, AckedRemembered
<1>7. AckedRemembered'
  BY DEF AckedRemembered, ClaimsGiven, ClaimsUnique
<1>8. OutcomeTruthful'
  BY DEF OutcomeTruthful, AckedRemembered, ClaimsGiven, RowOfClaim
<1> QED
  BY <1>1, <1>2, <1>3, <1>4, <1>5, <1>6, <1>7, <1>8

\* A claim that finds no row leaves the goroutine with none.
LEMMA ClaimNothingInv ==
    ASSUME IInv, NEW p \in Proc, ClaimNothing(p)
    PROVE  IInv'
<1> USE DEF IInv, TypeOK, ClaimNothing
<1>1. TypeOK'
  BY DEF NoClaim, HeldLease
<1>2. ClaimsUnique'
  BY DEF ClaimsUnique, ClaimsGiven
<1>3. ClaimsGiven'
  BY DEF ClaimsGiven
<1>4. RowOfClaim'
  BY DEF RowOfClaim, ClaimsGiven, ClaimsUnique
<1>5. LeaseSafety'
  BY DEF LeaseSafety, ValidLease, ClaimsGiven, RowOfClaim, ClaimsUnique
<1>6. LeftOrphaned'
  BY DEF LeftOrphaned, ClaimsGiven, ClaimsUnique, AckedRemembered
<1>7. AckedRemembered'
  BY DEF AckedRemembered, ClaimsGiven, ClaimsUnique
<1>8. OutcomeTruthful'
  BY DEF OutcomeTruthful, AckedRemembered, ClaimsGiven, RowOfClaim
<1> QED
  BY <1>1, <1>2, <1>3, <1>4, <1>5, <1>6, <1>7, <1>8

\* The watchdog and the ticker start on the lease that the claim gave.
LEMMA StartLeaseInv ==
    ASSUME IInv, NEW p \in Proc, StartLease(p)
    PROVE  IInv'
<1> USE DEF IInv, TypeOK, StartLease
<1>1. TypeOK'
  OBVIOUS
<1>2. ClaimsUnique'
  BY DEF ClaimsUnique, ClaimsGiven
<1>3. ClaimsGiven'
  BY DEF ClaimsGiven
<1>4. RowOfClaim'
  BY DEF RowOfClaim, ClaimsGiven, ClaimsUnique
<1>5. LeaseSafety'
  BY DEF LeaseSafety, ValidLease, ClaimsGiven, RowOfClaim, ClaimsUnique
<1>6. LeftOrphaned'
  BY DEF LeftOrphaned, ClaimsGiven, ClaimsUnique, AckedRemembered
<1>7. AckedRemembered'
  BY DEF AckedRemembered, ClaimsGiven, ClaimsUnique
<1>8. OutcomeTruthful'
  BY DEF OutcomeTruthful, AckedRemembered, ClaimsGiven, RowOfClaim
<1> QED
  BY <1>1, <1>2, <1>3, <1>4, <1>5, <1>6, <1>7, <1>8

\* A delivery admitted by the breaker goes on under the lease it has.
LEMMA AdmitInv ==
    ASSUME IInv, NEW p \in Proc, Admit(p)
    PROVE  IInv'
<1> USE DEF IInv, TypeOK, Admit
<1>1. TypeOK'
  OBVIOUS
<1>2. ClaimsUnique'
  BY DEF ClaimsUnique, ClaimsGiven
<1>3. ClaimsGiven'
  BY Zenon DEF ClaimsGiven
<1>4. RowOfClaim'
  BY DEF RowOfClaim, ClaimsGiven, ClaimsUnique
<1>5. LeaseSafety'
  BY DEF LeaseSafety, ValidLease, ClaimsGiven, RowOfClaim, ClaimsUnique
<1>6. LeftOrphaned'
  BY DEF LeftOrphaned, ClaimsGiven, ClaimsUnique, AckedRemembered
<1>7. AckedRemembered'
  BY DEF AckedRemembered, ClaimsGiven, ClaimsUnique
<1>8. OutcomeTruthful'
  BY DEF OutcomeTruthful, AckedRemembered, ClaimsGiven, RowOfClaim
<1> QED
  BY <1>1, <1>2, <1>3, <1>4, <1>5, <1>6, <1>7, <1>8

\* Sending a renewal changes nothing but the ticker.
LEMMA IssueRenewalInv ==
    ASSUME IInv, NEW p \in Proc, NEW by \in {"main", "ticker"}, IssueRenewal(p, by)
    PROVE  IInv'
<1> USE DEF IInv, TypeOK, IssueRenewal
<1>1. TypeOK'
  BY DEF Renewal
<1>2. ClaimsUnique'
  BY DEF ClaimsUnique, ClaimsGiven
<1>3. ClaimsGiven'
  BY Zenon DEF ClaimsGiven
<1>4. RowOfClaim'
  BY DEF RowOfClaim, ClaimsGiven, ClaimsUnique
<1>5. LeaseSafety'
  BY Zenon DEF LeaseSafety, ValidLease, ClaimsGiven, RowOfClaim, ClaimsUnique
<1>6. LeftOrphaned'
  BY DEF LeftOrphaned, ClaimsGiven, ClaimsUnique, AckedRemembered
<1>7. AckedRemembered'
  BY Zenon DEF AckedRemembered, ClaimsGiven, ClaimsUnique
<1>8. OutcomeTruthful'
  BY DEF OutcomeTruthful, AckedRemembered, ClaimsGiven, RowOfClaim
<1> QED
  BY <1>1, <1>2, <1>3, <1>4, <1>5, <1>6, <1>7, <1>8, Zenon

\* A renewal extends a row only for the generation that holds it.
LEMMA ExecuteRenewalInv ==
    ASSUME IInv, NEW p \in Proc, ExecuteRenewal(p)
    PROVE  IInv'
<1> USE DEF IInv, TypeOK, ExecuteRenewal, Owns, RenewRow
<1>1. TypeOK'
  <2>1. renewal' \in [Proc -> Renewal]
    BY DEF Renewal
  <2>2. Lease \in Null..Lease
    OBVIOUS
  <2>3. lease' \in [Exec -> Null..Lease]
    BY <2>2, Zenon
  <2> QED
    BY <2>1, <2>3
<1>2. ClaimsUnique'
  BY DEF ClaimsUnique, ClaimsGiven
<1>3. ClaimsGiven'
  BY DEF ClaimsGiven
<1>4. RowOfClaim'
  BY DEF RowOfClaim, ClaimsGiven, ClaimsUnique, HeldLease, Renewal
<1>5. LeaseSafety'
  BY DEF LeaseSafety, ValidLease, ClaimsGiven, ClaimsUnique, HeldLease
<1>6. LeftOrphaned'
  BY DEF LeftOrphaned, ClaimsGiven, ClaimsUnique, AckedRemembered
<1>7. AckedRemembered'
  BY DEF AckedRemembered, ClaimsGiven, ClaimsUnique
<1>8. OutcomeTruthful'
  BY DEF OutcomeTruthful, AckedRemembered, ClaimsGiven, RowOfClaim
<1> QED
  BY <1>1, <1>2, <1>3, <1>4, <1>5, <1>6, <1>7, <1>8

\* The answer extends the local lease by no more than the row's was.
LEMMA AcceptRenewalInv ==
    ASSUME IInv, NEW p \in Proc, AcceptRenewal(p)
    PROVE  IInv'
<1> USE DEF IInv, TypeOK, AcceptRenewal, NoRenewal
<1>1. TypeOK'
  <2>1. held' \in [Proc -> HeldLease]
    <3>1. held[p] \in HeldLease /\ renewal[p].rem \in 0..Lease
      BY DEF Renewal
    <3>2. [held[p] EXCEPT !.rem = renewal[p].rem] \in HeldLease
      BY <3>1, Zenon DEF HeldLease
    <3> QED
      BY <3>2
  <2>2. renewal' \in [Proc -> Renewal]
    BY DEF Renewal
  <2> QED
    BY <2>1, <2>2
<1>2. ClaimsUnique'
  BY DEF ClaimsUnique, ClaimsGiven
<1>3. ClaimsGiven'
  BY DEF ClaimsGiven
<1>4. RowOfClaim'
  BY DEF RowOfClaim, ClaimsGiven, ClaimsUnique
<1>5. LeaseSafety'
  BY DEF LeaseSafety, ValidLease, ClaimsGiven, RowOfClaim, ClaimsUnique
<1>6. LeftOrphaned'
  BY DEF LeftOrphaned, ClaimsGiven, ClaimsUnique, AckedRemembered
<1>7. AckedRemembered'
  BY DEF AckedRemembered, ClaimsGiven, ClaimsUnique
<1>8. OutcomeTruthful'
  BY DEF OutcomeTruthful, AckedRemembered, ClaimsGiven, RowOfClaim
<1> QED
  BY <1>1, <1>2, <1>3, <1>4, <1>5, <1>6, <1>7, <1>8, Zenon

\* A renewal that fails cancels the delivery and leaves the row alone.
LEMMA TickerFailsInv ==
    ASSUME IInv, NEW p \in Proc, renewal[p].st # "off",
           held' = [held EXCEPT ![p].cancelled = TRUE],
           renewal' = [renewal EXCEPT ![p] = NoRenewal],
           left' = left \union RenewalInFlight(p),
           UNCHANGED <<row, pc, attempt, outcome, acked>>
    PROVE  IInv'
<1> USE DEF IInv, TypeOK, NoRenewal, RenewalInFlight, RenewStmt, Stmt
<1>1. TypeOK'
  <2>1. held' \in [Proc -> HeldLease]
    <3>1. held[p] \in HeldLease
      OBVIOUS
    <3>2. [held[p] EXCEPT !.cancelled = TRUE] \in HeldLease
      BY <3>1, Zenon DEF HeldLease
    <3> QED
      BY <3>2
  <2>2. renewal' \in [Proc -> Renewal]
    BY DEF Renewal
  <2>3. left' \subseteq Stmt
    BY DEF ClaimsGiven, HeldLease
  <2> QED
    BY <2>1, <2>2, <2>3
<1>2. ClaimsUnique'
  BY DEF ClaimsUnique, ClaimsGiven
<1>3. ClaimsGiven'
  BY DEF ClaimsGiven
<1>4. RowOfClaim'
  BY DEF RowOfClaim, ClaimsGiven, ClaimsUnique
<1>5. LeaseSafety'
  BY DEF LeaseSafety, ValidLease, ClaimsGiven, RowOfClaim, ClaimsUnique
<1>6. LeftOrphaned'
  BY DEF LeftOrphaned, ClaimsGiven, ClaimsUnique, AckedRemembered
<1>7. AckedRemembered'
  BY DEF AckedRemembered, ClaimsGiven, ClaimsUnique
<1>8. OutcomeTruthful'
  BY DEF OutcomeTruthful, AckedRemembered, ClaimsGiven, RowOfClaim
<1> QED
  BY <1>1, <1>2, <1>3, <1>4, <1>5, <1>6, <1>7, <1>8, Zenon

\* Losing the lease cancels the delivery and claims nothing.
LEMMA RevokeInv ==
    ASSUME IInv, NEW p \in Proc, held' = [held EXCEPT ![p].cancelled = TRUE],
           UNCHANGED <<row, pc, attempt, outcome, renewal, left, acked>>
    PROVE  IInv'
<1> USE DEF IInv, TypeOK
<1>1. TypeOK'
  BY ZenonT(40) DEF HeldLease
<1>2. ClaimsUnique'
  BY DEF ClaimsUnique, ClaimsGiven
<1>3. ClaimsGiven'
  BY DEF ClaimsGiven
<1>4. RowOfClaim'
  BY DEF RowOfClaim, ClaimsGiven, ClaimsUnique
<1>5. LeaseSafety'
  BY DEF LeaseSafety, ValidLease, ClaimsGiven, RowOfClaim, ClaimsUnique
<1>6. LeftOrphaned'
  BY DEF LeftOrphaned, ClaimsGiven, ClaimsUnique, AckedRemembered
<1>7. AckedRemembered'
  BY DEF AckedRemembered, ClaimsGiven, ClaimsUnique
<1>8. OutcomeTruthful'
  BY Zenon DEF OutcomeTruthful, AckedRemembered, ClaimsGiven, RowOfClaim
<1> QED
  BY <1>1, <1>2, <1>3, <1>4, <1>5, <1>6, <1>7, <1>8

\* The answer of the receiver is remembered by the goroutine alone.
LEMMA SendReturnsInv ==
    ASSUME IInv, NEW p \in Proc, NEW r \in Results, SendReturns(p, r)
    PROVE  IInv'
<1> USE DEF IInv, TypeOK, SendReturns, Results
<1>1. TypeOK'
  BY DEF HeldLease, ClaimsGiven
<1>2. ClaimsUnique'
  BY DEF ClaimsUnique, ClaimsGiven
<1>3. ClaimsGiven'
  BY Zenon DEF ClaimsGiven
<1>4. RowOfClaim'
  BY DEF RowOfClaim, ClaimsGiven, ClaimsUnique
<1>5. LeaseSafety'
  BY DEF LeaseSafety, ValidLease, ClaimsGiven, RowOfClaim, ClaimsUnique
<1>6. LeftOrphaned'
  BY DEF LeftOrphaned, ClaimsGiven, ClaimsUnique, AckedRemembered
<1>7. AckedRemembered'
  BY DEF AckedRemembered, ClaimsGiven, ClaimsUnique
<1>8. OutcomeTruthful'
  BY ZenonT(40) DEF OutcomeTruthful, AckedRemembered, ClaimsGiven, RowOfClaim
<1> QED
  BY <1>1, <1>2, <1>3, <1>4, <1>5, <1>6, <1>7, <1>8, Zenon

\* An attempt is written only under the generation that made it.
LEMMA RecordAttemptInv ==
    ASSUME IInv, NEW p \in Proc, RecordAttempt(p)
    PROVE  IInv'
<1> USE DEF IInv, TypeOK, RecordAttempt, NoRenewal, RenewalInFlight, RenewStmt, Stmt
<1> DEFINE Retry == outcome[p] = "retryable" /\ attempt[p] < MaxAttempts
<1>1. TypeOK'
  <2>1. CASE Retry
    BY <2>1, Zenon
  <2>2. CASE ~Retry
    <3>1. renewal' \in [Proc -> Renewal]
      BY <2>2 DEF Renewal
    <3>2. left' \subseteq Stmt
      BY <2>2 DEF ClaimsGiven, HeldLease
    <3> QED
      BY <2>2, <3>1, <3>2, Zenon
  <2> QED
    BY <2>1, <2>2, Zenon
<1>2. ClaimsUnique'
  BY DEF ClaimsUnique, ClaimsGiven
<1>3. ClaimsGiven'
  BY DEF ClaimsGiven
<1>4. RowOfClaim'
  BY DEF RowOfClaim, ClaimsGiven, ClaimsUnique
<1>5. LeaseSafety'
  BY DEF LeaseSafety, ValidLease, ClaimsGiven, RowOfClaim, ClaimsUnique
<1>6. LeftOrphaned'
  BY DEF LeftOrphaned, ClaimsGiven, ClaimsUnique, AckedRemembered
<1>7. AckedRemembered'
  <2>1. CASE Retry
    BY <2>1, Zenon DEF AckedRemembered
  <2>2. CASE ~Retry
    BY <2>2, ZenonT(40) DEF AckedRemembered
  <2> QED
    BY <2>1, <2>2, Zenon
<1>8. OutcomeTruthful'
  BY Zenon DEF OutcomeTruthful, AckedRemembered, ClaimsGiven, RowOfClaim
<1> QED
  BY <1>1, <1>2, <1>3, <1>4, <1>5, <1>6, <1>7, <1>8, Zenon

\* The next attempt goes on under the same lease.
LEMMA BackoffElapsedInv ==
    ASSUME IInv, NEW p \in Proc, BackoffElapsed(p)
    PROVE  IInv'
<1> USE DEF IInv, TypeOK, BackoffElapsed
<1>1. TypeOK'
  BY DEF ClaimsGiven
<1>2. ClaimsUnique'
  BY DEF ClaimsUnique, ClaimsGiven
<1>3. ClaimsGiven'
  BY Zenon DEF ClaimsGiven
<1>4. RowOfClaim'
  BY DEF RowOfClaim, ClaimsGiven, ClaimsUnique
<1>5. LeaseSafety'
  BY DEF LeaseSafety, ValidLease, ClaimsGiven, RowOfClaim, ClaimsUnique
<1>6. LeftOrphaned'
  BY DEF LeftOrphaned, ClaimsGiven, ClaimsUnique, AckedRemembered
<1>7. AckedRemembered'
  BY Zenon DEF AckedRemembered, ClaimsGiven, ClaimsUnique
<1>8. OutcomeTruthful'
  BY Zenon DEF OutcomeTruthful, AckedRemembered, ClaimsGiven, RowOfClaim
<1> QED
  BY <1>1, <1>2, <1>3, <1>4, <1>5, <1>6, <1>7, <1>8, Zenon

\* An outcome is written only under the generation that reached it.
LEMMA ExecuteCompleteInv ==
    ASSUME IInv, NEW p \in Proc, ExecuteComplete(p)
    PROVE  IInv'
<1> USE DEF IInv, TypeOK, ExecuteComplete, Owns, CompleteRow
<1>1. TypeOK'
  BY DEF ClaimsGiven
<1>2. ClaimsUnique'
  BY DEF ClaimsUnique, ClaimsGiven
<1>3. ClaimsGiven'
  BY Zenon DEF ClaimsGiven
<1>4. RowOfClaim'
  BY DEF RowOfClaim, ClaimsGiven, ClaimsUnique
<1>5. LeaseSafety'
  BY DEF LeaseSafety, ValidLease, ClaimsGiven, RowOfClaim, ClaimsUnique
<1>6. LeftOrphaned'
  BY DEF LeftOrphaned, ClaimsGiven, ClaimsUnique, AckedRemembered
<1>7. AckedRemembered'
  BY ZenonT(40) DEF AckedRemembered, ClaimsGiven, ClaimsUnique
<1>8. OutcomeTruthful'
  BY DEF OutcomeTruthful, AckedRemembered, ClaimsGiven, RowOfClaim
<1> QED
  BY <1>1, <1>2, <1>3, <1>4, <1>5, <1>6, <1>7, <1>8, Zenon

\* A goroutine that leaves with a statement under way leaves its claim too.
LEMMA LeaveInv ==
    ASSUME IInv, NEW p \in Proc, pc[p] # "idle", Leave(p), UNCHANGED <<row, acked>>
    PROVE  IInv'
<1> USE DEF IInv, TypeOK, Leave, NoClaim, NoRenewal, RenewalInFlight, MainInFlight,
           RenewStmt, ClaimStmt, CompleteStmt, Stmt
<1>1. TypeOK'
  BY DEF HeldLease, Renewal, ClaimsGiven
<1>2. ClaimsUnique'
  BY DEF ClaimsUnique, ClaimsGiven
<1>3. ClaimsGiven'
  BY Zenon DEF ClaimsGiven
<1>4. RowOfClaim'
  BY DEF RowOfClaim, ClaimsGiven, ClaimsUnique
<1>5. LeaseSafety'
  BY DEF LeaseSafety, ValidLease, ClaimsGiven, RowOfClaim, ClaimsUnique
<1>6. LeftOrphaned'
  BY DEF LeftOrphaned, ClaimsGiven, ClaimsUnique, AckedRemembered
<1>7. AckedRemembered'
  BY Zenon DEF AckedRemembered, ClaimsGiven, ClaimsUnique
<1>8. OutcomeTruthful'
  BY Zenon DEF OutcomeTruthful, AckedRemembered, ClaimsGiven, RowOfClaim
<1> QED
  BY <1>1, <1>2, <1>3, <1>4, <1>5, <1>6, <1>7, <1>8, Zenon

\* A statement whose caller has left acts as it would have.
LEMMA ExecuteLeftInv ==
    ASSUME IInv, NEW s \in left, ExecuteLeft(s)
    PROVE  IInv'
<1> USE DEF IInv, TypeOK
<1>1. s.exec \in Exec /\ s.gen \in Nat /\ s.to \in Terminal
  BY DEF Stmt
<1>2. UNCHANGED <<pc, held, attempt, outcome, renewal, acked>> /\ left' = left \ {s}
  BY DEF ExecuteLeft
<1>3. Lease \in Null..Lease
  OBVIOUS
<1>4. CASE s.op = "claim" /\ Claimable(s.exec) /\ ClaimRow(s.exec)
  <2> USE <1>1, <1>2, <1>3, <1>4 DEF Claimable, ClaimRow
  <2>1. TypeOK'
    OBVIOUS
  <2>2. ClaimsUnique' /\ ClaimsGiven'
    BY DEF ClaimsUnique, ClaimsGiven
  <2>3. RowOfClaim'
    BY DEF RowOfClaim, ClaimsGiven
  <2>4. LeaseSafety'
    BY ZenonT(40) DEF LeaseSafety, ValidLease, ClaimsGiven
  <2>5. LeftOrphaned'
    BY DEF LeftOrphaned, Stmt
  <2>6. AckedRemembered' /\ OutcomeTruthful'
    BY DEF AckedRemembered, OutcomeTruthful
  <2> QED
    BY <2>1, <2>2, <2>3, <2>4, <2>5, <2>6, Zenon
<1>5. CASE s.op = "renew" /\ Owns(s.exec, s.gen) /\ RenewRow(s.exec)
  <2> USE <1>1, <1>2, <1>3, <1>5 DEF Owns, RenewRow
  <2>1. TypeOK'
    BY Zenon
  <2>2. ClaimsUnique' /\ ClaimsGiven'
    BY ZenonT(40) DEF ClaimsUnique, ClaimsGiven
  <2>3. RowOfClaim'
    BY DEF RowOfClaim, ClaimsGiven, HeldLease, Renewal
  <2>4. LeaseSafety'
    BY DEF LeaseSafety, ValidLease, ClaimsGiven, HeldLease
  <2>5. LeftOrphaned'
    BY DEF LeftOrphaned, Stmt
  <2>6. AckedRemembered' /\ OutcomeTruthful'
    BY Zenon DEF AckedRemembered, OutcomeTruthful
  <2> QED
    BY <2>1, <2>2, <2>3, <2>4, <2>5, <2>6, Zenon
<1>6. CASE s.op = "complete" /\ Owns(s.exec, s.gen) /\ CompleteRow(s.exec, s.to)
  <2> USE <1>1, <1>2, <1>6 DEF CompleteRow
  <2>1. TypeOK'
    OBVIOUS
  <2>2. ClaimsUnique' /\ ClaimsGiven'
    BY ZenonT(40) DEF ClaimsUnique, ClaimsGiven
  <2>0. \A p \in Proc :
          ~(pc[p] \in Holding /\ held[p].exec = s.exec /\ held[p].gen = generation[s.exec])
    <3>1. \A p \in Proc :
            ~(pc[p] \in Holding /\ held[p].exec = s.exec /\ held[p].gen = s.gen)
      BY Zenon DEF LeftOrphaned
    <3> QED
      BY <3>1 DEF Owns
  <2>3. RowOfClaim'
    BY <2>0 DEF RowOfClaim, ClaimsGiven
  <2>4. LeaseSafety'
    BY <2>0 DEF LeaseSafety, ValidLease, ClaimsGiven, Owns
  <2>5. LeftOrphaned'
    BY DEF LeftOrphaned, Stmt
  <2>6. AckedRemembered' /\ OutcomeTruthful'
    BY DEF AckedRemembered, OutcomeTruthful, LeftOrphaned, Owns
  <2> QED
    BY <2>1, <2>2, <2>3, <2>4, <2>5, <2>6, Zenon
<1> QED
  BY <1>4, <1>5, <1>6 DEF ExecuteLeft

\* A statement whose caller has left may also never be executed.
LEMMA DropLeftInv ==
    ASSUME IInv, NEW s \in left, DropLeft(s)
    PROVE  IInv'
<1> USE DEF IInv, DropLeft
<1>1. TypeOK'
  BY Zenon DEF TypeOK
<1>2. /\ UNCHANGED <<status, generation, lease, acked>>
      /\ UNCHANGED <<pc, held, attempt, outcome, renewal>>
  BY Zenon DEF row, worker
<1>3. ClaimsUnique' /\ ClaimsGiven'
  BY <1>2, Zenon DEF ClaimsUnique, ClaimsGiven
<1>4. RowOfClaim'
  BY <1>2, Zenon DEF RowOfClaim, Target
<1>5. LeaseSafety'
  BY <1>2, Zenon DEF LeaseSafety, ValidLease
<1>6. LeftOrphaned' /\ AckedRemembered' /\ OutcomeTruthful'
  BY ZenonT(40) DEF LeftOrphaned, AckedRemembered, OutcomeTruthful
<1> QED
  BY <1>1, <1>3, <1>4, <1>5, <1>6, Zenon

\* A new row is nobody's.
LEMMA InsertInv ==
    ASSUME IInv, NEW x \in Exec, InsertExecution(x)
    PROVE  IInv'
<1> USE DEF IInv, TypeOK, InsertExecution
<1>1. TypeOK'
  BY Zenon
<1>2. ClaimsUnique' /\ ClaimsGiven'
  BY ZenonT(40) DEF ClaimsUnique, ClaimsGiven
<1>3. RowOfClaim'
  BY DEF RowOfClaim, ClaimsGiven
<1>4. LeaseSafety'
  BY ZenonT(40) DEF LeaseSafety, ValidLease, ClaimsGiven
<1>5. LeftOrphaned'
  BY ZenonT(40) DEF LeftOrphaned, Stmt
<1>6. AckedRemembered' /\ OutcomeTruthful'
  BY Zenon DEF AckedRemembered, OutcomeTruthful
<1> QED
  BY <1>1, <1>2, <1>3, <1>4, <1>5, <1>6, Zenon

\* A row is requeued only when its lease is over.
LEMMA RequeueInv ==
    ASSUME IInv, NEW x \in Exec, RequeueExpired(x)
    PROVE  IInv'
<1> USE DEF IInv, TypeOK, RequeueExpired, Stale
<1>1. TypeOK'
  OBVIOUS
<1>2. ClaimsUnique' /\ ClaimsGiven'
  BY DEF ClaimsUnique, ClaimsGiven
<1>3. RowOfClaim'
  BY DEF RowOfClaim, ClaimsGiven
<1>4. LeaseSafety'
  BY SMTT(30) DEF LeaseSafety, ValidLease, ClaimsGiven, HeldLease
<1>5. LeftOrphaned'
  BY DEF LeftOrphaned, Stmt
<1>6. AckedRemembered' /\ OutcomeTruthful'
  BY DEF AckedRemembered, OutcomeTruthful
<1> QED
  BY <1>1, <1>2, <1>3, <1>4, <1>5, <1>6, Zenon

\* A row may be deleted under a lease: nothing is written to it any more.
LEMMA DeleteInv ==
    ASSUME IInv, NEW x \in Exec, DeleteJob(x)
    PROVE  IInv'
<1> USE DEF IInv, TypeOK, DeleteJob
<1>1. TypeOK'
  OBVIOUS
<1>2. ClaimsUnique' /\ ClaimsGiven'
  BY ZenonT(40) DEF ClaimsUnique, ClaimsGiven
<1>3. RowOfClaim'
  BY DEF RowOfClaim, ClaimsGiven
<1>4. LeaseSafety'
  BY ZenonT(40) DEF LeaseSafety, ValidLease, ClaimsGiven
<1>5. LeftOrphaned'
  BY ZenonT(40) DEF LeftOrphaned, Stmt
<1>6. AckedRemembered' /\ OutcomeTruthful'
  BY DEF AckedRemembered, OutcomeTruthful
<1> QED
  BY <1>1, <1>2, <1>3, <1>4, <1>5, <1>6, Zenon

\* Time takes as much from the local leases as from the rows'.
LEMMA TickInv ==
    ASSUME IInv, Tick
    PROVE  IInv'
<1>1. TypeOK'
  <2> USE DEF IInv, TypeOK, Tick
  <2>1. \A n \in 0..Lease : Down(n) \in 0..Lease
    BY DEF Down
  <2>2. ASSUME NEW p \in Proc
        PROVE  [held[p] EXCEPT !.rem = Down(held[p].rem)] \in HeldLease
    <3>1. held[p] \in HeldLease
      OBVIOUS
    <3>2. Down(held[p].rem) \in 0..Lease
      BY <2>1, <3>1 DEF HeldLease
    <3> QED
      BY <3>1, <3>2, Zenon DEF HeldLease
  <2>3. ASSUME NEW p \in Proc
        PROVE  [renewal[p] EXCEPT !.rem = Down(renewal[p].rem)] \in Renewal
    <3>1. renewal[p] \in Renewal
      OBVIOUS
    <3>2. Down(renewal[p].rem) \in 0..Lease
      BY <2>1, <3>1 DEF Renewal
    <3> QED
      BY <3>1, <3>2, Zenon DEF Renewal
  <2>4. lease' \in [Exec -> Null..Lease]
    BY DEF Down
  <2> QED
    BY <2>2, <2>3, <2>4
<1>2. ASSUME NEW p \in Proc
      PROVE  /\ held'[p].exec = held[p].exec /\ held'[p].gen = held[p].gen
             /\ held'[p].cancelled = held[p].cancelled
             /\ held'[p].rem = Down(held[p].rem) /\ held[p].rem \in 0..Lease
             /\ renewal'[p].st = renewal[p].st /\ renewal'[p].by = renewal[p].by
             /\ renewal'[p].rem = Down(renewal[p].rem) /\ renewal[p].rem \in 0..Lease
  BY DEF IInv, TypeOK, HeldLease, Renewal, Tick
<1>3. \A e \in Exec : lease[e] \in Null..Lease /\ lease'[e] = Down(lease[e])
  BY DEF IInv, TypeOK, Tick
<1>4. UNCHANGED <<status, generation, pc, attempt, outcome, left, acked>>
  BY Zenon DEF Tick
<1>5. \A p \in Proc : pc[p] \in Holding => held[p].exec \in Exec
  BY Zenon DEF IInv, ClaimsGiven
<1>6. ClaimsUnique' /\ ClaimsGiven'
  BY <1>2, <1>4 DEF IInv, ClaimsUnique, ClaimsGiven
<1>7. RowOfClaim'
  BY <1>2, <1>3, <1>4, <1>5, SMTT(30) DEF IInv, RowOfClaim, Down
<1>8. LeaseSafety'
  BY <1>2, <1>3, <1>4, <1>5, SMTT(30) DEF IInv, LeaseSafety, ValidLease, Down
<1>9. LeftOrphaned' /\ AckedRemembered' /\ OutcomeTruthful'
  BY <1>2, <1>4 DEF IInv, LeftOrphaned, AckedRemembered, OutcomeTruthful
<1> QED
  BY <1>1, <1>6, <1>7, <1>8, <1>9 DEF IInv

(***************************************************************************)
(* The theorems.                                                           *)
(***************************************************************************)
LEMMA NextInv == IInv /\ [Next]_vars => IInv'
<1> SUFFICES ASSUME IInv, [Next]_vars PROVE IInv'
  OBVIOUS
<1>1. ASSUME NEW e \in Exec, RowStep(e) PROVE IInv'
  BY <1>1, InsertInv, RequeueInv, DeleteInv, Zenon DEF RowStep
<1>2. ASSUME NEW p \in Proc, WorkerStep(p) PROVE IInv'
  <2>1. CASE Defer(p) \/ FinishComplete(p) \/ StopRevoked(p) \/ Crash(p)
    BY <2>1, LeaveInv, Zenon DEF Defer, FinishComplete, StopRevoked, Crash
  <2>2. CASE FailRenewal(p)
    <3>1. pc[p] # "idle"
      BY <2>2 DEF FailRenewal, IInv, ClaimsGiven
    <3>2. CASE renewal[p].by = "main"
      BY <2>2, <3>1, <3>2, LeaveInv DEF FailRenewal
    <3>3. CASE renewal[p].by # "main"
      BY <2>2, <3>3, TickerFailsInv DEF FailRenewal
    <3> QED
      BY <3>2, <3>3
  <2>3. CASE WatchExpiry(p) \/ Revoke(p)
    BY <2>3, RevokeInv DEF WatchExpiry, Revoke
  <2>4. CASE \/ \E e \in Exec : IssueClaim(p, e)
             \/ ExecuteClaim(p) \/ ClaimNothing(p) \/ StartLease(p) \/ Admit(p)
    BY <2>4, IssueClaimInv, ExecuteClaimInv, ClaimNothingInv, StartLeaseInv, AdmitInv, Zenon
  <2>5. CASE \/ \E by \in {"main", "ticker"} : IssueRenewal(p, by)
             \/ ExecuteRenewal(p) \/ AcceptRenewal(p)
    BY <2>5, IssueRenewalInv, ExecuteRenewalInv, AcceptRenewalInv
  <2>6. CASE \/ \E r \in Results : SendReturns(p, r)
             \/ RecordAttempt(p) \/ BackoffElapsed(p) \/ ExecuteComplete(p)
    BY <2>6, SendReturnsInv, RecordAttemptInv, BackoffElapsedInv, ExecuteCompleteInv
  <2> QED
    BY <1>2, <2>1, <2>2, <2>3, <2>4, <2>5, <2>6, Zenon DEF WorkerStep
<1>3. ASSUME NEW s \in left, LeftStep(s) PROVE IInv'
  BY <1>3, ExecuteLeftInv, DropLeftInv, Zenon DEF LeftStep
<1>4. CASE UNCHANGED vars
  <2>1. TypeOK'
    BY <1>4, Zenon DEF vars, IInv, TypeOK
  <2>2. ClaimsUnique' /\ ClaimsGiven'
    BY <1>4, Zenon DEF vars, IInv, ClaimsUnique, ClaimsGiven
  <2>3. RowOfClaim'
    BY <1>4, Zenon DEF vars, IInv, RowOfClaim
  <2>4. LeaseSafety'
    BY <1>4, Zenon DEF vars, IInv, LeaseSafety, ValidLease, Target
  <2>5. LeftOrphaned' /\ AckedRemembered' /\ OutcomeTruthful'
    BY <1>4, ZenonT(40) DEF vars, IInv, LeftOrphaned, AckedRemembered, OutcomeTruthful
  <2> QED
    BY <2>1, <2>2, <2>3, <2>4, <2>5, Zenon DEF IInv
<1> QED
  BY <1>1, <1>2, <1>3, <1>4, TickInv DEF Next

\* Which steps change the table, or what the receivers have answered.
LEMMA TableChanges ==
    Next => \/ UNCHANGED <<status, generation, acked>>
            \/ \E e \in Exec : RowStep(e)
            \/ \E p \in Proc :
                  ExecuteClaim(p) \/ ExecuteComplete(p) \/ \E r \in Results : SendReturns(p, r)
            \/ \E s \in left : LeftStep(s)
<1> SUFFICES ASSUME NEW p \in Proc, WorkerStep(p)
             PROVE  \/ UNCHANGED <<status, generation, acked>>
                    \/ ExecuteClaim(p) \/ ExecuteComplete(p)
                    \/ \E r \in Results : SendReturns(p, r)
  BY DEF Next, Tick
<1> QED
  BY DEF WorkerStep, IssueClaim, ClaimNothing, StartLease, Admit, Defer, IssueRenewal,
         ExecuteRenewal, RenewRow, AcceptRenewal, FailRenewal, WatchExpiry, Revoke,
         RecordAttempt, BackoffElapsed, FinishComplete, StopRevoked, Crash

\* The inductive invariant holds of every behaviour of the delivery protocol.
THEOREM Invariance == Spec => []IInv
<1> QED
  BY InitInv, NextInv, PTL DEF Spec

\* The variables of the delivery protocol keep their types.
THEOREM TypeCorrect == Spec => []TypeOK
<1>1. IInv => TypeOK
  BY DEF IInv
<1> QED
  BY <1>1, Invariance, PTL

\* While its executionLease is valid, a delivery goroutine owns the row.
THEOREM LeaseIsSafe == Spec => []LeaseSafety
<1>1. IInv => LeaseSafety
  BY Zenon DEF IInv
<1> QED
  BY <1>1, Invariance, PTL

\* Send calls for one execution overlap only once one caller has lost its lease.
THEOREM SendsExclusive == Spec => []OverlapOnlyAfterExpiry
<1>1. IInv => OverlapOnlyAfterExpiry
  <2> SUFFICES ASSUME IInv, NEW p \in Proc, NEW q \in Proc, p # q,
                      held[p].exec = held[q].exec, pc[p] = "sending", pc[q] = "sending",
                      ValidLease(p), ValidLease(q)
               PROVE  FALSE
    BY Zenon DEF OverlapOnlyAfterExpiry
  <2>1. held[p].gen # held[q].gen
    BY Zenon DEF IInv, ClaimsUnique
  <2>2. held[p].gen = held[q].gen
    BY DEF IInv, LeaseSafety
  <2> QED
    BY <2>1, <2>2, Zenon
<1> QED
  BY <1>1, Invariance, PTL

\* CompleteExecution records what the webhook receiver answered to that claim.
THEOREM OutcomeIsTruthful == Spec => []OutcomeTruthful
<1>1. IInv => OutcomeTruthful
  BY DEF IInv
<1> QED
  BY <1>1, Invariance, PTL

\* delivered and failed are final, and claim_generation never decreases.
THEOREM TerminalIsImmutable == Spec => TerminalImmutable
<1> DEFINE Step == \A e \in Exec :
              /\ status[e] \in Terminal => status'[e] \in {status[e], "deleted"}
              /\ generation'[e] >= generation[e]
<1>1. IInv /\ [Next]_vars => [Step]_vars
  <2> SUFFICES ASSUME IInv, Next PROVE Step
    BY Zenon
  <2> USE DEF IInv, TypeOK
  <2>1. ASSUME NEW e \in Exec, RowStep(e) PROVE Step
    BY <2>1 DEF RowStep, InsertExecution, RequeueExpired, Stale, DeleteJob
  <2>2. ASSUME NEW p \in Proc, ExecuteClaim(p) PROVE Step
    BY <2>2 DEF ExecuteClaim, Claimable, ClaimRow
  <2>3. ASSUME NEW p \in Proc, NEW r \in Results, SendReturns(p, r) PROVE Step
    BY <2>3 DEF SendReturns
  <2>4. ASSUME NEW p \in Proc, ExecuteComplete(p) PROVE Step
    BY <2>4 DEF ExecuteComplete, Owns, CompleteRow
  <2>5. ASSUME NEW s \in left, LeftStep(s) PROVE Step
    BY <2>5 DEF LeftStep, ExecuteLeft, DropLeft, Claimable, Owns, ClaimRow, RenewRow, CompleteRow
  <2>6. CASE UNCHANGED <<status, generation>>
    BY <2>6
  <2> QED
    BY <2>1, <2>2, <2>3, <2>4, <2>5, <2>6, TableChanges, Zenon
<1> QED
  BY <1>1, Invariance, PTL DEF Spec, TerminalImmutable

\* The executions table, driven by any number of goroutines, implements the
\* life cycle: each step is a step of ExecutionLifecycle or leaves it unchanged.
THEOREM ImplementsLifecycle == Spec => LifecycleSpec
<1>1. Init => Lifecycle!Init
  BY Zenon DEF Init, Lifecycle!Init
<1>2. IInv /\ [Next]_vars => [Lifecycle!Next]_Lifecycle!vars
  <2> SUFFICES ASSUME IInv, Next, ~UNCHANGED <<status, generation, acked>>
               PROVE  Lifecycle!Next
    BY DEF vars, Lifecycle!vars
  <2> USE DEF IInv, TypeOK
  <2>1. ASSUME NEW e \in Exec, Claimable(e), ClaimRow(e), UNCHANGED acked
        PROVE  Lifecycle!Next
    BY <2>1, Zenon DEF Claimable, ClaimRow, Lifecycle!Claim, Lifecycle!Next
  <2>2. ASSUME NEW e \in Exec, NEW g \in Nat \ {0}, NEW t \in Terminal, Owns(e, g),
               CompleteRow(e, t), t = "delivered" <=> <<e, g>> \in acked, UNCHANGED acked
        PROVE  Lifecycle!Next
    <3>1. CASE t = "delivered"
      <4>1. Lifecycle!Deliver(e)
        BY <2>2, <3>1, Zenon DEF Owns, CompleteRow, Lifecycle!Deliver
      <4> QED
        BY <4>1, Zenon DEF Lifecycle!Next
    <3>2. CASE t = "failed"
      <4>1. Lifecycle!Fail(e)
        BY <2>2, <3>2 DEF Owns, CompleteRow, Lifecycle!Fail
      <4> QED
        BY <4>1, Zenon DEF Lifecycle!Next
    <3> QED
      BY <3>1, <3>2, Zenon
  <2>3. ASSUME NEW e \in Exec, RowStep(e) PROVE Lifecycle!Next
    <3>1. Lifecycle!Insert(e) \/ Lifecycle!Requeue(e) \/ Lifecycle!Delete(e)
      BY <2>3 DEF RowStep, InsertExecution, RequeueExpired, Stale, DeleteJob,
                  Lifecycle!Insert, Lifecycle!Requeue, Lifecycle!Delete
    <3> QED
      BY <3>1, Zenon DEF Lifecycle!Next
  <2>4. ASSUME NEW p \in Proc, ExecuteClaim(p) PROVE Lifecycle!Next
    <3>1. held[p].exec \in Exec
      BY <2>4, Zenon DEF ExecuteClaim, ClaimsGiven
    <3> QED
      BY <2>1, <2>4, <3>1 DEF ExecuteClaim
  <2>5. ASSUME NEW p \in Proc, ExecuteComplete(p) PROVE Lifecycle!Next
    <3>1. held[p].exec \in Exec /\ held[p].gen \in Nat \ {0} /\ Target(p) \in Terminal
      BY <2>5 DEF ExecuteComplete, ClaimsGiven, HeldLease
    <3>2. Target(p) = "delivered" <=> <<held[p].exec, held[p].gen>> \in acked
      BY <2>5, Zenon DEF ExecuteComplete, AckedRemembered
    <3> QED
      BY <2>2, <2>5, <3>1, <3>2, Zenon DEF ExecuteComplete
  <2>6. ASSUME NEW s \in left, LeftStep(s) PROVE Lifecycle!Next
    <3>1. s.exec \in Exec /\ s.to \in Terminal
      BY Zenon DEF Stmt
    <3>2. CASE s.op = "claim" /\ Claimable(s.exec) /\ ClaimRow(s.exec)
      BY <2>1, <2>6, <3>1, <3>2, Zenon DEF LeftStep, ExecuteLeft, DropLeft
    <3>3. CASE s.op = "complete" /\ Owns(s.exec, s.gen) /\ CompleteRow(s.exec, s.to)
      <4>1. /\ s.gen \in Nat \ {0}
            /\ s.to = "delivered" <=> <<s.exec, s.gen>> \in acked
        BY <3>1, <3>3 DEF LeftOrphaned, Stmt
      <4> QED
        BY <2>2, <2>6, <3>1, <3>3, <4>1, Zenon DEF LeftStep, ExecuteLeft, DropLeft
    <3> QED
      BY <2>6, <3>2, <3>3, Zenon DEF LeftStep, ExecuteLeft, DropLeft, RenewRow
  <2>7. ASSUME NEW p \in Proc, NEW r \in Results, SendReturns(p, r)
        PROVE  Lifecycle!Next
    <3> DEFINE e == held[p].exec
               g == held[p].gen
    <3>1. e \in Exec /\ g \in 1..generation[e] /\ generation[e] \in Nat
      BY <2>7, Zenon DEF SendReturns, ClaimsGiven
    <3>2. ~(status[e] = "failed" /\ g = generation[e])
      BY <2>7, Zenon DEF SendReturns, RowOfClaim
    <3>3. Lifecycle!Acknowledge(e, g)
      BY <2>7, <3>1, <3>2, Zenon DEF SendReturns, Lifecycle!Acknowledge
    <3> QED
      BY <3>1, <3>3, Zenon DEF Lifecycle!Next
  <2> QED
    BY <2>3, <2>4, <2>5, <2>6, <2>7, TableChanges, Zenon
<1> QED
  BY <1>1, <1>2, Invariance, PTL DEF Spec, LifecycleSpec, Lifecycle!Spec

-----------------------------------------------------------------------------
(***************************************************************************)
(* Migrate.  A runner past the lock whose session is open has the lock, so *)
(* the schema and the tracking table change only by its hand; what it has  *)
(* decided to apply is what is neither recorded nor there.  A database     *)
(* built by hand is known as one by a baselined row, once there is any     *)
(* row.                                                                    *)
(***************************************************************************)
UnderLock == {"table", "baseline", "pending", "applying", "release", "failing"}

LockHeld ==
    \A p \in Runner :
        /\ mpc[p] \in UnderLock \cup {"locking"} => sess[p] \in {"open", "lost"}
        /\ mpc[p] \in UnderLock /\ sess[p] = "open" => lock = p
        /\ lock = p => sess[p] \in {"open", "discarded"}
        /\ lock = p /\ sess[p] = "open" => mpc[p] \in UnderLock

SchemaKnown ==
    /\ executed = [v \in Version |-> IF v \in schema THEN 1 ELSE 0]
    /\ Recorded \subseteq schema /\ \A v \in Recorded : 1..v \subseteq Recorded
    /\ ~byHand => schema = Recorded
    /\ byHand => 1 \in schema /\ (Recorded # {} => \E v \in Version : rec[v] = "baselined")
    /\ automatic \cap Manual = {}

PlansKnown ==
    \A p \in Runner :
        /\ mpc[p] \in {"baseline", "pending", "applying"} => tracking
        /\ mpc[p] = "baseline" /\ sess[p] = "open" => Recorded = {}
        /\ mpc[p] = "pending" /\ sess[p] = "open" /\ byHand => Recorded # {}
        /\ mpc[p] = "applying" /\ sess[p] = "open" =>
              /\ pending[p] = Version \ Recorded /\ pending[p] \cap schema = {}
              /\ byHand => pending[p] \cap Manual = {}
        /\ mpc[p] \in {"release", "complete"} => Recorded = Version

MigrateIInv ==
    /\ MigrateTypeOK /\ pending \in [Runner -> SUBSET Version]
    /\ LockHeld /\ SchemaKnown /\ PlansKnown

\* A fresh database, or one built by hand (the states Run finds).
LEMMA MigrateStarts == MigrateInit => MigrateIInv
<1> SUFFICES ASSUME MigrateInit PROVE MigrateIInv
  OBVIOUS
<1> USE MigrateAssumption DEF MigrateInit
<1>1. Recorded = {}
  BY DEF Recorded
<1>2. MigrateTypeOK /\ pending \in [Runner -> SUBSET Version]
  BY <1>1, Zenon DEF MigrateTypeOK
<1>3. LockHeld /\ PlansKnown
  BY Zenon DEF LockHeld, PlansKnown, UnderLock
<1>4. SchemaKnown
  BY <1>1, Zenon DEF SchemaKnown
<1>5. QED
  BY <1>2, <1>3, <1>4 DEF MigrateIInv

\* Steps that leave the database as it is and take nobody past the decision
\* (acquireLock, releaseLock, lost sessions and crashes).
LEMMA LockSteps ==
    ASSUME MigrateIInv, NEW p \in Runner,
           \/ OpenConn(p) \/ AcquireLock(p) \/ LockTimeout(p) \/ LockError(p)
           \/ ReleaseLock(p) \/ ReleaseFails(p) \/ StatementError(p)
           \/ EndSession(p) \/ CrashMigrating(p)
    PROVE  MigrateIInv'
<1> USE MigrateAssumption DEF MigrateIInv, MigrateTypeOK
<1>1. UNCHANGED <<schema, tracking, rec, executed, automatic, byHand, pending>>
  BY Zenon DEF OpenConn, AcquireLock, LockTimeout, LockError, ReleaseLock, ReleaseFails, StatementError,
     EndSession, CrashMigrating, dbVars
<1>2. Recorded' = Recorded
  BY <1>1, Zenon DEF Recorded
<1>3. SchemaKnown'
  BY <1>1, <1>2, Zenon DEF SchemaKnown
<1>4. /\ sess' \in [Runner -> {"none", "open", "lost", "pooled", "discarded"}]
      /\ mpc' \in [Runner -> {"idle", "locking", "table", "baseline", "pending", "applying",
                              "release", "failing", "complete"}]
      /\ lock' \in Runner \cup {NoRunner}
  BY Zenon DEF OpenConn, AcquireLock, LockTimeout, LockError, ReleaseLock, ReleaseFails, StatementError,
     EndSession, CrashMigrating, Statement
<1>5. MigrateTypeOK'
  BY <1>1, <1>2, <1>4, Zenon
<1>6. LockHeld'
  <2> USE DEF LockHeld, UnderLock
  <2>1. CASE OpenConn(p)
    BY <2>1, Zenon DEF OpenConn
  <2>2. CASE AcquireLock(p)
    BY <2>2, Zenon DEF AcquireLock, Statement
  <2>3. CASE LockTimeout(p)
    BY <2>3, Zenon DEF LockTimeout, Statement
  <2>4. CASE LockError(p)
    BY <2>4 DEF LockError
  <2>5. CASE ReleaseLock(p)
    BY <2>5 DEF ReleaseLock
  <2>6. CASE ReleaseFails(p)
    BY <2>6, Zenon DEF ReleaseFails
  <2>7. CASE StatementError(p)
    BY <2>7, Zenon DEF StatementError
  <2>8. CASE EndSession(p)
    BY <2>8, ZenonT(40) DEF EndSession
  <2>9. CASE CrashMigrating(p)
    BY <2>9, Zenon DEF CrashMigrating
  <2>10. QED
    BY <2>1, <2>2, <2>3, <2>4, <2>5, <2>7, <2>8, <2>9, <2>6, Zenon
<1>7. PlansKnown'
  <2>1. \A q \in Runner : /\ mpc'[q] \in {"baseline", "pending", "applying"} => mpc'[q] = mpc[q]
                          /\ mpc'[q] \in {"release", "complete"} => mpc[q] \in {"release", "complete"}
    BY ZenonT(40) DEF OpenConn, AcquireLock, LockTimeout, LockError, ReleaseLock, ReleaseFails, StatementError,
       EndSession, CrashMigrating, Statement
  <2>2. \A q \in Runner :
          mpc'[q] \in {"baseline", "pending", "applying"} /\ sess'[q] = "open" => sess[q] = "open"
    BY DEF OpenConn, AcquireLock, LockTimeout, LockError, ReleaseLock, ReleaseFails, StatementError,
       EndSession, CrashMigrating, Statement
  <2>3. QED
    BY <1>1, <1>2, <2>1, <2>2, Zenon DEF PlansKnown
<1>8. QED
  BY <1>1, <1>3, <1>5, <1>6, <1>7, Zenon

\* Another runner's plan stands: nobody else changes the database under its lock.
LEMMA PlansStand ==
    ASSUME MigrateIInv, NEW p \in Runner, mpc[p] \in UnderLock, sess[p] = "open",
           sess' = sess, byHand' = byHand, Recorded \subseteq Recorded', Recorded' \subseteq Version,
           \A q \in Runner \ {p} : mpc'[q] = mpc[q] /\ pending'[q] = pending[q],
           NEW q \in Runner \ {p}
    PROVE  /\ ~(mpc'[q] \in {"baseline", "pending", "applying"} /\ sess'[q] = "open")
           /\ mpc'[q] \in {"release", "complete"} => Recorded' = Version
BY Zenon DEF MigrateIInv, LockHeld, PlansKnown, UnderLock

\* A step under the lock that keeps the lock and the session.
LEMMA LockStays ==
    ASSUME MigrateIInv, NEW p \in Runner, mpc[p] \in UnderLock, sess[p] = "open",
           NEW to \in UnderLock, mpc' = [mpc EXCEPT ![p] = to], UNCHANGED <<lock, sess>>
    PROVE  LockHeld' /\ mpc' \in [Runner -> {"idle", "locking", "table", "baseline", "pending",
                                  "applying", "release", "failing", "complete"}]
BY DEF MigrateIInv, MigrateTypeOK, LockHeld, UnderLock

\* The tracking table is created and read (ensureTable, applied).
LEMMA TableStep ==
    ASSUME MigrateIInv, NEW p \in Runner, CreateTracking(p) \/ AllApplied(p)
    PROVE  MigrateIInv'
<1> USE MigrateAssumption DEF MigrateIInv
<1>1. /\ mpc[p] \in UnderLock /\ sess[p] = "open"
      /\ UNCHANGED <<schema, rec, executed, automatic, lock, sess, pending, byHand>>
      /\ \E to \in UnderLock : mpc' = [mpc EXCEPT ![p] = to]
  BY Zenon DEF CreateTracking, AllApplied, Statement, UnderLock, dbVars
<1>2. Recorded' = Recorded /\ Recorded \subseteq Version
  BY <1>1 DEF Recorded
<1>3. LockHeld' /\ mpc' \in [Runner -> {"idle", "locking", "table", "baseline", "pending",
                             "applying", "release", "failing", "complete"}]
  BY <1>1, LockStays, Zenon
<1>4. MigrateTypeOK' /\ pending' \in [Runner -> SUBSET Version]
  BY <1>1, <1>2, <1>3, Zenon DEF MigrateTypeOK, CreateTracking, AllApplied, dbVars
<1>5. SchemaKnown'
  BY <1>1, <1>2, Zenon DEF SchemaKnown
<1>6. PlansKnown'
  <2>1. \A q \in Runner \ {p} : mpc'[q] = mpc[q]
    BY <1>1
  <2>2. mpc'[p] \notin {"applying", "complete"} /\ (mpc'[p] = "pending" => Recorded # {})
        /\ (mpc'[p] = "baseline" => Recorded = {})
    BY Zenon DEF CreateTracking, AllApplied, Statement, MigrateTypeOK
  <2>3. mpc'[p] = "release" => Recorded = Version
    BY <1>2, Zenon DEF CreateTracking, AllApplied, Statement, MigrateTypeOK, PlansKnown
  <2>4. (tracking => tracking') /\ (mpc'[p] \in {"baseline", "pending"} => tracking')
    BY Zenon DEF CreateTracking, AllApplied, Statement, MigrateTypeOK, dbVars
  <2>5. \A q \in Runner \ {p} : mpc'[q] \in {"baseline", "pending", "applying"} => tracking'
    BY <2>1, <2>4, Zenon DEF PlansKnown
  <2>6. QED
    BY <1>1, <1>2, <2>1, <2>2, <2>3, <2>4, <2>5, Zenon DEF PlansKnown
<1>7. QED
  BY <1>3, <1>4, <1>5, <1>6, Zenon

\* What is present of an unrecorded tail extends the recorded prefix.
LEMMA PresentExtends ==
    ASSUME NEW R \in SUBSET Version, \A v \in R : 1..v \subseteq R
    PROVE  LET found == Present(Version \ R) IN
           /\ found \subseteq schema /\ found \subseteq Version
           /\ \A v \in R \cup found : 1..v \subseteq R \cup found
<1> DEFINE found == Present(Version \ R)
<1>1. found \subseteq Version \ R
  BY DEF Present
<1>2. found \subseteq schema
  BY MigrateAssumption DEF Present, Version
<1>3. ASSUME NEW v \in found, NEW w \in 1..v PROVE w \in R \cup found
  <2>1. w \in Version /\ v \in Version /\ w <= v
    BY <1>1, <1>3, MigrateAssumption DEF Version
  <2>2. CASE w \notin R
    BY <2>1, <2>2 DEF Present, Version
  <2>3. QED
    BY <2>2
<1>4. QED
  BY <1>1, <1>2, <1>3, Zenon

\* Rows of baselined migrations are added (RecordBaselined).
LEMMA BaselinedRows ==
    ASSUME MigrateIInv, NEW set \in SUBSET Version,
           rec' = [v \in Version |-> IF v \in set THEN "baselined" ELSE rec[v]]
    PROVE  /\ Recorded' = Recorded \cup set
           /\ rec' \in [Version -> {"none", "applied", "baselined"}]
           /\ \A v \in Version : (v \in set \/ rec[v] = "baselined") => rec'[v] = "baselined"
BY Zenon DEF MigrateIInv, MigrateTypeOK, Recorded

\* A database without rows is taken over as it is (baseline).
LEMMA BaselineStep ==
    ASSUME MigrateIInv, NEW p \in Runner, Baseline(p)
    PROVE  MigrateIInv'
<1> USE MigrateAssumption DEF MigrateIInv
<1> DEFINE found == IF 1 \in schema THEN Present(Version) ELSE {}
           refused == found # {} /\ Gap(Version)
<1>1. /\ mpc[p] = "baseline" /\ sess[p] = "open"
      /\ mpc' = [mpc EXCEPT ![p] = IF refused THEN "failing" ELSE "pending"]
      /\ UNCHANGED <<lock, sess, pending, byHand, schema, tracking, executed, automatic>>
      /\ IF refused THEN rec' = rec
         ELSE rec' = [v \in Version |-> IF v \in found THEN "baselined" ELSE rec[v]]
  BY DEF Baseline, Statement, RecordBaselined, dbVars
<1>2. LockHeld' /\ mpc' \in [Runner -> {"idle", "locking", "table", "baseline", "pending",
                             "applying", "release", "failing", "complete"}]
  BY <1>1, LockStays, Zenon DEF UnderLock
<1>3. Recorded = {} /\ tracking /\ Version \ Recorded = Version /\ Recorded \in SUBSET Version
  BY <1>1, Zenon DEF PlansKnown, Recorded
<1>4. /\ found \subseteq schema /\ found \subseteq Version
      /\ \A v \in found : 1..v \subseteq found
  <2>1. /\ Present(Version) \subseteq schema /\ Present(Version) \subseteq Version
        /\ \A v \in Present(Version) : 1..v \subseteq Present(Version)
    BY <1>3, PresentExtends, Zenon DEF SchemaKnown
  <2>2. QED
    BY <2>1
<1>5. byHand /\ ~refused => 1 \in found
  BY DEF SchemaKnown, Present, Gap, Version
<1> HIDE DEF found, refused
<1>6. /\ rec' \in [Version -> {"none", "applied", "baselined"}]
      /\ Recorded' = IF refused THEN {} ELSE found
      /\ ~refused => \A v \in found : rec'[v] = "baselined"
  <2>1. CASE refused
    BY <1>1, <1>3, <2>1, Zenon DEF MigrateTypeOK, Recorded
  <2>2. CASE ~refused
    BY <1>1, <1>3, <1>4, <2>2, BaselinedRows
  <2>3. QED
    BY <2>1, <2>2, Zenon
<1>7. MigrateTypeOK' /\ pending' \in [Runner -> SUBSET Version]
  BY <1>1, <1>2, <1>3, <1>6 DEF MigrateTypeOK
<1>8. SchemaKnown'
  BY <1>1, <1>3, <1>4, <1>6, Zenon DEF SchemaKnown
<1>9. PlansKnown'
  <2>1. \A q \in Runner \ {p} : mpc'[q] = mpc[q] /\ pending'[q] = pending[q]
    BY <1>1
  <2>2. Recorded \subseteq Recorded' /\ Recorded' \subseteq Version
    BY <1>3, <1>4, <1>6, Zenon
  <2>3. mpc'[p] \in {"failing", "pending"} /\ (mpc'[p] = "pending" => ~refused)
    BY <1>1, Zenon DEF MigrateTypeOK
  <2>4. mpc'[p] = "pending" /\ byHand' => Recorded' # {}
    BY <1>1, <1>5, <1>6, <2>3, Zenon
  <2>5. ASSUME NEW q \in Runner \ {p}
        PROVE  /\ ~(mpc'[q] \in {"baseline", "pending", "applying"} /\ sess'[q] = "open")
               /\ mpc'[q] \in {"release", "complete"} => Recorded' = Version
    BY <1>1, <2>1, <2>2, PlansStand, Zenon DEF UnderLock
  <2>6. QED
    BY <1>1, <1>3, <2>3, <2>4, <2>5, Zenon DEF PlansKnown
<1>10. QED
  BY <1>2, <1>7, <1>8, <1>9, Zenon

\* What is still to apply is decided, or the run refused (Run after baseline).
LEMMA DecideStep ==
    ASSUME MigrateIInv, NEW p \in Runner, Decide(p)
    PROVE  MigrateIInv'
<1> USE MigrateAssumption DEF MigrateIInv
<1> DEFINE all == Version \ Recorded
           baselined == \E v \in Version : rec[v] = "baselined"
           found == IF baselined THEN Present(all) ELSE {}
           rest == all \ found
           gap == baselined /\ Gap(all)
           refused == gap \/ (baselined /\ rest \cap Manual # {})
<1>1. /\ mpc[p] = "pending" /\ sess[p] = "open"
      /\ mpc' = [mpc EXCEPT ![p] = IF refused THEN "failing" ELSE "applying"]
      /\ UNCHANGED <<lock, sess, byHand, schema, tracking, executed, automatic>>
      /\ IF gap THEN rec' = rec
         ELSE rec' = [v \in Version |-> IF v \in found THEN "baselined" ELSE rec[v]]
      /\ pending' = [pending EXCEPT ![p] = rest]
  BY Zenon DEF Decide, Statement, RecordBaselined, dbVars
<1>2. LockHeld' /\ mpc' \in [Runner -> {"idle", "locking", "table", "baseline", "pending",
                             "applying", "release", "failing", "complete"}]
  BY <1>1, LockStays, Zenon DEF UnderLock
<1>3. tracking /\ Recorded \in SUBSET Version /\ (byHand => baselined)
  BY <1>1 DEF PlansKnown, Recorded, SchemaKnown
<1>4. /\ found \subseteq schema /\ found \subseteq Version
      /\ \A v \in Recorded \cup found : 1..v \subseteq Recorded \cup found
  <2>1. /\ Present(all) \subseteq schema /\ Present(all) \subseteq Version
        /\ \A v \in Recorded \cup Present(all) : 1..v \subseteq Recorded \cup Present(all)
    BY <1>3, PresentExtends, Zenon DEF SchemaKnown
  <2>2. QED
    BY <2>1, Zenon DEF SchemaKnown
<1>5. ~gap => rest \cap schema = {}
  <2>1. CASE baselined
    BY <2>1, Zenon DEF Gap
  <2>2. CASE ~baselined
    BY <1>3, <2>2, Zenon DEF SchemaKnown
  <2>3. QED
    BY <2>1, <2>2, Zenon
<1>6. rest \subseteq Version /\ rest = Version \ (Recorded \cup found)
  BY Zenon
<1>7. gap => refused
  BY Zenon
<1>8. ~refused /\ byHand => rest \cap Manual = {}
  BY <1>3, Zenon
<1> HIDE DEF found, refused, rest, gap
<1>9. /\ rec' \in [Version -> {"none", "applied", "baselined"}]
      /\ Recorded' = IF gap THEN Recorded ELSE Recorded \cup found
      /\ \A v \in Version : rec[v] = "baselined" => rec'[v] = "baselined"
  <2>1. CASE gap
    BY <1>1, <1>3, <2>1 DEF MigrateTypeOK, Recorded
  <2>2. CASE ~gap
    BY <1>1, <1>3, <1>4, <2>2, BaselinedRows, Zenon
  <2>3. QED
    BY <2>1, <2>2
<1>10. MigrateTypeOK' /\ pending' \in [Runner -> SUBSET Version]
  BY <1>1, <1>2, <1>3, <1>6, <1>9, Zenon DEF MigrateTypeOK
<1>11. SchemaKnown'
  <2>1. Recorded' \subseteq schema /\ \A v \in Recorded' : 1..v \subseteq Recorded'
    BY <1>4, <1>9, Zenon DEF SchemaKnown
  <2>2. ~byHand => schema = Recorded'
    BY <1>4, <1>9, Zenon DEF SchemaKnown
  <2>3. byHand => \E v \in Version : rec'[v] = "baselined"
    BY <1>3, <1>9, Zenon
  <2>4. QED
    BY <1>1, <2>1, <2>2, <2>3, Zenon DEF SchemaKnown
<1>12. PlansKnown'
  <2>1. \A q \in Runner \ {p} : mpc'[q] = mpc[q] /\ pending'[q] = pending[q]
    BY <1>1
  <2>2. Recorded \subseteq Recorded' /\ Recorded' \subseteq Version
    BY <1>3, <1>4, <1>9, Zenon
  <2>3. mpc'[p] \in {"failing", "applying"} /\ (mpc'[p] = "applying" => ~refused) /\ pending'[p] = rest
    BY <1>1, Zenon DEF MigrateTypeOK
  <2>4. mpc'[p] = "applying" => /\ pending'[p] = Version \ Recorded' /\ pending'[p] \cap schema' = {}
                                /\ byHand' => pending'[p] \cap Manual = {}
    BY <1>1, <1>5, <1>6, <1>7, <1>8, <1>9, <2>3, Zenon
  <2>5. ASSUME NEW q \in Runner \ {p}
        PROVE  /\ ~(mpc'[q] \in {"baseline", "pending", "applying"} /\ sess'[q] = "open")
               /\ mpc'[q] \in {"release", "complete"} => Recorded' = Version
    BY <1>1, <2>1, <2>2, PlansStand DEF UnderLock
  <2>6. QED
    BY <1>1, <1>3, <2>3, <2>4, <2>5, Zenon DEF PlansKnown
<1>13. QED
  BY <1>2, <1>10, <1>11, <1>12

\* Every non-empty set of natural numbers has a least element.
LEMMA LeastNatural ==
    ASSUME NEW S \in SUBSET Nat, S # {}
    PROVE  \E v \in S : \A w \in S : v <= w
<1> DEFINE R == OpToRel(<, Nat)
<1>1. \A i, j \in Nat : i < j => <<i, j>> \in R
  BY DEF OpToRel
<1>2. IsWellFoundedOn(R, Nat)
  BY NatLessThanWellFounded, Zenon
<1> HIDE DEF R
<1>3. PICK v \in S : \A w \in S : ~(<<w, v>> \in R)
  BY <1>2, WFMin, Zenon
<1>4. ASSUME NEW w \in S PROVE v <= w
  <2>1. v \in Nat /\ w \in Nat /\ ~(<<w, v>> \in R)
    BY <1>3
  <2>2. ~(w < v)
    BY <1>1, <2>1
  <2>3. QED
    BY <2>1, <2>2
<1>5. QED
  BY <1>3, <1>4

\* A non-empty set of migrations has a first one (sorted file names).
LEMMA SmallestIs ==
    ASSUME NEW S \in SUBSET Version, S # {}
    PROVE  Smallest(S) \in S /\ \A w \in S : Smallest(S) <= w
<1>1. S \in SUBSET Nat
  BY MigrateAssumption DEF Version
<1>2. \E v \in S : \A w \in S : v <= w
  BY <1>1, LeastNatural, Zenon
<1>3. QED
  BY <1>2 DEF Smallest

\* One migration commits with its row, answered or not (apply).
LEMMA ApplyStep ==
    ASSUME MigrateIInv, NEW p \in Runner, Apply(p) \/ ApplyUnanswered(p)
    PROVE  MigrateIInv'
<1> USE MigrateAssumption DEF MigrateIInv
<1> DEFINE v == Smallest(pending[p])
<1>1. /\ mpc[p] = "applying" /\ sess[p] = "open" /\ pending[p] # {} /\ rec[v] = "none"
      /\ UNCHANGED <<tracking, lock, sess, byHand>>
      /\ schema' = schema \cup {v} /\ executed' = [executed EXCEPT ![v] = @ + 1]
      /\ automatic' = automatic \cup (IF byHand THEN {v} ELSE {})
      /\ rec' = [rec EXCEPT ![v] = "applied"]
      /\ \/ mpc' = [mpc EXCEPT ![p] = "applying"] /\ pending' = [pending EXCEPT ![p] = @ \ {v}]
         \/ mpc' = [mpc EXCEPT ![p] = "failing"] /\ pending' = pending
  BY Zenon DEF Apply, ApplyUnanswered, Statement, Execute
<1>2. LockHeld' /\ mpc' \in [Runner -> {"idle", "locking", "table", "baseline", "pending",
                             "applying", "release", "failing", "complete"}]
  <2>1. \E s \in UnderLock : mpc' = [mpc EXCEPT ![p] = s]
    BY <1>1, Zenon DEF UnderLock
  <2>2. QED
    BY <1>1, <2>1, LockStays, Zenon DEF UnderLock
<1>3. /\ tracking /\ Recorded \in SUBSET Version /\ pending[p] \in SUBSET Version
      /\ pending[p] = Version \ Recorded /\ pending[p] \cap schema = {}
      /\ byHand => pending[p] \cap Manual = {}
  BY <1>1, Zenon DEF PlansKnown, Recorded
<1>4. v \in pending[p] /\ \A w \in pending[p] : v <= w
  BY <1>1, <1>3, SmallestIs, Zenon
<1> HIDE DEF v
<1>5. v \in Version /\ v \notin schema /\ v \notin Recorded
  BY <1>3, <1>4, Zenon
<1>6. Recorded' = Recorded \cup {v} /\ rec' \in [Version -> {"none", "applied", "baselined"}]
  BY <1>1, <1>5 DEF Recorded, MigrateTypeOK
<1>7. pending' \in [Runner -> SUBSET Version] /\ \A q \in Runner \ {p} : pending'[q] = pending[q]
  BY <1>1, Zenon
<1>8. MigrateTypeOK'
  BY <1>1, <1>2, <1>3, <1>5, <1>6, Zenon DEF MigrateTypeOK
<1>9. SchemaKnown'
  <2>1. executed' = [w \in Version |-> IF w \in schema' THEN 1 ELSE 0]
    BY <1>1, <1>5 DEF SchemaKnown
  <2>2. 1..v \subseteq Recorded \cup {v}
    BY <1>3, <1>4, <1>5 DEF Version
  <2>3. Recorded' \subseteq schema' /\ \A w \in Recorded' : 1..w \subseteq Recorded'
    BY <1>1, <1>6, <2>2, Zenon DEF SchemaKnown
  <2>4. automatic' \cap Manual = {}
    BY <1>1, <1>3, <1>4, ZenonT(40) DEF SchemaKnown
  <2>5. byHand' => 1 \in schema' /\ \E w \in Version : rec'[w] = "baselined"
    <3>1. byHand => Recorded # {}
      BY <1>3, <1>5 DEF SchemaKnown, Version
    <3>2. QED
      BY <1>1, <1>5, <3>1, Zenon DEF SchemaKnown, MigrateTypeOK
  <2>6. ~byHand' => schema' = Recorded'
    BY <1>1, <1>6, Zenon DEF SchemaKnown
  <2>7. QED
    BY <2>1, <2>3, <2>4, <2>5, <2>6, Zenon DEF SchemaKnown
<1>10. PlansKnown'
  <2>1. \A q \in Runner \ {p} : mpc'[q] = mpc[q] /\ pending'[q] = pending[q]
    <3>1. \A q \in Runner \ {p} : mpc'[q] = mpc[q]
      BY <1>1, Zenon DEF MigrateTypeOK
    <3>2. QED
      BY <1>7, <3>1, Zenon
  <2>2. Recorded \subseteq Recorded' /\ Recorded' \subseteq Version
    BY <1>3, <1>5, <1>6, Zenon
  <2>3. mpc'[p] \in {"failing", "applying"}
    BY <1>1, Zenon DEF MigrateTypeOK
  <2>4. mpc'[p] = "applying" => /\ pending'[p] = Version \ Recorded' /\ pending'[p] \cap schema' = {}
                                /\ byHand' => pending'[p] \cap Manual = {}
    <3>1. mpc'[p] = "applying" => pending'[p] = pending[p] \ {v}
      BY <1>1, Zenon DEF MigrateTypeOK
    <3>2. QED
      BY <1>1, <1>3, <1>6, <3>1, Zenon
  <2>5. ASSUME NEW q \in Runner \ {p}
        PROVE  /\ ~(mpc'[q] \in {"baseline", "pending", "applying"} /\ sess'[q] = "open")
               /\ mpc'[q] \in {"release", "complete"} => Recorded' = Version
    BY <1>1, <2>1, <2>2, PlansStand, Zenon DEF UnderLock
  <2>6. QED
    BY <1>1, <1>3, <2>3, <2>4, <2>5, Zenon DEF PlansKnown
<1>11. QED
  BY <1>2, <1>7, <1>8, <1>9, <1>10, Zenon

\* The operator applies the next missing migration, while no runner has the lock
\* (schema/README.md).
LEMMA ByHandStep ==
    ASSUME MigrateIInv, ApplyByHand
    PROVE  MigrateIInv'
<1> USE MigrateAssumption DEF MigrateIInv
<1> DEFINE v == Smallest(Version \ schema)
<1>1. /\ lock = NoRunner /\ Version \ schema # {} /\ (Recorded = {} \/ byHand)
      /\ schema' = schema \cup {v} /\ executed' = [executed EXCEPT ![v] = @ + 1] /\ byHand' = TRUE
      /\ UNCHANGED <<tracking, rec, automatic, lock, sess, mpc, pending>>
  BY Zenon DEF ApplyByHand
<1>2. v \in Version \ schema /\ \A w \in Version \ schema : v <= w
  BY <1>1, SmallestIs, Zenon
<1> HIDE DEF v
<1>3. Recorded' = Recorded
  BY <1>1, Zenon DEF Recorded
<1>4. 1 \in schema'
  BY <1>1, <1>2 DEF Version
<1>5. \A p \in Runner : ~(mpc[p] \in {"baseline", "pending", "applying"} /\ sess[p] = "open")
  BY <1>1 DEF LockHeld, UnderLock
<1>6. SchemaKnown'
  BY <1>1, <1>2, <1>3, <1>4 DEF SchemaKnown
<1>7. PlansKnown'
  BY <1>1, <1>3, <1>5 DEF PlansKnown
<1>8. MigrateTypeOK' /\ LockHeld'
  BY <1>1, <1>2, <1>3 DEF MigrateTypeOK, LockHeld
<1>9. QED
  BY <1>1, <1>6, <1>7, <1>8, Zenon

\* The inductive invariant holds in every state of the migrations.
THEOREM MigrateInvariance == MigrateSpec => []MigrateIInv
<1>1. MigrateIInv /\ [MigrateNext]_migrateVars => MigrateIInv'
  <2> SUFFICES ASSUME MigrateIInv, [MigrateNext]_migrateVars PROVE MigrateIInv'
    OBVIOUS
  <2>1. CASE MigrateNext
    BY <2>1, LockSteps, TableStep, BaselineStep, DecideStep, ApplyStep, ByHandStep
    DEF MigrateNext, MigrateStep
  <2>2. CASE UNCHANGED migrateVars
    BY <2>2 DEF migrateVars, dbVars, MigrateIInv, MigrateTypeOK, LockHeld, SchemaKnown, PlansKnown,
       Recorded
  <2>3. QED
    BY <2>1, <2>2
<1>2. QED
  BY <1>1, MigrateStarts, PTL DEF MigrateSpec

\* The schema and its record agree, for any number of runners and migrations and
\* any choice of manual and repeatable ones (Run, baseline, apply, acquireLock).
THEOREM MigrationsSafe == MigrateSpec => []MigrationsAreSafe
<1>1. ASSUME MigrateIInv PROVE MigrationsAreSafe
  <2> USE <1>1 DEF MigrateIInv
  <2>1. \A w \in Version : executed[w] <= 1
    BY DEF SchemaKnown
  <2>2. (\E p \in Runner : mpc[p] \in {"release", "complete"}) =>
            schema = Version /\ \A w \in Version : Status(w) # "pending"
    BY MigrateAssumption, Zenon DEF PlansKnown, SchemaKnown, MigrateTypeOK, Status, Recorded, Version
  <2>3. \A p \in Runner : sess[p] = "pooled" => lock # p
    BY DEF LockHeld
  <2>4. QED
    BY <2>1, <2>2, <2>3 DEF MigrationsAreSafe, SchemaKnown
<1>2. QED
  BY <1>1, MigrateInvariance, PTL
=============================================================================
