------------------------------ MODULE JobProofs -------------------------------
(***************************************************************************)
(* What holds of the requests that change jobs: the invariant JobIInv of   *)
(* JobRequestProofs is also kept by the statements that write and by the   *)
(* commits, and the promises to the users follow from it.                  *)
(***************************************************************************)
EXTENDS JobRequestProofs

\* Rows of jobs are written, and batches are confirmed, by somebody who has
\* locked them: what another request relies on is still so.  A written row has
\* the time and the state it had, or a time the request has not seen.
LEMMA KnowsAfterWrite ==
    ASSUME Rows, NEW s \in Request, Holds(s), Knows(s), UNCHANGED <<views, keyOn>>,
           clock' \in Nat, clock <= clock',
           NEW W \in SUBSET Job,
           \A k \in Job \ W : job'[k] = job[k],
           \A k \in W : /\ JobRow(k) \notin s.held \/ ~There(k)
                        /\ job[k].st # "new" => job'[k].st # "new"
                        /\ job[k].st = "gone" => job'[k].st = "gone"
                        /\ Updating(s) => job'[k].stamp # s.u
                        /\ \/ job'[k].stamp = job[k].stamp /\ job'[k].on = job[k].on
                           \/ Previewing(s) => s.item[k].stamp # job'[k].stamp,
           NEW B \in SUBSET Unconfirmed,
           \A b \in Batch \ B : batch'[b] = batch[b],
           \A b \in B : batch'[b].st = "confirmed" /\ BatchRow(b) \notin s.held
    PROVE  Knows(s)'
<1>1. Unconfirmed' = Unconfirmed \ B
  BY DEF Unconfirmed
<1>2. B \subseteq Batch /\ Unconfirmed \subseteq Batch
  BY DEF Unconfirmed
<1>3. KeyKept(s)' /\ RoomForView(s)'
  BY DEF Knows, KeyKept, RoomForView
<1>4. OwnTime(s)'
  <2>1. CASE ~Updating(s)
    BY <2>1 DEF OwnTime
  <2>2. CASE Updating(s)
    <3>1. s.u \in 1 .. clock /\ clock \in Nat
      BY <2>2, ControlAssumption DEF Knows, OwnTime, Rows, Stamp
    <3>2. \A k \in Job : job'[k].stamp # s.u
      BY <2>2 DEF Knows, OwnTime
    <3>3. \A b \in Unconfirmed', k \in Job : batch'[b].item[k].stamp # s.u
      BY <1>1, <1>2, <2>2 DEF Knows, OwnTime
    <3>4. s.u \in 1 .. clock'
      BY <3>1
    <3>5. QED
      BY <3>2, <3>3, <3>4 DEF OwnTime
  <2>3. QED
    BY <2>1, <2>2
<1>5. ItemsShown(s)'
  <2>1. CASE ~Previewing(s)
    BY <2>1 DEF ItemsShown
  <2>2. CASE Previewing(s)
    <3> SUFFICES ASSUME NEW k \in Job PROVE Shown(s.item[k], k)' /\ s.item[k].res = "none"
      BY DEF ItemsShown
    <3>1. Shown(s.item[k], k) /\ s.item[k].res = "none"
      BY <2>2 DEF Knows, ItemsShown
    <3>2. s.item[k].stamp \in Nat /\ clock \in Nat
      BY <2>2, Phases, ControlAssumption DEF Previewing, Previews, Item, Stamp, Rows
    <3>3. s.item[k].stamp <= clock'
      BY <3>1, <3>2 DEF Shown
    <3>4. s.item[k].in => job'[k].st # "new"
      BY <3>1 DEF Shown
    <3>5. s.item[k].in /\ s.item[k].stamp = job'[k].stamp => s.item[k].on = job'[k].on
      BY <2>2, <3>1 DEF Shown
    <3>6. QED
      BY <3>1, <3>3, <3>4, <3>5 DEF Shown
  <2>3. QED
    BY <2>1, <2>2
<1>6. RoomForBatch(s)'
  <2>1. CASE s.pc # "p_read"
    BY <2>1 DEF RoomForBatch
  <2>2. CASE s.pc = "p_read"
    <3>1. s.purge \subseteq Batch /\ s.held = {KeyShare, BatchQuota} \cup {BatchRow(b) : b \in s.purge}
      BY <2>2, Phases DEF Previews, Holds
    <3>2. /\ s.purge \subseteq Expired /\ Cardinality(Unconfirmed \ s.purge) < MaxPending
          /\ \E b \in Batch : batch[b].st = "none"
      BY <2>2 DEF Knows, RoomForBatch
    <3>3. s.purge \cap B = {}
      BY <3>1
    <3>4. s.purge \subseteq Expired'
      BY <3>1, <3>2, <3>3, Zenon DEF Expired
    <3>5. Cardinality(Unconfirmed' \ s.purge) < MaxPending
      <4>1. IsFiniteSet(Unconfirmed \ s.purge)
        BY <1>2, Finite, Zenon
      <4>2. Unconfirmed' \ s.purge \subseteq Unconfirmed \ s.purge
        BY <1>1
      <4>3. /\ Cardinality(Unconfirmed' \ s.purge) <= Cardinality(Unconfirmed \ s.purge)
            /\ IsFiniteSet(Unconfirmed' \ s.purge)
        BY <4>1, <4>2, FS_Subset, Zenon
      <4>4. Cardinality(Unconfirmed \ s.purge) \in Nat /\ Cardinality(Unconfirmed' \ s.purge) \in Nat
        BY <4>1, <4>3, FS_CardinalityType, Zenon
      <4>5. QED
        BY <3>2, <4>3, <4>4, ControlAssumption
    <3>6. \E b \in Batch : batch'[b].st = "none"
      BY <3>2 DEF Unconfirmed
    <3>7. QED
      BY <3>4, <3>5, <3>6, Zenon DEF RoomForBatch
  <2>3. QED
    BY <2>1, <2>2
<1>7. BatchFound(s)'
  <2>1. CASE s.pc = "c_batch"
    BY <2>1, <1>2, Phases, Zenon DEF Knows, BatchFound, Confirms
  <2>2. CASE s.pc = "c_item"
    <3>1. s.b \in Unconfirmed \ B /\ s.b \in Batch
      BY <1>2, <2>2 DEF Knows, BatchFound, Holds
    <3>2. batch'[s.b] = batch[s.b]
      BY <3>1
    <3>3. ASSUME NEW k \in Job PROVE Judged(s, k)'
      <4>1. Judged(s, k)
        BY <2>2 DEF Knows, BatchFound
      <4>2. CASE k \notin W
        BY <3>2, <4>1, <4>2, ZenonT(40) DEF Judged, There
      <4>3. CASE k \in W
        <5>1. s.item[k].res \notin {"applied", "unchanged", "conflict"}
          BY <4>1, <4>3, ZenonT(40) DEF Judged
        <5>2. s.item[k].res = "unavailable" => job'[k].st = "gone"
          BY <4>1, <4>3, Zenon DEF Judged
        <5>3. QED
          BY <3>2, <4>1, <5>1, <5>2, ZenonT(40) DEF Judged
      <4>4. QED
        BY <4>2, <4>3, Zenon
    <3>4. QED
      BY <1>1, <2>2, <3>1, <3>3, Zenon DEF BatchFound
  <2>3. CASE s.pc \notin {"c_batch", "c_item"}
    BY <2>3, Zenon DEF BatchFound
  <2>4. QED
    BY <2>1, <2>2, <2>3, Zenon
<1>8. QED
  BY <1>3, <1>4, <1>5, <1>6, <1>7 DEF Knows

\* The same of the stored previews.
LEMMA StoredAfterWrite ==
    ASSUME Rows, Stored, clock' \in Nat, clock <= clock',
           NEW W \in SUBSET Job,
           \A k \in Job \ W : job'[k] = job[k],
           \A k \in W : job[k].st # "new" => job'[k].st # "new",
           \A k \in W, b \in Unconfirmed : \/ job'[k].stamp = job[k].stamp /\ job'[k].on = job[k].on
                                           \/ batch[b].item[k].stamp # job'[k].stamp,
           NEW B \in SUBSET Unconfirmed,
           \A b \in Batch \ B : batch'[b] = batch[b],
           \A b \in B : batch'[b].st = "confirmed"
    PROVE  Stored'
<1>1. Unconfirmed' = Unconfirmed \ B /\ Unconfirmed \subseteq Batch
  BY DEF Unconfirmed
<1> SUFFICES ASSUME NEW b \in Unconfirmed', NEW k \in Job
             PROVE  Shown(batch[b].item[k], k)' /\ batch'[b].item[k].res = "none"
  BY DEF Stored
<1>2. b \in Unconfirmed /\ b \in Batch /\ batch'[b] = batch[b]
  BY <1>1
<1>3. Shown(batch[b].item[k], k) /\ batch[b].item[k].res = "none"
  BY <1>2 DEF Stored
<1>4. batch[b].item[k].stamp \in Nat /\ clock \in Nat
  BY <1>2, ControlAssumption DEF Rows, Item, Stamp
<1>5. batch[b].item[k].stamp <= clock'
  BY <1>3, <1>4 DEF Shown
<1>6. batch[b].item[k].in => job'[k].st # "new"
  BY <1>3 DEF Shown
<1>7. batch[b].item[k].in /\ batch[b].item[k].stamp = job'[k].stamp => batch[b].item[k].on = job'[k].on
  BY <1>2, <1>3 DEF Shown
<1>8. QED
  BY <1>2, <1>3, <1>5, <1>6, <1>7, Zenon DEF Shown

\* A job is created (CreateJobAggregate).
LEMMA CreateStep ==
    ASSUME JobIInv, NEW j \in Job, CreateJobAggregate(j)
    PROVE  JobIInv'
<1> USE DEF JobIInv
<1>1. /\ job[j].st = "new" /\ job' = [job EXCEPT ![j].st = "there"]
      /\ UNCHANGED <<sched, runs, batch, views, keyOn, proc, clock, fleet>>
  BY DEF CreateJobAggregate
<1>2. /\ \A k \in Job \ {j} : job'[k] = job[k]
      /\ job'[j].st = "there" /\ job'[j].stamp = job[j].stamp /\ job'[j].on = job[j].on
      /\ job'[j].by = job[j].by
      /\ job' \in [Job -> [st : {"new", "there", "gone"}, on : BOOLEAN, name : Stamp,
                           stamp : Stamp, by : Stamp]]
  BY <1>1 DEF Rows
<1>3. clock \in Nat /\ clock' = clock
  BY <1>1, ControlAssumption DEF Rows, Stamp
<1>4. Rows'
  BY <1>1, <1>2, <1>3 DEF Rows
<1>5. Whole'
  BY <1>1, <1>2 DEF Whole, There, Rows
<1>6. QuotasKept'
  BY <1>1 DEF QuotasKept, Unconfirmed
<1> DEFINE W == {j}
           B == {}
<1>7. /\ W \in SUBSET Job /\ B \in SUBSET Unconfirmed
      /\ \A k \in Job \ W : job'[k] = job[k]
      /\ \A b \in Batch \ B : batch'[b] = batch[b]
      /\ \A k \in W : /\ ~There(k) /\ job[k].st = "new" /\ job'[k].st = "there"
                     /\ job'[k].stamp = job[k].stamp /\ job'[k].on = job[k].on
  BY <1>1, <1>2 DEF There
<1>8. \A b \in B : FALSE
  OBVIOUS
<1> HIDE DEF W, B
<1>9. Stored'
  <2>1. /\ \A k \in W : job[k].st # "new" => job'[k].st # "new"
        /\ \A k \in W, b \in Unconfirmed : job'[k].stamp = job[k].stamp /\ job'[k].on = job[k].on
    BY <1>7, Zenon
  <2>2. QED
    BY <1>3, <1>7, <1>8, <2>1, StoredAfterWrite
<1>10. ASSUME NEW s \in Request, Holds(s), Knows(s) PROVE Knows(s)'
  <2>1. UNCHANGED <<views, keyOn>>
    BY <1>1
  <2>2. \A k \in W : /\ JobRow(k) \notin s.held \/ ~There(k)
                     /\ job[k].st # "new" => job'[k].st # "new"
                     /\ job[k].st = "gone" => job'[k].st = "gone"
                     /\ Updating(s) => job'[k].stamp # s.u
                     /\ job'[k].stamp = job[k].stamp /\ job'[k].on = job[k].on
    BY <1>7, <1>10 DEF Knows, OwnTime
  <2>3. QED
    BY <1>3, <1>7, <1>8, <1>10, <2>1, <2>2, KnowsAfterWrite
<1>11. Requests'
  BY <1>1, <1>10, StatementStep DEF Requests
<1>12. QED
  BY <1>4, <1>5, <1>6, <1>9, <1>11

\* A job is paused or resumed by one statement that waits for its row.
LEMMA EnableStep ==
    ASSUME JobIInv, NEW j \in Job, NEW on \in BOOLEAN, SetJobEnabled(j, on)
    PROVE  JobIInv'
<1> USE DEF JobIInv
<1>1. /\ There(j) /\ Free(JobRow(j)) /\ clock < MaxClock /\ clock' = clock + 1
      /\ job' = [job EXCEPT ![j].on = on, ![j].stamp = clock + 1]
      /\ fleet' = [fleet EXCEPT ![j] = on]
      /\ UNCHANGED <<sched, runs, batch, views, keyOn, proc>>
  BY DEF SetJobEnabled
<1>2. clock \in Nat /\ clock' \in Nat /\ clock <= clock' /\ clock + 1 \in Stamp
  BY <1>1, ControlAssumption DEF Rows, Stamp
<1>3. /\ \A k \in Job \ {j} : job'[k] = job[k]
      /\ job'[j].st = job[j].st /\ job'[j].stamp = clock + 1 /\ job'[j].on = on
      /\ job'[j].by = job[j].by
      /\ job' \in [Job -> [st : {"new", "there", "gone"}, on : BOOLEAN, name : Stamp,
                           stamp : Stamp, by : Stamp]]
  BY <1>1, <1>2 DEF Rows
<1>4. Rows'
  <2>1. \A k \in Job : job'[k].stamp <= clock'
    BY <1>1, <1>2, <1>3 DEF Rows, Stamp
  <2>2. fleet' \in [Job -> BOOLEAN]
    BY <1>1 DEF Rows
  <2>3. QED
    BY <1>1, <1>2, <1>3, <2>1, <2>2, Zenon DEF Rows
<1>5. Whole'
  <2>1. \A k \in Job : job'[k].on = fleet'[k] /\ job'[k].by = sched'[k].by
    BY <1>1, <1>3 DEF Whole, Rows
  <2>2. \A k \in runs' : There(k)'
    BY <1>1, <1>3 DEF Whole, Rows, There
  <2>3. QED
    BY <2>1, <2>2 DEF Whole
<1>6. QuotasKept'
  BY <1>1 DEF QuotasKept, Unconfirmed
<1> DEFINE W == {j}
           B == {}
<1>7. /\ W \in SUBSET Job /\ B \in SUBSET Unconfirmed
      /\ \A k \in Job \ W : job'[k] = job[k]
      /\ \A b \in Batch \ B : batch'[b] = batch[b]
      /\ \A k \in W : job'[k].st = job[k].st /\ job'[k].stamp = clock + 1 /\ Free(JobRow(k))
  BY <1>1, <1>3
<1>8. \A b \in B : FALSE
  OBVIOUS
<1> HIDE DEF W, B
<1>9. Stored'
  <2>1. \A k \in W, b \in Unconfirmed : batch[b].item[k].stamp # job'[k].stamp
    <3> SUFFICES ASSUME NEW k \in W, NEW b \in Unconfirmed PROVE batch[b].item[k].stamp # clock + 1
      BY <1>7
    <3>1. k \in Job /\ b \in Batch
      BY <1>7, Zenon DEF Unconfirmed
    <3>2. batch[b].item[k].stamp <= clock /\ batch[b].item[k].stamp \in Nat
      BY <3>1 DEF Stored, Shown, Rows, Item, Stamp
    <3>3. QED
      BY <1>2, <3>2
  <2>2. \A k \in W : job[k].st # "new" => job'[k].st # "new"
    BY <1>7
  <2>3. QED
    BY <1>2, <1>7, <1>8, <2>1, <2>2, StoredAfterWrite, ZenonT(40)
<1>10. ASSUME NEW s \in Request, Holds(s), Knows(s), NEW q \in Proc, s = proc[q] PROVE Knows(s)'
  <2>1. UNCHANGED <<views, keyOn>>
    BY <1>1
  <2>2. Updating(s) => s.u \in 1 .. clock
    BY <1>10, Zenon DEF Knows, OwnTime
  <2>3. Previewing(s) => \A k \in Job : s.item[k].stamp <= clock /\ s.item[k].stamp \in Nat
    <3>1. Previewing(s) => s \in Previews
      BY Phases, Zenon DEF Previewing
    <3>2. QED
      BY <1>10, <3>1 DEF Knows, ItemsShown, Shown, Previews, Item, Stamp
  <2>4. \A k \in W : /\ JobRow(k) \notin s.held \/ ~There(k)
                     /\ job[k].st # "new" => job'[k].st # "new"
                     /\ job[k].st = "gone" => job'[k].st = "gone"
                     /\ Updating(s) => job'[k].stamp # s.u
                     /\ Previewing(s) => s.item[k].stamp # job'[k].stamp
    <3> SUFFICES ASSUME NEW k \in W
                 PROVE  /\ JobRow(k) \notin s.held
                        /\ Updating(s) => clock + 1 # s.u
                        /\ Previewing(s) => s.item[k].stamp # clock + 1
      BY <1>7
    <3>1. JobRow(k) \notin s.held
      BY <1>7, <1>10 DEF Free
    <3>2. Updating(s) => clock + 1 # s.u
      BY <1>2, <2>2
    <3>3. Previewing(s) => s.item[k].stamp # clock + 1
      BY <1>2, <1>7, <2>3
    <3>4. QED
      BY <3>1, <3>2, <3>3, Zenon
  <2>5. QED
    BY <1>2, <1>7, <1>8, <1>10, <2>1, <2>4, KnowsAfterWrite, Zenon
<1>11. Requests'
  BY <1>1, <1>10, StatementStep DEF Requests
<1>12. QED
  BY <1>4, <1>5, <1>6, <1>9, <1>11, Zenon

\* An edit commits: both rows, under their locks (UpdateJobAggregate).
LEMMA CommitEditStep ==
    ASSUME JobIInv, NEW p \in Proc, UpdateJobAggregate(p)
    PROVE  JobIInv'
<1> USE DEF JobIInv
<1> DEFINE j == proc[p].j
           u == proc[p].u
<1>1. /\ proc[p].pc = "u_commit" /\ End(p)
      /\ job' = [job EXCEPT ![j].name = proc[p].name, ![j].stamp = u, ![j].by = u]
      /\ sched' = [sched EXCEPT ![j] = [cron |-> proc[p].cron, by |-> u]]
      /\ UNCHANGED <<runs, clock, fleet, batch, views, keyOn>>
      /\ proc[p] \in Request /\ Holds(proc[p]) /\ Knows(proc[p])
  BY Zenon DEF UpdateJobAggregate, At, Requests
<1>2. /\ proc[p] \in Updates /\ j \in Job /\ u \in Stamp /\ proc[p].name \in Stamp
      /\ proc[p].cron \in Stamp /\ Updating(proc[p])
  BY <1>1, Phases, Zenon DEF Updates, Updating
<1>3. u \in 1 .. clock /\ \A b \in Unconfirmed, k \in Job : batch[b].item[k].stamp # u
  BY <1>1, <1>2, Zenon DEF Knows, OwnTime
<1>4. clock \in Nat /\ clock' = clock /\ clock' \in Nat /\ clock <= clock'
  BY <1>1, ControlAssumption, SMTT(30) DEF Rows, Stamp
<1>5. JobRow(j) \in proc[p].held
  BY <1>1, Zenon DEF Holds
<1> HIDE DEF j, u
<1>6. /\ \A k \in Job \ {j} : job'[k] = job[k] /\ sched'[k] = sched[k]
      /\ job'[j].st = job[j].st /\ job'[j].stamp = u /\ job'[j].on = job[j].on
      /\ job'[j].by = u /\ sched'[j].by = u
      /\ job' \in [Job -> [st : {"new", "there", "gone"}, on : BOOLEAN, name : Stamp,
                           stamp : Stamp, by : Stamp]]
      /\ sched' \in [Job -> [cron : Stamp, by : Stamp]]
  <2> DEFINE n == proc[p].name
  <2>1. job' = [job EXCEPT ![j].name = n, ![j].stamp = u, ![j].by = u] /\ n \in Stamp
    BY <1>1, <1>2
  <2> HIDE DEF n
  <2> DEFINE row == [job[j] EXCEPT !.name = n, !.stamp = u, !.by = u]
             Row == [st : {"new", "there", "gone"}, on : BOOLEAN, name : Stamp, stamp : Stamp,
                     by : Stamp]
  <2>2. job \in [Job -> Row]
    BY DEF Rows
  <2>3. /\ row \in Row
        /\ row.st = job[j].st /\ row.stamp = u /\ row.on = job[j].on /\ row.by = u
    <3>1. job[j] \in Row
      BY <1>2, <2>2
    <3>2. QED
      BY <1>2, <2>1, <3>1, Zenon
  <2>4. job' = [job EXCEPT ![j] = row]
    BY <1>2, <2>1, <2>2, ZenonT(40)
  <2> HIDE DEF row, Row
  <2>5. \A k \in Job \ {j} : job'[k] = job[k]
    BY <2>2, <2>4
  <2>6. job'[j] = row /\ job' \in [Job -> Row]
    BY <1>2, <2>2, <2>3, <2>4, Zenon
  <2>7. /\ \A k \in Job \ {j} : job'[k] = job[k]
        /\ job'[j].st = job[j].st /\ job'[j].stamp = u /\ job'[j].on = job[j].on /\ job'[j].by = u
        /\ job' \in [Job -> [st : {"new", "there", "gone"}, on : BOOLEAN, name : Stamp,
                             stamp : Stamp, by : Stamp]]
    BY <2>3, <2>5, <2>6, Zenon DEF Row
  <2>8. /\ \A k \in Job \ {j} : sched'[k] = sched[k]
        /\ sched'[j].by = u /\ sched' \in [Job -> [cron : Stamp, by : Stamp]]
    BY <1>1, <1>2, Zenon DEF Rows
  <2>9. QED
    BY <2>7, <2>8
<1>7. Rows'
  <2>1. \A k \in Job : job[k].stamp <= clock'
    BY <1>4 DEF Rows
  <2>2. \A k \in Job : job'[k].stamp = job[k].stamp \/ job'[k].stamp = u
    BY <1>6
  <2>3. u <= clock'
    BY <1>3, <1>4
  <2>4. \A k \in Job : job'[k].stamp <= clock'
    BY <2>1, <2>2, <2>3, Zenon
  <2>5. QED
    BY <1>1, <1>4, <1>6, <2>4, Zenon DEF Rows
<1>8. Whole'
  <2>1. \A k \in Job : job'[k].on = fleet'[k] /\ job'[k].by = sched'[k].by
    BY <1>1, <1>2, <1>6 DEF Whole
  <2>2. \A k \in runs' : There(k)'
    BY <1>1, <1>2, <1>6 DEF Whole, Rows, There
  <2>3. QED
    BY <2>1, <2>2, Zenon DEF Whole
<1>9. QuotasKept'
  BY <1>1, Zenon DEF QuotasKept, Unconfirmed
<1> DEFINE W == {j}
           B == {}
<1>10. /\ W \in SUBSET Job /\ B \in SUBSET Unconfirmed
       /\ \A k \in Job \ W : job'[k] = job[k]
       /\ \A b \in Batch \ B : batch'[b] = batch[b]
  BY <1>1, <1>2, <1>6, Zenon
<1>11. \A k \in W : k = j /\ job'[k].st = job[k].st /\ job'[k].stamp = u
  BY <1>6
<1>12. \A b \in B : FALSE
  OBVIOUS
<1> HIDE DEF W, B
<1>13. Stored'
  <2>1. /\ \A k \in W : job[k].st # "new" => job'[k].st # "new"
        /\ \A k \in W, b \in Unconfirmed : \/ job'[k].stamp = job[k].stamp /\ job'[k].on = job[k].on
                                           \/ batch[b].item[k].stamp # job'[k].stamp
    BY <1>2, <1>3, <1>11, Zenon
  <2>2. \A b \in B : batch'[b].st = "confirmed"
    BY <1>12
  <2>3. Rows /\ Stored
    OBVIOUS
  <2>4. QED
    BY <1>4, <1>10, <2>1, <2>2, <2>3, StoredAfterWrite, Zenon
<1>14. ASSUME NEW q \in Proc \ {p}, NEW s \in Request, s = proc[q] PROVE Knows(s)'
  <2>1. UNCHANGED <<views, keyOn>> /\ Holds(s) /\ Knows(s)
    BY <1>1, <1>14 DEF Requests
  <2>2. Apart(proc[p], s) /\ Apart(s, proc[p])
    BY <1>14 DEF Requests
  <2>3. \A k \in W : /\ JobRow(k) \notin s.held \/ ~There(k)
                     /\ job[k].st # "new" => job'[k].st # "new"
                     /\ job[k].st = "gone" => job'[k].st = "gone"
                     /\ Updating(s) => job'[k].stamp # s.u
                     /\ \/ job'[k].stamp = job[k].stamp /\ job'[k].on = job[k].on
                        \/ Previewing(s) => s.item[k].stamp # job'[k].stamp
    <3>1. JobRow(j) \notin s.held
      BY <1>2, <1>5, <2>2, LockNames, Zenon DEF Apart
    <3>2. Updating(s) => s.u # u
      BY <1>2, <2>2, Zenon DEF Apart, u
    <3>3. Previewing(s) => s.item[j].stamp # u
      BY <1>2, <2>2 DEF Apart, u
    <3>4. QED
      BY <1>11, <3>1, <3>2, <3>3, Zenon
  <2>4. \A b \in B : batch'[b].st = "confirmed" /\ BatchRow(b) \notin s.held
    BY <1>12
  <2>5. QED
    BY <1>4, <1>10, <2>1, <2>3, <2>4, KnowsAfterWrite, Zenon
<1>15. Requests'
  BY <1>1, <1>14, CommitStep
<1>16. QED
  BY <1>7, <1>8, <1>9, <1>13, <1>15, Zenon

\* A deletion ends: the job goes with its executions, or the statement fails.
LEMMA CommitDeleteStep ==
    ASSUME JobIInv, NEW p \in Proc, DeleteEnds(p)
    PROVE  JobIInv'
<1> USE DEF JobIInv
<1> DEFINE j == proc[p].j
<1>1. /\ proc[p].pc = "d_end" /\ End(p) /\ UNCHANGED <<sched, clock, fleet, batch, views, keyOn>>
      /\ proc[p] \in Request /\ Holds(proc[p])
  BY DEF DeleteEnds, At, Requests
<1>2. CASE UNCHANGED <<job, runs>>
  BY <1>1, <1>2, EndStep, Zenon DEF data
<1>3. CASE job' = [job EXCEPT ![j].st = "gone"] /\ runs' = runs \ {j}
  <2>1. j \in Job /\ JobRow(j) \in proc[p].held
    BY <1>1, Phases DEF Deletes, Holds
  <2> HIDE DEF j
  <2>2. /\ \A k \in Job \ {j} : job'[k] = job[k]
        /\ job'[j].st = "gone" /\ job'[j].stamp = job[j].stamp /\ job'[j].on = job[j].on
        /\ job'[j].by = job[j].by
        /\ job' \in [Job -> [st : {"new", "there", "gone"}, on : BOOLEAN, name : Stamp,
                             stamp : Stamp, by : Stamp]]
    BY <1>3, <2>1 DEF Rows
  <2>3. clock \in Nat /\ clock' = clock /\ clock' \in Nat /\ clock <= clock'
    BY <1>1, ControlAssumption DEF Rows, Stamp
  <2>4. Rows'
    <3>1. \A k \in Job : job'[k].stamp <= clock'
      BY <2>1, <2>2, <2>3, Zenon DEF Rows
    <3>2. runs' \subseteq Job
      BY <1>3, Zenon DEF Rows
    <3>3. QED
      BY <1>1, <2>2, <3>1, <3>2 DEF Rows
  <2>5. Whole'
    <3>1. \A k \in Job : job'[k].on = fleet'[k] /\ job'[k].by = sched'[k].by
      BY <1>1, <2>1, <2>2 DEF Whole
    <3>2. \A k \in runs' : There(k)'
      BY <1>3, <2>2, Zenon DEF Whole, Rows, There
    <3>3. QED
      BY <3>1, <3>2 DEF Whole
  <2>6. QuotasKept'
    BY <1>1, Zenon DEF QuotasKept, Unconfirmed
  <2> DEFINE W == {j}
             B == {}
  <2>7. /\ W \in SUBSET Job /\ B \in SUBSET Unconfirmed
        /\ \A k \in Job \ W : job'[k] = job[k]
        /\ \A b \in Batch \ B : batch'[b] = batch[b]
    BY <1>1, <2>1, <2>2, Zenon
  <2>8. \A k \in W : k = j /\ job'[k].st = "gone" /\ job'[k].stamp = job[k].stamp /\ job'[k].on = job[k].on
    BY <2>2
  <2>9. \A b \in B : FALSE
    OBVIOUS
  <2> HIDE DEF W, B
  <2>10. Stored'
    <3>1. /\ \A k \in W : job[k].st # "new" => job'[k].st # "new"
          /\ \A k \in W, b \in Unconfirmed : job'[k].stamp = job[k].stamp /\ job'[k].on = job[k].on
      BY <2>8, Zenon
    <3>2. QED
      BY <2>3, <2>7, <2>9, <3>1, StoredAfterWrite, Zenon
  <2>11. ASSUME NEW q \in Proc \ {p}, NEW s \in Request, s = proc[q] PROVE Knows(s)'
    <3>1. UNCHANGED <<views, keyOn>> /\ Holds(s) /\ Knows(s)
      BY <1>1, <2>11 DEF Requests
    <3>2. JobRow(j) \notin s.held
      BY <2>1, <2>11, LockNames, Zenon DEF Requests, Apart
    <3>3. Updating(s) => job[j].stamp # s.u
      BY <2>1, <3>1, Zenon DEF Knows, OwnTime
    <3>4. \A k \in W : /\ JobRow(k) \notin s.held \/ ~There(k)
                       /\ job[k].st # "new" => job'[k].st # "new"
                       /\ job[k].st = "gone" => job'[k].st = "gone"
                       /\ Updating(s) => job'[k].stamp # s.u
                       /\ job'[k].stamp = job[k].stamp /\ job'[k].on = job[k].on
      BY <2>8, <3>2, <3>3, Zenon
    <3>5. QED
      BY <2>3, <2>7, <2>9, <3>1, <3>4, KnowsAfterWrite, Zenon
  <2>12. Requests'
    BY <1>1, <2>11, CommitStep, Zenon
  <2>13. QED
    BY <2>4, <2>5, <2>6, <2>10, <2>12
<1>4. QED
  BY <1>2, <1>3 DEF DeleteEnds

\* What no request relies on may change: the executions of jobs.
LEMMA KnowsSame ==
    ASSUME NEW s, Knows(s), UNCHANGED <<job, batch, views, keyOn, clock>>
    PROVE  Knows(s)'
<1>1. Unconfirmed' = Unconfirmed /\ Expired' = Expired
  BY DEF Unconfirmed, Expired
<1>2. KeyKept(s)' /\ RoomForView(s)' /\ RoomForBatch(s)' /\ OwnTime(s)'
  BY <1>1 DEF Knows, KeyKept, RoomForView, RoomForBatch, OwnTime
<1>3. ItemsShown(s)'
  BY Zenon DEF Knows, ItemsShown, Shown
<1>4. BatchFound(s)'
  BY <1>1, Zenon DEF Knows, BatchFound, Judged, There
<1>5. QED
  BY <1>2, <1>3, <1>4, Zenon DEF Knows

\* A run is inserted while its job is there (TriggerNow).
LEMMA InsertStep ==
    ASSUME JobIInv, NEW p \in Proc, InsertExecution(p)
    PROVE  JobIInv'
<1> USE DEF JobIInv
<1> DEFINE j == proc[p].j
<1>1. /\ proc[p].pc = "t_insert" /\ End(p) /\ runs' = IF There(j) THEN runs \cup {j} ELSE runs
      /\ UNCHANGED <<job, sched, clock, fleet, batch, views, keyOn>> /\ proc[p] \in Request
  BY Zenon DEF InsertExecution, At, Requests
<1>2. j \in Job
  BY <1>1, Phases, Zenon DEF Triggers
<1> HIDE DEF j
<1>3. Rows'
  BY <1>1, <1>2 DEF Rows
<1>4. Whole'
  BY <1>1, Zenon DEF Whole, There
<1>5. QuotasKept' /\ Stored'
  BY <1>1, Zenon DEF QuotasKept, Stored, Shown, Unconfirmed
<1>6. Requests'
  BY <1>1, KnowsSame, CommitStep, Zenon DEF Requests
<1>7. QED
  BY <1>3, <1>4, <1>5, <1>6

\* Views and the key change: a request that is about to save has room still.
LEMMA ViewWrite ==
    ASSUME JobIInv, NEW s, Knows(s), UNCHANGED <<job, batch, clock>>,
           KeyShare \in s.held => keyOn',
           s.pc = "v_commit" => s.v \in views' \/ Cardinality(views') < MaxViews
    PROVE  Knows(s)'
<1>1. Unconfirmed' = Unconfirmed /\ Expired' = Expired
  BY Zenon DEF Unconfirmed, Expired
<1>2. KeyKept(s)' /\ RoomForView(s)' /\ RoomForBatch(s)' /\ OwnTime(s)'
  BY <1>1 DEF Knows, KeyKept, RoomForView, RoomForBatch, OwnTime
<1>3. ItemsShown(s)'
  BY Zenon DEF Knows, ItemsShown, Shown
<1>4. BatchFound(s)'
  BY <1>1, Zenon DEF Knows, BatchFound, Judged, There
<1>5. QED
  BY <1>2, <1>3, <1>4, Zenon DEF Knows

\* A view is saved, under the lock its quota was counted under (SaveView), ...
LEMMA CommitViewStep ==
    ASSUME JobIInv, NEW p \in Proc, CommitView(p)
    PROVE  JobIInv'
<1> USE ControlAssumption DEF JobIInv
<1> DEFINE v == proc[p].v
<1>1. /\ proc[p].pc = "v_commit" /\ End(p) /\ views' = views \cup {v}
      /\ UNCHANGED <<job, sched, runs, clock, fleet, batch, keyOn>> /\ proc[p] \in Request
      /\ Holds(proc[p]) /\ Knows(proc[p])
  BY Zenon DEF CommitView, At, Requests, data
<1>2. v \in Views /\ ViewQuota \in proc[p].held /\ (v \in views \/ Cardinality(views) < MaxViews)
  BY <1>1, Phases, Zenon DEF Saves, Holds, Knows, RoomForView
<1> HIDE DEF v
<1>3. Rows' /\ Whole' /\ Stored'
  BY <1>1, <1>2 DEF Rows, Whole, Stored, Shown, Unconfirmed, There
<1>4. QuotasKept'
  <2>1. Cardinality(views') <= MaxViews
    <3>1. /\ IsFiniteSet(views) /\ Cardinality(views) \in Nat
          /\ Cardinality(views) <= MaxViews
      BY Finite DEF QuotasKept
    <3>2. CASE v \in views
      <4>1. views' = views
        BY <1>1, <3>2, Zenon
      <4>2. QED
        BY <3>1, <4>1, Zenon
    <3>3. CASE v \notin views
      <4>1. Cardinality(views') = Cardinality(views) + 1
        BY <1>1, <3>1, <3>3, FS_AddElement, Zenon
      <4>2. QED
        BY <1>2, <3>1, <3>3, <4>1
    <3>4. QED
      BY <3>2, <3>3, Zenon
  <2>2. QED
    BY <1>1, <2>1 DEF QuotasKept, Unconfirmed
<1>5. ASSUME NEW q \in Proc \ {p}, NEW s \in Request, s = proc[q] PROVE Knows(s)'
  <2>1. Holds(s) /\ Knows(s) /\ Apart(proc[p], s)
    BY <1>5, Zenon DEF Requests
  <2>2. s.pc # "v_commit"
    BY <1>2, <2>1, LockNames, Zenon DEF Holds, Apart
  <2>3. KeyShare \in s.held => keyOn'
    BY <1>1, <2>1, Zenon DEF Knows, KeyKept
  <2>4. UNCHANGED <<job, batch, clock>>
    BY <1>1, Zenon
  <2>5. QED
    BY <2>1, <2>2, <2>3, <2>4, ViewWrite, Zenon
<1>6. Requests'
  BY <1>1, <1>5, CommitStep, Zenon
<1>7. QED
  BY <1>3, <1>4, <1>6

\* ... one is deleted, or the key with all of them.
LEMMA DeleteViewsStep ==
    ASSUME JobIInv, DeleteKey \/ \E v \in Views : DeleteView(v)
    PROVE  JobIInv'
<1> USE ControlAssumption DEF JobIInv
<1>1. UNCHANGED <<job, sched, runs, clock, fleet, batch, proc>> /\ views' \subseteq views
  BY DEF DeleteKey, DeleteView, data
<1>2. keyOn' \in BOOLEAN
  BY ZenonT(40) DEF DeleteKey, DeleteView, Rows
<1>3. Rows' /\ Whole' /\ Stored'
  BY <1>1, <1>2 DEF Rows, Whole, Stored, Shown, Unconfirmed, There
<1>4. /\ IsFiniteSet(views) /\ Cardinality(views) \in Nat /\ Cardinality(views) <= MaxViews
      /\ IsFiniteSet(views') /\ Cardinality(views') \in Nat
      /\ Cardinality(views') <= Cardinality(views)
  <2>1. IsFiniteSet(views) /\ Cardinality(views) \in Nat /\ Cardinality(views) <= MaxViews
    BY Finite, Zenon DEF QuotasKept
  <2>2. QED
    BY <1>1, <2>1, FS_Subset, FS_CardinalityType, Zenon
<1>5. QuotasKept'
  BY <1>1, <1>4 DEF QuotasKept, Unconfirmed
<1>6. ASSUME NEW q \in Proc, NEW s \in Request, s = proc[q] PROVE Knows(s)'
  <2>1. Knows(s) /\ UNCHANGED <<job, batch, clock>>
    BY <1>1, <1>6, Zenon DEF Requests
  <2>2. KeyShare \in s.held => keyOn'
    BY <1>6, <2>1, Zenon DEF DeleteKey, DeleteView, Free, Knows, KeyKept
  <2>3. s.pc = "v_commit" => s.v \in views' \/ Cardinality(views') < MaxViews
    <3>1. CASE DeleteKey
      <4>1. Cardinality(views') = 0
        BY <3>1, FS_EmptySet, Zenon DEF DeleteKey
      <4>2. QED
        BY <4>1
    <3>2. ASSUME NEW v \in Views, DeleteView(v), s.pc = "v_commit"
          PROVE  s.v \in views' \/ Cardinality(views') < MaxViews
      <4>1. v \in views /\ views' = views \ {v}
        BY <3>2, Zenon DEF DeleteView
      <4>2. Cardinality(views') = Cardinality(views) - 1
        BY <1>4, <4>1, FS_RemoveElement, Zenon
      <4>3. QED
        BY <1>4, <4>2
    <3>3. QED
      BY <3>1, <3>2
  <2>4. QED
    BY <2>1, <2>2, <2>3, ViewWrite, Zenon
<1>7. Requests'
  BY <1>1, <1>6, StatementStep, Zenon
<1>8. QED
  BY <1>3, <1>5, <1>7, Zenon

\* A preview grows old.
LEMMA ExpireStep ==
    ASSUME JobIInv, NEW b \in Batch, Expire(b)
    PROVE  JobIInv'
<1> USE DEF JobIInv
<1>1. /\ batch[b].st = "pending" /\ batch' = [batch EXCEPT ![b].st = "expired"]
      /\ UNCHANGED <<job, sched, runs, clock, fleet, views, keyOn, proc>>
  BY DEF Expire, data
<1>2. /\ \A c \in Batch : /\ batch'[c].item = batch[c].item /\ batch'[c].want = batch[c].want
                          /\ batch'[c].st = IF c = b THEN "expired" ELSE batch[c].st
      /\ batch' \in [Batch -> [st : {"none", "pending", "expired", "confirmed", "purged"},
                               want : BOOLEAN, item : [Job -> Item]]]
  <2> DEFINE I == [Job -> Item]
  <2>1. batch \in [Batch -> [st : {"none", "pending", "expired", "confirmed", "purged"},
                             want : BOOLEAN, item : I]]
    BY DEF Rows
  <2> HIDE DEF I
  <2>2. /\ \A c \in Batch : /\ batch'[c].item = batch[c].item /\ batch'[c].want = batch[c].want
                            /\ batch'[c].st = IF c = b THEN "expired" ELSE batch[c].st
        /\ batch' \in [Batch -> [st : {"none", "pending", "expired", "confirmed", "purged"},
                                 want : BOOLEAN, item : I]]
    BY <1>1, <2>1
  <2>3. QED
    BY <2>2 DEF I
<1>3. Unconfirmed' = Unconfirmed /\ Expired \subseteq Expired' /\ Unconfirmed \subseteq Batch
  BY <1>1, <1>2 DEF Unconfirmed, Expired
<1>4. Rows' /\ Whole' /\ QuotasKept'
  BY <1>1, <1>2, <1>3, Zenon DEF Rows, Whole, QuotasKept, There
<1>5. Stored'
  BY <1>1, <1>2, <1>3 DEF Stored, Shown
<1>6. ASSUME NEW s \in Request, Knows(s) PROVE Knows(s)'
  <2>1. KeyKept(s)' /\ RoomForView(s)' /\ OwnTime(s)' /\ ItemsShown(s)'
    BY <1>1, <1>2, <1>3, <1>6 DEF Knows, KeyKept, RoomForView, OwnTime, ItemsShown, Shown
  <2>2. RoomForBatch(s)'
    <3>1. \A c \in Batch : batch[c].st = "none" => batch'[c].st = "none"
      BY <1>1, <1>2, Zenon
    <3>2. QED
      BY <1>3, <1>6, <3>1, Zenon DEF Knows, RoomForBatch
  <2>3. BatchFound(s)'
    <3>1. s.pc \in {"c_batch", "c_item"} => s.b \in Batch
      BY Phases DEF Confirms
    <3>2. ASSUME s.pc = "c_item", NEW k \in Job, Judged(s, k) PROVE Judged(s, k)'
      BY <1>1, <1>2, <3>1, <3>2, ZenonT(40) DEF Judged, There
    <3>3. QED
      BY <1>2, <1>3, <1>6, <3>1, <3>2, Zenon DEF Knows, BatchFound
  <2>4. QED
    BY <2>1, <2>2, <2>3, Zenon DEF Knows
<1>7. Requests'
  BY <1>1, <1>6, StatementStep DEF Requests
<1>8. QED
  BY <1>4, <1>5, <1>7

\* A preview is stored in place of those it removes, under the lock its quota
\* was counted under (PreviewBulk).
LEMMA CommitPreviewStep ==
    ASSUME JobIInv, NEW p \in Proc, CommitPreview(p)
    PROVE  JobIInv'
<1> USE ControlAssumption DEF JobIInv
<1> DEFINE purge == proc[p].purge
           item == proc[p].item
           want == proc[p].want
           n == NextBatch
           Kept == Unconfirmed \ purge
<1>1. /\ proc[p].pc = "p_read" /\ End(p)
      /\ batch' = [b \in Batch |-> IF b \in purge THEN [NoBatch EXCEPT !.st = "purged"]
                                   ELSE IF b = n THEN [st |-> "pending", want |-> want, item |-> item]
                                   ELSE batch[b]]
      /\ UNCHANGED <<job, sched, runs, clock, fleet, views, keyOn>>
      /\ proc[p] \in Request /\ Holds(proc[p]) /\ Knows(proc[p])
  BY Zenon DEF CommitPreview, At, Requests, data
<1>2. /\ proc[p] \in Previews /\ purge \subseteq Batch /\ item \in [Job -> Item] /\ want \in BOOLEAN
      /\ proc[p].held = {KeyShare, BatchQuota} \cup {BatchRow(b) : b \in purge}
  BY <1>1, Phases, Zenon DEF Previews, Holds
<1>3. /\ purge \subseteq Expired /\ Cardinality(Kept) < MaxPending
      /\ \E b \in Batch : batch[b].st = "none"
      /\ \A j \in Job : Shown(item[j], j) /\ item[j].res = "none"
  BY <1>1, Zenon DEF Knows, RoomForBatch, ItemsShown, Previewing
<1>4. n \in Batch /\ batch[n].st = "none"
  <2> DEFINE S == {b \in Batch : batch[b].st = "none"}
  <2>1. S \in SUBSET Nat /\ S # {} /\ n = Min(S)
    BY <1>3 DEF Batch, NextBatch
  <2>2. n \in S
    <3> HIDE DEF S, n
    <3>1. QED
      BY <2>1, MinOf
  <2>3. QED
    BY <2>2, Zenon
<1> HIDE DEF purge, item, want, n, Kept
<1>5. /\ \A b \in Batch : /\ b \in purge => batch'[b].st = "purged"
                          /\ b \notin purge /\ b # n => batch'[b] = batch[b]
      /\ batch'[n] = [st |-> "pending", want |-> want, item |-> item]
      /\ n \notin purge /\ n \notin Unconfirmed /\ purge \subseteq Unconfirmed
  <2>1. n \notin purge /\ n \notin Unconfirmed /\ purge \subseteq Unconfirmed
    BY <1>3, <1>4 DEF Expired, Unconfirmed
  <2>2. \A b \in Batch : b \in purge => batch'[b] = [NoBatch EXCEPT !.st = "purged"]
    BY <1>1
  <2>3. [NoBatch EXCEPT !.st = "purged"].st = "purged"
    BY Zenon DEF NoBatch
  <2>4. QED
    BY <1>1, <1>4, <2>1, <2>2, <2>3, Zenon
<1>6. Unconfirmed' = Kept \cup {n} /\ Kept \subseteq Batch /\ n \notin Kept
  BY <1>4, <1>5 DEF Unconfirmed, Kept
<1>7. batch' \in [Batch -> [st : {"none", "pending", "expired", "confirmed", "purged"},
                            want : BOOLEAN, item : [Job -> Item]]]
  <2> DEFINE T == [st : {"none", "pending", "expired", "confirmed", "purged"}, want : BOOLEAN,
                   item : [Job -> Item]]
  <2>1. [NoBatch EXCEPT !.st = "purged"] \in T
    <3>1. NoItem \in Item
      BY DEF NoItem, Item, Stamp, Result
    <3>2. NoBatch \in T
      BY <3>1, Zenon DEF NoBatch
    <3>3. QED
      BY <3>2, Zenon
  <2>2. [st |-> "pending", want |-> want, item |-> item] \in T
    BY <1>2 DEF want, item
  <2>3. batch \in [Batch -> T]
    BY DEF Rows
  <2> HIDE DEF T
  <2>4. batch' \in [Batch -> T]
    BY <1>1, <2>1, <2>2, <2>3, Zenon
  <2>5. QED
    BY <2>4 DEF T
<1>8. Rows' /\ Whole'
  BY <1>1, <1>7, Zenon DEF Rows, Whole, There
<1>9. QuotasKept'
  <2>1. IsFiniteSet(Kept) /\ Cardinality(Kept) \in Nat
    BY <1>6, Finite
  <2>2. Cardinality(Unconfirmed') = Cardinality(Kept) + 1
    BY <1>6, <2>1, FS_AddElement, ZenonT(40)
  <2>3. QED
    BY <1>1, <1>3, <2>1, <2>2 DEF QuotasKept
<1>10. Stored'
  <2> SUFFICES ASSUME NEW b \in Unconfirmed', NEW j \in Job
               PROVE  Shown(batch[b].item[j], j)' /\ batch'[b].item[j].res = "none"
    BY Zenon DEF Stored
  <2>1. CASE b = n
    <3>1. batch'[b].item = item
      BY <1>5, <2>1
    <3>2. QED
      BY <1>1, <1>3, <3>1, Zenon DEF Shown
  <2>2. CASE b # n
    <3>1. b \in Unconfirmed /\ batch'[b] = batch[b]
      BY <1>5, <1>6, <2>2 DEF Kept
    <3>2. QED
      BY <1>1, <3>1, ZenonT(40) DEF Stored, Shown
  <2>3. QED
    BY <2>1, <2>2, Zenon
<1>11. ASSUME NEW q \in Proc \ {p}, NEW s \in Request, s = proc[q] PROVE Knows(s)'
  <2>1. Holds(s) /\ Knows(s) /\ Apart(proc[p], s) /\ Apart(s, proc[p])
    BY <1>11, Zenon DEF Requests
  <2>2. KeyKept(s)' /\ RoomForView(s)' /\ ItemsShown(s)'
    BY <1>1, <2>1, Zenon DEF Knows, KeyKept, RoomForView, ItemsShown, Shown
  <2>3. OwnTime(s)'
    <3>1. Updating(s) => \A j \in Job : item[j].stamp # s.u
      BY <1>1, <2>1, Zenon DEF Apart, Previewing, item
    <3>2. \A b \in Unconfirmed' : b = n \/ (b \in Unconfirmed /\ batch'[b] = batch[b])
      BY <1>5, <1>6, Zenon DEF Kept
    <3>3. batch'[n].item = item
      BY <1>5
    <3>4. Updating(s) => \A b \in Unconfirmed', j \in Job : batch'[b].item[j].stamp # s.u
      BY <2>1, <3>1, <3>2, <3>3, Zenon DEF Knows, OwnTime
    <3>5. QED
      BY <1>1, <2>1, <3>4, Zenon DEF Knows, OwnTime
  <2>4. RoomForBatch(s)'
    <3>1. s.pc # "p_read"
      BY <1>2, <2>1, LockNames, Zenon DEF Holds, Apart
    <3>2. QED
      BY <3>1, Zenon DEF RoomForBatch
  <2>5. BatchFound(s)'
    <3>1. s.pc \in {"c_batch", "c_item"} => s.b \in Batch
      BY Phases, Zenon DEF Confirms
    <3>2. s.pc = "c_batch" => batch'[s.b].st # "none"
      <4>1. \A b \in Batch : batch[b].st # "none" => batch'[b].st # "none"
        BY <1>4, <1>5, Zenon
      <4>2. QED
        BY <2>1, <3>1, <4>1, Zenon DEF Knows, BatchFound
    <3>3. ASSUME s.pc = "c_item" PROVE s.b \in Unconfirmed' /\ \A k \in Job : Judged(s, k)'
      <4>1. s.b \in Unconfirmed /\ BatchRow(s.b) \in s.held /\ \A k \in Job : Judged(s, k)
        BY <2>1, <3>3, Zenon DEF Holds, Knows, BatchFound
      <4>2. s.b \notin purge
        <5>1. s.b \in Batch /\ BatchRow(s.b) # KeyShare
          BY <3>1, <3>3, LockNames, Zenon
        <5>2. s.b \in purge => BatchRow(s.b) \in proc[p].held
          BY <1>2, <5>1, Zenon
        <5>3. BatchRow(s.b) \notin proc[p].held
          BY <2>1, <4>1, <5>1, Zenon DEF Apart
        <5>4. QED
          BY <5>2, <5>3, Zenon
      <4>3. s.b \in Unconfirmed' /\ batch'[s.b] = batch[s.b]
        BY <1>5, <1>6, <3>1, <3>3, <4>1, <4>2, Zenon DEF Kept
      <4>4. job' = job /\ batch'[s.b] = batch[s.b]
        BY <1>1, <4>3
      <4>5. ASSUME NEW k \in Job PROVE Judged(s, k)'
        <5>1. Judged(s, k)
          BY <4>1
        <5>2. QED
          BY <4>4, <5>1, Zenon DEF Judged, There
      <4>6. QED
        BY <4>3, <4>5
    <3>4. QED
      BY <3>2, <3>3 DEF BatchFound
  <2>6. QED
    BY <2>2, <2>3, <2>4, <2>5 DEF Knows
<1>12. Requests'
  BY <1>1, <1>11, CommitStep, Zenon
<1>13. QED
  BY <1>8, <1>9, <1>10, <1>12, Zenon

\* A confirmation commits its record and the jobs it changes (ConfirmBulk).
LEMMA CommitConfirmStep ==
    ASSUME JobIInv, NEW p \in Proc, CommitConfirm(p)
    PROVE  JobIInv'
<1> USE ControlAssumption DEF JobIInv
<1> DEFINE c == proc[p].b
           item == proc[p].item
           want == batch[c].want
           done == {j \in Job : item[j].res = "applied"}
<1>1. /\ proc[p].pc = "c_item" /\ End(p) /\ clock < MaxClock
      /\ batch' = [batch EXCEPT ![c].st = "confirmed", ![c].item = item]
      /\ clock' = IF done = {} THEN clock ELSE clock + 1
      /\ job' = [j \in Job |-> IF j \in done THEN [job[j] EXCEPT !.on = want, !.stamp = clock + 1]
                                             ELSE job[j]]
      /\ fleet' = [j \in Job |-> IF j \in done THEN want ELSE fleet[j]]
      /\ UNCHANGED <<sched, runs, views, keyOn>>
      /\ proc[p] \in Request /\ Holds(proc[p]) /\ Knows(proc[p])
  BY ZenonT(40) DEF CommitConfirm, At, Requests
<1>2. /\ proc[p] \in Confirms /\ c \in Batch /\ item \in [Job -> Item] /\ want \in BOOLEAN
      /\ BatchRow(c) \in proc[p].held /\ c \in Unconfirmed
  BY <1>1, Phases, ZenonT(40) DEF Confirms, Rows, Holds, Knows, BatchFound
<1>3. \A j \in done : j \in Job /\ There(j) /\ JobRow(j) \in proc[p].held
  BY <1>1, Zenon DEF Knows, BatchFound, Judged
<1>4. clock \in Nat /\ clock' \in Nat /\ clock <= clock' /\ clock + 1 \in Stamp /\ clock' \in Stamp
  <2>1. clock \in Stamp /\ clock < MaxClock
    BY <1>1, ZenonT(40) DEF Rows
  <2>2. clock' = clock \/ clock' = clock + 1
    BY <1>1, Zenon
  <2>3. QED
    BY <2>1, <2>2 DEF Stamp
<1> HIDE DEF c, item, want, done
<1>5. /\ \A b \in Batch \ {c} : batch'[b] = batch[b]
      /\ batch'[c].st = "confirmed"
      /\ batch' \in [Batch -> [st : {"none", "pending", "expired", "confirmed", "purged"},
                               want : BOOLEAN, item : [Job -> Item]]]
  <2> DEFINE I == [Job -> Item]
             T == [st : {"none", "pending", "expired", "confirmed", "purged"}, want : BOOLEAN,
                   item : I]
             row == [batch[c] EXCEPT !.st = "confirmed", !.item = item]
  <2>1. batch \in [Batch -> T] /\ item \in I
    BY <1>2 DEF Rows
  <2> HIDE DEF I
  <2>2. row \in T /\ row.st = "confirmed"
    <3>1. batch[c] \in T
      BY <1>2, <2>1
    <3>2. QED
      BY <2>1, <3>1, Zenon
  <2>3. batch' = [batch EXCEPT ![c] = row]
    BY <1>1, <1>2, <2>1, Zenon
  <2> HIDE DEF T, row
  <2>4. batch' \in [Batch -> T] /\ batch'[c] = row /\ \A b \in Batch \ {c} : batch'[b] = batch[b]
    BY <1>2, <2>1, <2>2, <2>3, Zenon
  <2>5. QED
    BY <2>2, <2>4, Zenon DEF T, I
<1>6. /\ \A k \in Job \ done : job'[k] = job[k]
      /\ \A k \in done : /\ job'[k].st = job[k].st /\ job'[k].stamp = clock + 1 /\ job'[k].on = want
                         /\ job'[k].by = job[k].by
      /\ job' \in [Job -> [st : {"new", "there", "gone"}, on : BOOLEAN, name : Stamp,
                           stamp : Stamp, by : Stamp]]
  <2> DEFINE Row == [st : {"new", "there", "gone"}, on : BOOLEAN, name : Stamp, stamp : Stamp, by : Stamp]
  <2>1. job \in [Job -> Row]
    BY DEF Rows
  <2>2. \A k \in Job : LET row == [job[k] EXCEPT !.on = want, !.stamp = clock + 1] IN
           /\ row \in Row /\ row.st = job[k].st /\ row.stamp = clock + 1 /\ row.on = want
           /\ row.by = job[k].by
    BY <1>2, <1>4, <2>1, ZenonT(40)
  <2>3. \A k \in done : k \in Job /\ job'[k] = [job[k] EXCEPT !.on = want, !.stamp = clock + 1]
    BY <1>1, <1>3, Zenon
  <2>4. \A k \in Job \ done : job'[k] = job[k]
    BY <1>1, Zenon
  <2>5. \A k \in done : /\ job'[k].st = job[k].st /\ job'[k].stamp = clock + 1 /\ job'[k].on = want
                        /\ job'[k].by = job[k].by /\ job'[k] \in Row
    <3> SUFFICES ASSUME NEW k \in done
                 PROVE  /\ job'[k].st = job[k].st /\ job'[k].stamp = clock + 1 /\ job'[k].on = want
                        /\ job'[k].by = job[k].by /\ job'[k] \in Row
      OBVIOUS
    <3> DEFINE row == [job[k] EXCEPT !.on = want, !.stamp = clock + 1]
    <3>1. k \in Job /\ job'[k] = row
      BY <2>3, ZenonT(40)
    <3>2. /\ row \in Row /\ row.st = job[k].st /\ row.stamp = clock + 1 /\ row.on = want
          /\ row.by = job[k].by
      BY <2>2, <3>1, ZenonT(40)
    <3> HIDE DEF row, Row
    <3>3. QED
      BY <3>1, <3>2, Zenon
  <2> HIDE DEF Row
  <2>6. job' \in [Job -> Row]
    <3>1. \A k \in Job : job'[k] \in Row
      BY <2>1, <2>4, <2>5, Zenon
    <3>2. QED
      BY <1>1, <3>1, Zenon
  <2>7. QED
    BY <2>4, <2>5, <2>6, Zenon DEF Row
<1>7. Rows'
  <2>1. \A k \in Job : job'[k].stamp <= clock'
    <3>1. CASE done = {}
      BY <1>1, <1>6, <3>1, Zenon DEF Rows
    <3>2. CASE done # {}
      <4>1. clock' = clock + 1
        BY <1>1, <3>2, Zenon
      <4>2. \A k \in Job : job[k].stamp \in Nat /\ job[k].stamp <= clock
        BY DEF Rows, Stamp
      <4>3. QED
        BY <1>4, <1>6, <4>1, <4>2
    <3>3. QED
      BY <3>1, <3>2, Zenon
  <2>2. fleet' \in [Job -> BOOLEAN]
    BY <1>1, <1>2, Zenon DEF Rows
  <2>3. QED
    BY <1>1, <1>4, <1>5, <1>6, <2>1, <2>2, ZenonT(40) DEF Rows
<1>8. Whole'
  <2>1. \A k \in Job : job'[k].on = fleet'[k] /\ job'[k].by = sched'[k].by
    BY <1>1, <1>6, ZenonT(40) DEF Whole
  <2>2. \A k \in runs' : There(k)'
    BY <1>1, <1>6, ZenonT(40) DEF Whole, Rows, There
  <2>3. QED
    BY <2>1, <2>2 DEF Whole
<1> DEFINE B == {c}
<1>9. /\ done \in SUBSET Job /\ B \in SUBSET Unconfirmed
      /\ \A b \in Batch \ B : batch'[b] = batch[b]
      /\ \A b \in B : b = c /\ batch'[b].st = "confirmed"
  BY <1>2, <1>3, <1>5, Zenon
<1> HIDE DEF B
<1>10. QuotasKept'
  <2>1. Unconfirmed' \subseteq Unconfirmed
    BY <1>9 DEF Unconfirmed
  <2>2. IsFiniteSet(Unconfirmed) /\ Cardinality(Unconfirmed) \in Nat
    BY Finite, Zenon
  <2>3. Cardinality(Unconfirmed') <= Cardinality(Unconfirmed) /\ Cardinality(Unconfirmed') \in Nat
    BY <2>1, <2>2, FS_Subset, FS_CardinalityType, Zenon
  <2>4. views' = views /\ Cardinality(Unconfirmed) <= MaxPending /\ Cardinality(views) <= MaxViews
    BY <1>1, Zenon DEF QuotasKept
  <2>5. Cardinality(Unconfirmed') <= MaxPending /\ Cardinality(views') <= MaxViews
    BY <2>2, <2>3, <2>4
  <2>6. QED
    BY <2>5, Zenon DEF QuotasKept
<1>11. Stored'
  <2>1. \A k \in done, b \in Unconfirmed : batch[b].item[k].stamp # job'[k].stamp
    <3> SUFFICES ASSUME NEW k \in done, NEW b \in Unconfirmed PROVE batch[b].item[k].stamp # clock + 1
      BY <1>6
    <3>1. k \in Job /\ b \in Batch
      BY <1>3, Zenon DEF Unconfirmed
    <3>2. batch[b].item[k].stamp <= clock /\ batch[b].item[k].stamp \in Nat
      BY <3>1 DEF Stored, Shown, Rows, Item, Stamp
    <3>3. QED
      BY <1>4, <3>2
  <2>2. \A k \in done : job[k].st # "new" => job'[k].st # "new"
    BY <1>6
  <2>3. QED
    BY <1>4, <1>6, <1>9, <2>1, <2>2, StoredAfterWrite, ZenonT(40)
<1>12. ASSUME NEW q \in Proc \ {p}, NEW s \in Request, s = proc[q] PROVE Knows(s)'
  <2>1. UNCHANGED <<views, keyOn>> /\ Holds(s) /\ Knows(s) /\ Apart(proc[p], s)
    BY <1>1, <1>12, Zenon DEF Requests
  <2>2. Updating(s) => s.u \in 1 .. clock
    BY <2>1, Zenon DEF Knows, OwnTime
  <2>3. Previewing(s) => \A k \in Job : s.item[k].stamp <= clock /\ s.item[k].stamp \in Nat
    <3>1. Previewing(s) => s \in Previews
      BY Phases DEF Previewing
    <3>2. QED
      BY <2>1, <3>1 DEF Knows, ItemsShown, Shown, Previews, Item, Stamp
  <2>4. \A k \in done : /\ JobRow(k) \notin s.held \/ ~There(k)
                        /\ job[k].st # "new" => job'[k].st # "new"
                        /\ job[k].st = "gone" => job'[k].st = "gone"
                        /\ Updating(s) => job'[k].stamp # s.u
                        /\ Previewing(s) => s.item[k].stamp # job'[k].stamp
    <3> SUFFICES ASSUME NEW k \in done
                 PROVE  /\ JobRow(k) \notin s.held
                        /\ Updating(s) => clock + 1 # s.u
                        /\ Previewing(s) => s.item[k].stamp # clock + 1
      BY <1>6, Zenon
    <3>1. JobRow(k) \notin s.held
      BY <1>3, <2>1, LockNames, Zenon DEF Apart
    <3>2. Updating(s) => clock + 1 # s.u
      BY <1>4, <2>2
    <3>3. Previewing(s) => s.item[k].stamp # clock + 1
      <4>1. k \in Job
        BY <1>3, Zenon
      <4>2. Previewing(s) => s.item[k].stamp <= clock /\ s.item[k].stamp \in Nat
        BY <2>3, <4>1, Zenon
      <4>3. QED
        BY <1>4, <4>2
    <3>4. QED
      BY <3>1, <3>2, <3>3, Zenon
  <2>5. \A b \in B : batch'[b].st = "confirmed" /\ BatchRow(b) \notin s.held
    <3>1. BatchRow(c) \in proc[p].held /\ BatchRow(c) # KeyShare
      BY <1>2, LockNames, Zenon
    <3>2. BatchRow(c) \notin s.held
      BY <2>1, <3>1, Zenon DEF Apart
    <3>3. QED
      BY <1>9, <3>2, Zenon
  <2>6. QED
    BY <1>4, <1>6, <1>9, <2>1, <2>4, <2>5, KnowsAfterWrite, ZenonT(40)
<1>13. Requests'
  BY <1>1, <1>12, CommitStep, Zenon
<1>14. QED
  BY <1>7, <1>8, <1>10, <1>11, <1>13, Zenon

\* The steps of an edit before its first write (UpdateJob's callers).
LEMMA EditBegins ==
    ASSUME JobIInv, NEW p \in Proc,
           EditJob(p) \/ \E j \in Job : RestUpdate(p, j) \/ ToolUpdate(p, j)
    PROVE  JobIInv'
<1>1. clock < MaxClock => clock + 1 \in Stamp
  BY ControlAssumption DEF JobIInv, Rows, Stamp
<1>2. CASE EditJob(p)
  <2>1. proc[p].pc = "form" /\ proc[p] \in Request
    BY <1>2, Zenon DEF EditJob, JobIInv, Requests
  <2>2. proc[p] \in Forms
    BY <2>1, Phases, Zenon
  <2>3. PICK edited \in SUBSET Field :
           UpdateJob(p, proc[p].j, Field,
                     [f \in Field |-> IF f \in edited THEN clock + 1 ELSE proc[p].shown[f]])
    BY <1>2, Zenon DEF EditJob
  <2>4. clock + 1 \in Stamp
    BY <1>1, <2>3, Zenon DEF UpdateJob
  <2>5. QED
    <3>1. PICK j \in Job : j = proc[p].j
      BY <2>2, Zenon DEF Forms
    <3>2. PICK value : value = [f \in Field |-> IF f \in edited THEN clock + 1 ELSE proc[p].shown[f]]
      BY Zenon
    <3>3. proc[p].shown \in [Field -> Stamp]
      BY <2>2, Zenon DEF Forms
    <3>4. value \in [Field -> Stamp]
      BY <2>4, <3>2, <3>3, Zenon
    <3>5. UpdateJob(p, j, Field, value)
      BY <2>3, <3>1, <3>2, Zenon
    <3>6. QED
      BY <3>4, <3>5, UpdateBegins
<1>3. CASE \E j \in Job : RestUpdate(p, j) \/ ToolUpdate(p, j)
  <2>1. PICK j \in Job : RestUpdate(p, j) \/ ToolUpdate(p, j)
    BY <1>3
  <2>2. \E given : UpdateJob(p, j, given, [f \in Field |-> clock + 1])
    BY <2>1, Zenon DEF RestUpdate, ToolUpdate
  <2>3. PICK given, value : value = [f \in Field |-> clock + 1] /\ UpdateJob(p, j, given, value)
    BY <2>2, Zenon
  <2>4. value \in [Field -> Stamp]
    BY <1>1, <2>3, Zenon DEF UpdateJob
  <2>5. QED
    BY <2>3, <2>4, UpdateBegins
<1>4. QED
  BY <1>2, <1>3

\* Every step of the system keeps the invariant.
LEMMA JobStep ==
    ASSUME JobIInv, [Next]_vars
    PROVE  JobIInv'
<1>1. CASE UNCHANGED vars
  <2>1. UNCHANGED <<job, sched, runs, batch, views, keyOn, proc, clock, fleet>>
    BY <1>1, Zenon DEF vars
  <2>2. Rows' /\ Whole' /\ QuotasKept' /\ Stored'
    BY <2>1 DEF JobIInv, Rows, Whole, QuotasKept, Stored, There, Shown, Unconfirmed
  <2>3. ASSUME NEW q \in Proc, NEW s \in Request, s = proc[q] PROVE Knows(s)'
    BY <2>1, <2>3, KnowsSame, Zenon DEF JobIInv, Requests
  <2>4. QED
    BY <2>1, <2>2, <2>3, StatementStep, Zenon DEF JobIInv
<1>2. ASSUME NEW p \in Proc, Bulk(p) PROVE JobIInv'
  <2>1. CASE RequestPreview(p) \/ \E b \in Batch : ConfirmBulk(p, b)
    BY <2>1, ActorStep
  <2>2. CASE LockBatches(p)
    BY <2>2, QuotaStep
  <2>3. CASE CleanBatches(p)
    BY <2>3, CleanStep
  <2>4. CASE PreviewItem(p)
    BY <2>4, PreviewStep, Zenon
  <2>5. CASE CommitPreview(p)
    BY <2>5, CommitPreviewStep
  <2>6. CASE LockBatch(p)
    BY <2>6, LockBatchStep
  <2>7. CASE ConfirmItem(p) \/ ItemFails(p)
    BY <2>7, ItemStep, Zenon
  <2>8. CASE CommitConfirm(p)
    BY <2>8, CommitConfirmStep
  <2>9. QED
    BY <1>2, <2>1, <2>2, <2>3, <2>4, <2>5, <2>6, <2>7, <2>8, Zenon DEF Bulk
<1>3. ASSUME NEW p \in Proc, ViewsOf(p) PROVE JobIInv'
  <2>1. CASE RequestSaveView(p)
    BY <2>1, ActorStep
  <2>2. CASE LockViews(p)
    BY <2>2, QuotaStep, Zenon
  <2>3. CASE CountViews(p)
    BY <2>3, CountViewsStep
  <2>4. CASE CommitView(p)
    BY <2>4, CommitViewStep
  <2>5. QED
    BY <1>3, <2>1, <2>2, <2>3, <2>4, Zenon DEF ViewsOf
<1>4. ASSUME NEW p \in Proc, JobsOf(p) PROVE JobIInv'
  <2>1. CASE EditJob(p) \/ \E j \in Job : RestUpdate(p, j) \/ ToolUpdate(p, j)
    BY <2>1, EditBegins, Zenon
  <2>2. CASE \E j \in Job : EditPage(p, j) \/ DeleteJob(p, j) \/ TriggerNow(p, j)
    BY <2>2, BeginStep
  <2>3. CASE EditGone(p)
    BY <2>3, EndStep, Zenon DEF EditGone
  <2>4. CASE UpdateSchedule(p) \/ UpdateJobRow(p)
    BY <2>4, EditStep
  <2>5. CASE UpdateJobAggregate(p)
    BY <2>5, CommitEditStep
  <2>6. CASE DeleteRow(p)
    BY <2>6, DeleteStep
  <2>7. CASE DeleteEnds(p)
    BY <2>7, CommitDeleteStep
  <2>8. CASE InsertExecution(p)
    BY <2>8, InsertStep
  <2>9. QED
    BY <1>4, <2>1, <2>2, <2>3, <2>4, <2>5, <2>6, <2>7, <2>8, Zenon DEF JobsOf
<1>5. ASSUME NEW p \in Proc, Abort(p) PROVE JobIInv'
  BY <1>5, EndStep, Zenon DEF Abort
<1>6. ASSUME Statements PROVE JobIInv'
  <2>1. CASE CreateJob
    BY <2>1, CreateStep DEF CreateJob
  <2>2. CASE \E j \in Job : PauseJob(j) \/ ResumeJob(j)
    BY <2>2, EnableStep, Zenon DEF PauseJob, ResumeJob
  <2>3. CASE DeleteKey \/ \E v \in Views : DeleteView(v)
    BY <2>3, DeleteViewsStep
  <2>4. CASE \E b \in Batch : Expire(b)
    BY <2>4, ExpireStep
  <2>5. QED
    BY <1>6, <2>1, <2>2, <2>3, <2>4, Zenon DEF Statements
<1>7. QED
  BY <1>1, <1>2, <1>3, <1>4, <1>5, <1>6, Zenon DEF Next

\* At the start nothing is locked, previewed or saved (Init).
LEMMA JobStart ==
    ASSUME Init
    PROVE  JobIInv
<1> USE ControlAssumption DEF Init
<1>1. NoItem \in Item /\ NoBatch \in [st : {"none", "pending", "expired", "confirmed", "purged"},
                                      want : BOOLEAN, item : [Job -> Item]]
  <2>1. NoItem \in Item
    BY DEF NoItem, Item, Stamp, Result
  <2>2. QED
    BY <2>1, Zenon DEF NoBatch
<1>2. 0 \in Stamp
  BY DEF Stamp
<1>3. PICK new \in SUBSET Job :
        job = [j \in Job |-> [st |-> IF j \in new THEN "new" ELSE "there",
                              on |-> TRUE, name |-> 0, stamp |-> 0, by |-> 0]]
  BY Zenon
<1>4. Rows
  <2>1. job \in [Job -> [st : {"new", "there", "gone"}, on : BOOLEAN, name : Stamp, stamp : Stamp,
                         by : Stamp]]
    BY <1>2, <1>3, Zenon
  <2>2. sched \in [Job -> [cron : Stamp, by : Stamp]] /\ fleet \in [Job -> BOOLEAN]
    BY <1>2, Zenon
  <2>3. batch \in [Batch -> [st : {"none", "pending", "expired", "confirmed", "purged"},
                             want : BOOLEAN, item : [Job -> Item]]]
    BY <1>1, Zenon
  <2>4. \A j \in Job : job[j].stamp = 0
    BY <1>3
  <2>5. QED
    BY <1>2, <2>1, <2>2, <2>3, <2>4 DEF Rows
<1>5. Whole
  BY <1>3, Zenon DEF Whole
<1>6. Unconfirmed = {}
  BY Zenon DEF Unconfirmed, NoBatch
<1>7. QuotasKept /\ Stored
  BY <1>6, FS_EmptySet DEF QuotasKept, Stored
<1>8. Idle \in Request /\ Idle.held = {} /\ Idle.pc = "idle"
  BY Zenon DEF Idle, Request
<1>9. Requests
  BY <1>8, LightRequest DEF Requests
<1>10. QED
  BY <1>4, <1>5, <1>7, <1>9, Zenon DEF JobIInv

\* Jobs, batches, views and requests stay in step whatever the requests do and
\* in whatever order (JobControl's Next): the invariant the theorems rest on.
THEOREM JobInvariance == Spec => []JobIInv
<1>1. Init => JobIInv
  BY JobStart
<1>2. JobIInv /\ [Next]_vars => JobIInv'
  BY JobStep
<1>3. QED
  BY <1>1, <1>2, PTL DEF Spec

\* The rows of a job fit together (JobIsWhole): its state is the last one given to
\* it on purpose, its schedule comes from the same edit, no execution outlives it.
THEOREM WholeJobs == Spec => []JobIsWhole
<1>1. JobIInv => JobIsWhole
  BY DEF JobIInv, Whole, JobIsWhole
<1>2. QED
  BY <1>1, JobInvariance, PTL

\* The quotas of saved views and of pending previews hold (SaveView, PreviewBulk).
THEOREM QuotasHold == Spec => []QuotasKept
<1>1. JobIInv => QuotasKept
  BY DEF JobIInv
<1>2. QED
  BY <1>1, JobInvariance, PTL

\* Rows have their types and a lock other than the key's share one holder (TypeOK).
THEOREM JobTypes == Spec => []TypeOK
<1>1. ASSUME JobIInv PROVE TypeOK
  <2>1. \A p \in Proc : proc[p].pc \in {"idle", "form"} => proc[p].held = {}
    BY <1>1, Zenon DEF JobIInv, Requests, Holds
  <2>2. \A p, q \in Proc : p # q => proc[p].held \cap proc[q].held \subseteq {KeyShare}
    BY <1>1, Zenon DEF JobIInv, Requests, Apart
  <2>3. QED
    BY <1>1, <2>1, <2>2, Zenon DEF JobIInv, Rows, TypeOK
<1>2. QED
  BY <1>1, JobInvariance, PTL

\* What a step may write: batches change when a preview is stored, expires or is
\* confirmed, and views are added only when one is saved.
LEMMA Writes ==
    ASSUME [Next]_vars
    PROVE  /\ \/ batch' = batch
              \/ \E p \in Proc : CommitPreview(p) \/ CommitConfirm(p)
              \/ \E b \in Batch : Expire(b)
           /\ views' \subseteq views \/ \E p \in Proc : CommitView(p)
<1> DEFINE Goal == /\ \/ batch' = batch
                      \/ \E p \in Proc : CommitPreview(p) \/ CommitConfirm(p)
                      \/ \E b \in Batch : Expire(b)
                   /\ views' \subseteq views \/ \E p \in Proc : CommitView(p)
<1>1. CASE UNCHANGED vars
  BY <1>1, Zenon DEF vars
<1>2. ASSUME NEW p \in Proc, Bulk(p) PROVE Goal
  <2>1. CASE CommitPreview(p) \/ CommitConfirm(p)
    BY <2>1, Zenon DEF CommitPreview, CommitConfirm
  <2>2. CASE RequestPreview(p) \/ \E b \in Batch : ConfirmBulk(p, b)
    BY <2>2, Zenon DEF RequestPreview, PreviewBulk, ConfirmBulk
  <2>3. CASE LockBatches(p) \/ CleanBatches(p) \/ PreviewItem(p)
    BY <2>3 DEF LockBatches, QuotaLock, CleanBatches, PreviewItem
  <2>4. CASE LockBatch(p) \/ ConfirmItem(p) \/ ItemFails(p)
    BY <2>4, Zenon DEF LockBatch, ConfirmItem, ItemFails
  <2>5. QED
    BY <1>2, <2>1, <2>2, <2>3, <2>4, Zenon DEF Bulk
<1>3. ASSUME NEW p \in Proc, ViewsOf(p) PROVE Goal
  <2>1. CASE CommitView(p)
    BY <2>1 DEF CommitView
  <2>2. CASE RequestSaveView(p) \/ LockViews(p) \/ CountViews(p)
    BY <2>2, Zenon DEF RequestSaveView, SaveView, LockViews, QuotaLock, CountViews
  <2>3. QED
    BY <1>3, <2>1, <2>2, Zenon DEF ViewsOf
<1>4. ASSUME NEW p \in Proc, JobsOf(p) PROVE Goal
  <2>1. UNCHANGED <<batch, views>>
    BY <1>4, Zenon DEF JobsOf, RestUpdate, ToolUpdate, EditPage, EditJob, EditGone, UpdateJob,
       UpdateSchedule, UpdateJobRow, UpdateJobAggregate, DeleteJob, TriggerNow, DeleteRow,
       DeleteEnds, InsertExecution
  <2>2. QED
    BY <2>1
<1>5. ASSUME NEW p \in Proc, Abort(p) PROVE Goal
  BY <1>5 DEF Abort
<1>6. ASSUME Statements PROVE Goal
  <2>1. CASE \E b \in Batch : Expire(b)
    BY <2>1, Zenon DEF Expire
  <2>2. CASE CreateJob \/ \E j \in Job : PauseJob(j) \/ ResumeJob(j)
    BY <2>2, Zenon DEF CreateJob, CreateJobAggregate, PauseJob, ResumeJob, SetJobEnabled
  <2>3. CASE DeleteKey \/ \E v \in Views : DeleteView(v)
    BY <2>3 DEF DeleteKey, DeleteView
  <2>4. QED
    BY <1>6, <2>1, <2>2, <2>3 DEF Statements
<1>7. QED
  BY <1>1, <1>2, <1>3, <1>4, <1>5, <1>6, Zenon DEF Next

\* A deleted key commits nothing (DeletedKeyIsInert): who commits a preview, a
\* confirmation or a view holds the key's share (authorizedActor).
THEOREM KeyIsInert == Spec => DeletedKeyIsInert
<1>1. ASSUME JobIInv, [Next]_vars, ~keyOn
      PROVE  /\ views' \subseteq views
             /\ \A b \in Batch : batch'[b].st = batch[b].st
                                   \/ (batch[b].st = "pending" /\ batch'[b].st = "expired")
  <2>1. ASSUME NEW p \in Proc, proc[p].pc \in {"p_read", "c_item", "v_commit"} PROVE FALSE
    <3>1. proc[p] \in Request /\ Holds(proc[p]) /\ Knows(proc[p])
      BY <1>1, Zenon DEF JobIInv, Requests
    <3>2. KeyShare \in proc[p].held
      BY <2>1, <3>1 DEF Holds
    <3>3. QED
      BY <1>1, <3>1, <3>2, Zenon DEF Knows, KeyKept
  <2>2. \A p \in Proc : ~CommitPreview(p) /\ ~CommitConfirm(p) /\ ~CommitView(p)
    BY <2>1, Zenon DEF CommitPreview, CommitConfirm, CommitView, At
  <2>3. views' \subseteq views /\ (batch' = batch \/ \E b \in Batch : Expire(b))
    BY <1>1, <2>2, Writes
  <2>4. ASSUME NEW c \in Batch, Expire(c)
        PROVE  \A b \in Batch : batch'[b].st = batch[b].st
                                  \/ (batch[b].st = "pending" /\ batch'[b].st = "expired")
    BY <1>1, <2>4, Zenon DEF Expire, JobIInv, Rows
  <2>5. QED
    BY <2>3, <2>4, Zenon
<1>2. JobIInv /\ [Next]_vars
        => [~keyOn => /\ views' \subseteq views
                      /\ \A b \in Batch : batch'[b].st = batch[b].st
                            \/ (batch[b].st = "pending" /\ batch'[b].st = "expired")]_vars
  BY <1>1
<1>3. QED
  BY <1>2, JobInvariance, PTL DEF DeletedKeyIsInert, Spec

\* The record of a confirmation is what happened, and it is kept (RecordIsTrue):
\* each job was compared behind its row lock, and a confirmed batch is neither
\* expired nor cleaned up nor confirmed again (ConfirmBulk, PreviewBulk).
THEOREM TrueRecord == Spec => RecordIsTrue
<1> DEFINE Told(b, j) ==
             LET i == batch'[b].item[j]
                 same == job[j].st = "there" /\ job[j].stamp = i.stamp IN
             /\ i.in = batch[b].item[j].in
             /\ i.res = "applied" => same /\ job'[j].on = batch[b].want /\ job[j].on # batch[b].want
             /\ i.res = "unchanged" => same /\ job[j].on = batch[b].want
             /\ i.res = "conflict" => job[j].st = "there" /\ ~same
             /\ i.res = "unavailable" => job[j].st = "gone"
             /\ i.in => i.res # "none"
           True ==
             /\ \A b \in Batch : (batch[b].st # "confirmed" /\ batch'[b].st = "confirmed") =>
                   \A j \in Job : Told(b, j)
             /\ \A b \in Batch : batch[b].st = "confirmed" => batch'[b] = batch[b]
<1>1. ASSUME JobIInv, [Next]_vars PROVE True
  <2>1. CASE batch' = batch
    BY <2>1, Zenon
  <2>2. ASSUME NEW c \in Batch, Expire(c) PROVE True
    <3>1. /\ batch[c].st = "pending" /\ batch'[c].st = "expired"
          /\ \A b \in Batch \ {c} : batch'[b] = batch[b]
      BY <1>1, <2>2, Zenon DEF Expire, JobIInv, Rows
    <3>2. QED
      BY <3>1
  <2>3. ASSUME NEW p \in Proc, CommitPreview(p) PROVE True
    <3>1. /\ proc[p].pc = "p_read" /\ proc[p].purge \subseteq Expired
          /\ \E b \in Batch : batch[b].st = "none"
      BY <1>1, <2>3, Zenon DEF CommitPreview, At, JobIInv, Requests, Knows, RoomForBatch
    <3>2. batch[NextBatch].st = "none"
      <4> DEFINE S == {b \in Batch : batch[b].st = "none"}
      <4>1. S \in SUBSET Nat /\ S # {} /\ NextBatch = Min(S)
        BY <3>1 DEF Batch, NextBatch
      <4>2. NextBatch \in S
        <5> HIDE DEF S
        <5>1. QED
          BY <4>1, MinOf
      <4>3. QED
        BY <4>2, Zenon
    <3>3. [NoBatch EXCEPT !.st = "purged"].st = "purged"
      BY DEF NoBatch
    <3>4. ASSUME NEW b \in Batch
          PROVE  batch'[b] = batch[b] \/ (batch[b].st # "confirmed" /\ batch'[b].st # "confirmed")
      <4>1. batch'[b] = IF b \in proc[p].purge THEN [NoBatch EXCEPT !.st = "purged"]
                        ELSE IF b = NextBatch
                        THEN [st |-> "pending", want |-> proc[p].want, item |-> proc[p].item]
                        ELSE batch[b]
        BY <2>3 DEF CommitPreview
      <4>2. b \in proc[p].purge => batch[b].st = "expired"
        BY <3>1, Zenon DEF Expired
      <4>3. QED
        BY <3>2, <3>3, <4>1, <4>2
    <3>5. QED
      BY <3>4
  <2>4. ASSUME NEW p \in Proc, CommitConfirm(p) PROVE True
    <3> DEFINE c == proc[p].b
    <3>1. /\ proc[p].pc = "c_item" /\ proc[p].todo = {} /\ proc[p] \in Request /\ Knows(proc[p])
          /\ batch' = [batch EXCEPT ![c].st = "confirmed", ![c].item = proc[p].item]
          /\ \A j \in Job : proc[p].item[j].res = "applied" =>
                job'[j] = [job[j] EXCEPT !.on = batch[c].want, !.stamp = clock + 1]
      BY <1>1, <2>4, ZenonT(40) DEF CommitConfirm, At, JobIInv, Requests
    <3>2. c \in Batch /\ c \in Unconfirmed /\ \A j \in Job : Judged(proc[p], j)
      BY <3>1, Phases, ZenonT(40) DEF Confirms, Knows, BatchFound
    <3>3. /\ \A b \in Batch \ {c} : batch'[b] = batch[b]
          /\ batch'[c].item = proc[p].item /\ batch[c].st # "confirmed"
      BY <1>1, <3>1, <3>2, ZenonT(40) DEF Unconfirmed, JobIInv, Rows
    <3>4. ASSUME NEW j \in Job PROVE Told(c, j)
      <4>1. proc[p].item[j].res = "applied" => job'[j].on = batch[c].want
        <5>1. "on" \in DOMAIN job[j]
          BY <1>1 DEF JobIInv, Rows
        <5>2. QED
          BY <3>1, <5>1, Zenon
      <4>2. Judged(proc[p], j) /\ j \notin proc[p].todo /\ batch'[c].item[j] = proc[p].item[j]
        BY <3>1, <3>2, <3>3, Zenon
      <4>3. QED
        BY <4>1, <4>2, ZenonT(40) DEF Judged, There
    <3> HIDE DEF c, Told
    <3>5. \A b \in Batch : (batch[b].st # "confirmed" /\ batch'[b].st = "confirmed") => b = c
      BY <3>3, Zenon
    <3>6. \A b \in Batch : batch[b].st = "confirmed" => batch'[b] = batch[b]
      BY <3>3, Zenon
    <3>7. QED
      BY <3>4, <3>5, <3>6, Zenon
  <2>5. QED
    BY <1>1, <2>1, <2>2, <2>3, <2>4, Writes, Zenon
<1>2. JobIInv /\ [Next]_vars => [True]_vars
  BY <1>1, Zenon
<1>3. QED
  BY <1>2, JobInvariance, PTL DEF RecordIsTrue, Spec

\* A request that waits while it holds locks waits for one of these.
Waiting(r, l) ==
    \/ r.pc = "u_job" /\ l = JobRow(r.j) /\ r.held \subseteq {SchedRow(r.j)}
    \/ r.pc = "d_second" /\ l = SchedRow(r.j) /\ r.held = {JobRow(r.j), JobId(r.j)}
    \/ r.pc = "d_second" /\ l = JobRow(r.j) /\ r.held = {SchedRow(r.j)}
    \/ l \in {ViewQuota, BatchQuota} /\ r.held = {KeyShare}
    \/ l \in {BatchRow(b) : b \in Batch} /\ r.held \subseteq {KeyShare, BatchQuota}
    \/ /\ r.pc = "c_item"
       /\ \E n \in Job : /\ l = JobRow(n)
                         /\ r.held \subseteq {KeyShare, BatchRow(r.b)}
                              \cup {JobRow(k) : k \in {k \in Job : k < n}}
                              \cup {JobId(k) : k \in {k \in Job : k < n}}

\* What a request waits for (Need) and what it holds then.
LEMMA WaitsFor ==
    ASSUME NEW r \in Request, Holds(r), NEW l \in Need(r), r.held # {}
    PROVE  Waiting(r, l)
<1>1. CASE r.pc = "u_job"
  BY <1>1 DEF Need, Holds, Waiting
<1>2. CASE r.pc = "d_second"
  BY <1>2 DEF Need, Holds, Waiting
<1>3. CASE r.pc \in {"v_lock", "p_lock"}
  BY <1>3 DEF Need, Holds, Waiting
<1>4. CASE r.pc = "p_clean"
  <2>1. r.purge \subseteq Batch
    BY <1>4, Phases DEF Previews
  <2>2. QED
    BY <1>4, <2>1 DEF Need, Holds, Waiting
<1>5. CASE r.pc = "c_batch"
  <2>1. r.b \in Batch
    BY <1>5, Phases, Zenon DEF Confirms
  <2>2. QED
    BY <1>5, <2>1 DEF Need, Holds, Waiting
<1>6. CASE r.pc = "c_item"
  <2>1. r.todo # {} /\ l = JobRow(Min(r.todo))
    BY <1>6 DEF Need, NextItem
  <2>2. r.todo \subseteq Job /\ r.todo \in SUBSET Nat
    BY <1>6, Phases DEF Confirms, Job
  <2>3. Min(r.todo) \in r.todo
    BY <2>1, <2>2, MinOf
  <2>4. Passed(r) \subseteq {k \in Job : k < Min(r.todo)}
    BY <2>3 DEF Passed
  <2>5. /\ {JobRow(k) : k \in Passed(r)} \subseteq {JobRow(k) : k \in {k \in Job : k < Min(r.todo)}}
        /\ {JobId(k) : k \in Passed(r)} \subseteq {JobId(k) : k \in {k \in Job : k < Min(r.todo)}}
    BY <2>4, Zenon
  <2>6. r.held \subseteq {KeyShare, BatchRow(r.b)} \cup {JobRow(k) : k \in Passed(r)}
                                                  \cup {JobId(k) : k \in Passed(r)}
    BY <1>6, Zenon DEF Holds
  <2>7. r.held \subseteq {KeyShare, BatchRow(r.b)}
                           \cup {JobRow(k) : k \in {k \in Job : k < Min(r.todo)}}
                           \cup {JobId(k) : k \in {k \in Job : k < Min(r.todo)}}
    BY <2>5, <2>6, Zenon
  <2>8. QED
    BY <1>6, <2>1, <2>2, <2>3, <2>7, Zenon DEF Waiting
<1>7. CASE r.pc \in {"idle", "form", "u_sched", "d_first", "t_insert"}
  BY <1>7 DEF Holds
<1>8. CASE r.pc \in {"u_commit", "d_end", "v_count", "v_commit", "p_read"}
  BY <1>8, Zenon DEF Need
<1>9. QED
  BY <1>1, <1>2, <1>3, <1>4, <1>5, <1>6, <1>7, <1>8, Phases, Zenon

\* Two requests wait for each other only when one deletes the job that the other
\* edits or deletes too (DeadlockOnlyOnDelete): confirmations lock jobs upwards.
THEOREM NoOtherDeadlock == Spec => []DeadlockOnlyOnDelete
<1>1. ASSUME JobIInv PROVE DeadlockOnlyOnDelete
  <2> SUFFICES ASSUME NEW p \in Proc, NEW q \in Proc, q \in BlockedBy(p), p \in BlockedBy(q)
               PROVE  /\ "d_second" \in {proc[p].pc, proc[q].pc}
                      /\ {proc[p].pc, proc[q].pc} \subseteq {"u_job", "d_second"}
                      /\ proc[p].j = proc[q].j
    BY DEF DeadlockOnlyOnDelete
  <2>1. PICK r \in Request, s \in Request : r = proc[p] /\ s = proc[q]
    BY <1>1 DEF JobIInv, Requests
  <2>2. Holds(r) /\ Holds(s)
    BY <1>1, <2>1, Zenon DEF JobIInv, Requests
  <2>3. PICK l \in Need(r), m \in Need(s) : l \in s.held /\ m \in r.held
    BY <2>1, Zenon DEF BlockedBy
  <2>4. Waiting(r, l) /\ Waiting(s, m)
    BY <2>2, <2>3, WaitsFor, Zenon
  <2>5. r.pc = "u_job" \/ r.pc = "d_second" => r.j \in Job
    BY Phases, Zenon DEF Updates, Deletes
  <2>6. s.pc = "u_job" \/ s.pc = "d_second" => s.j \in Job
    BY Phases DEF Updates, Deletes
  <2>7. (r.pc = "c_item" => r.b \in Batch) /\ (s.pc = "c_item" => s.b \in Batch)
    BY Phases, Zenon DEF Confirms
  <2>8. CASE r.pc = "u_job" /\ l = JobRow(r.j) /\ r.held \subseteq {SchedRow(r.j)}
    BY <2>1, <2>3, <2>4, <2>5, <2>6, <2>8, LockNames, Zenon DEF Waiting
  <2>9. CASE r.pc = "d_second" /\ l = SchedRow(r.j) /\ r.held = {JobRow(r.j), JobId(r.j)}
    <3>1. m \in {JobRow(r.j), JobId(r.j)} /\ SchedRow(r.j) \in s.held /\ r.j \in Job
      BY <2>3, <2>5, <2>9, Zenon
    <3>2. CASE s.pc = "u_job" /\ m = JobRow(s.j) /\ s.held \subseteq {SchedRow(s.j)}
      BY <2>1, <2>6, <2>9, <3>1, <3>2, LockNames, Zenon
    <3>3. CASE s.pc = "d_second" /\ m = SchedRow(s.j)
      BY <2>6, <3>1, <3>3, LockNames, Zenon
    <3>4. CASE s.pc = "d_second" /\ m = JobRow(s.j) /\ s.held = {SchedRow(s.j)}
      BY <2>1, <2>6, <2>9, <3>1, <3>4, LockNames, Zenon
    <3>5. CASE m \in {ViewQuota, BatchQuota} \/ m \in {BatchRow(b) : b \in Batch}
      BY <3>1, <3>5, LockNames, Zenon
    <3>6. CASE s.pc = "c_item" /\ \E n \in Job :
                 s.held \subseteq {KeyShare, BatchRow(s.b)}
                              \cup {JobRow(k) : k \in {k \in Job : k < n}}
                              \cup {JobId(k) : k \in {k \in Job : k < n}}
      <4>1. s.b \in Batch /\ SchedRow(r.j) \notin {KeyShare, BatchRow(s.b)}
        BY <2>7, <3>1, <3>6, LockNames, Zenon
      <4>2. \A k \in Job : SchedRow(r.j) # JobRow(k) /\ SchedRow(r.j) # JobId(k)
        BY <3>1, LockNames, Zenon
      <4>3. QED
        BY <3>1, <3>6, <4>1, <4>2, Zenon
    <3>7. QED
      BY <2>4, <3>2, <3>3, <3>4, <3>5, <3>6, Zenon DEF Waiting
  <2>10. CASE r.pc = "d_second" /\ l = JobRow(r.j) /\ r.held = {SchedRow(r.j)}
    BY <2>1, <2>3, <2>4, <2>5, <2>6, <2>10, LockNames, Zenon DEF Waiting
  <2>11. CASE l \in {ViewQuota, BatchQuota} /\ r.held = {KeyShare}
    BY <2>3, <2>4, <2>6, <2>11, LockNames, Zenon DEF Waiting
  <2>12. CASE l \in {BatchRow(b) : b \in Batch} /\ r.held \subseteq {KeyShare, BatchQuota}
    BY <2>3, <2>4, <2>6, <2>12, LockNames, Zenon DEF Waiting
  <2>13. ASSUME r.pc = "c_item", NEW n \in Job, l = JobRow(n),
                r.held \subseteq {KeyShare, BatchRow(r.b)}
                              \cup {JobRow(k) : k \in {k \in Job : k < n}}
                              \cup {JobId(k) : k \in {k \in Job : k < n}}
         PROVE  FALSE
    <3>1. m \in {KeyShare, BatchRow(r.b)} \/ \E k \in Job : k < n /\ m \in {JobRow(k), JobId(k)}
      BY <2>3, <2>13, Zenon
    <3>2. CASE s.pc \in {"u_job", "d_second"}
      BY <2>3, <2>4, <2>6, <2>7, <2>13, <3>1, <3>2, LockNames, Zenon DEF Waiting
    <3>3. CASE m \in {ViewQuota, BatchQuota} /\ s.held = {KeyShare}
      BY <2>3, <2>13, <3>3, LockNames, Zenon
    <3>4. CASE s.held \subseteq {KeyShare, BatchQuota}
      BY <2>3, <2>13, <3>4, LockNames, Zenon
    <3>5. ASSUME s.pc = "c_item", NEW i \in Job, m = JobRow(i),
                 s.held \subseteq {KeyShare, BatchRow(s.b)}
                              \cup {JobRow(k) : k \in {k \in Job : k < i}}
                              \cup {JobId(k) : k \in {k \in Job : k < i}}
          PROVE  FALSE
      <4>1. i < n
        BY <2>7, <2>13, <3>1, <3>5, LockNames, Zenon
      <4>2. n < i
        BY <2>3, <2>7, <2>13, <3>5, LockNames
      <4>3. i \in Nat /\ n \in Nat
        BY DEF Job
      <4>4. QED
        BY <4>1, <4>2, <4>3
    <3>6. QED
      BY <2>4, <3>2, <3>3, <3>4, <3>5, Zenon DEF Waiting
  <2>14. QED
    BY <2>4, <2>8, <2>9, <2>10, <2>11, <2>12, <2>13, Zenon DEF Waiting
<1>2. QED
  BY <1>1, JobInvariance, PTL
=============================================================================
