--------------------------- MODULE SessionProofs ----------------------------
(***************************************************************************)
(* Sessions, for any number of them.  The database sessions by which one   *)
(* instance holds the leader's lock; and the sessions of the admin UI,     *)
(* with the keys and the requests that open, use and end them.             *)
(***************************************************************************)
EXTENDS LeaderElection, AdminSessions, FiniteSetTheorems, TLAPS

\* A session belongs to one instance, as its dedicated connection or in its pool.
SessionsOwned ==
    /\ \A i, j \in Inst : conn[i] = conn[j] /\ conn[i] # NoSess => i = j
    /\ \A i, j \in Inst : conn[i] \notin pool[j]
    /\ \A i, j \in Inst : \A s \in pool[i] : s \in pool[j] => i = j

\* An instance between Connect and Discard has a connection.
Connected == \A i \in Inst : pc[i] \in Leading \cup {"querying"} => conn[i] \in Sess

\* What a session was told: "yes" while it lives means it holds the lock, and
\* only a session that was told "yes" does; a leader was told "yes".
Told ==
    /\ \A s \in Sess : s \in open /\ query[s] = "yes" => lock = s
    /\ lock # NoSess => query[lock] = "yes"
    /\ \A i \in Inst : pc[i] \in Leading => query[conn[i]] = "yes"
    /\ \A i \in Inst : \A s \in pool[i] : query[s] = "no"

\* Duties run only for an instance that has not given its session up, and only
\* as long as leaderRuntime says so; stop is called after electedDone.
DutiesHeld ==
    /\ \A i \in Inst : duties[i] # {} => running[i]
    /\ \A i \in Inst : running[i] \/ elected[i] => pc[i] \in Leading
    /\ \A i \in Inst : pc[i] = "stopping" => ~elected[i]

IInv == TypeOK /\ SessionsOwned /\ Connected /\ Told /\ DutiesHeld

-----------------------------------------------------------------------------
\* The initial state satisfies the inductive invariant.
LEMMA InitInv == Init => IInv
BY NoSessAssumption DEF Init, IInv, TypeOK, SessionsOwned, Connected, Told, DutiesHeld, Leading

\* The server's steps keep the inductive invariant.
LEMMA ServerInv ==
    ASSUME IInv, NEW s \in Sess, TryLock(s) \/ EndSession(s)
    PROVE  IInv'
<1> USE NoSessAssumption DEF IInv
<1>1. CASE TryLock(s)
  <2> USE <1>1 DEF TryLock, runtime
  <2>1. TypeOK'
    BY DEF TypeOK
  <2>2. SessionsOwned' /\ Connected' /\ DutiesHeld'
    BY DEF SessionsOwned, Connected, DutiesHeld
  <2>3. Told'
    BY DEF TypeOK, Told, Connected
  <2> QED
    BY <2>1, <2>2, <2>3
<1>2. CASE EndSession(s)
  <2> USE <1>2 DEF EndSession, runtime
  <2>1. TypeOK'
    BY DEF TypeOK
  <2>2. SessionsOwned' /\ Connected' /\ DutiesHeld'
    BY DEF SessionsOwned, Connected, DutiesHeld
  <2>3. Told'
    BY DEF TypeOK, Told
  <2> QED
    BY <2>1, <2>2, <2>3
<1> QED
  BY <1>1, <1>2

\* A query on a pooled or a new session keeps the inductive invariant.
LEMMA ConnectInv ==
    ASSUME IInv, NEW i \in Inst, NEW s \in Sess, Connect(i, s)
    PROVE  IInv'
<1> USE NoSessAssumption DEF IInv, Connect, runtime
<1>1. TypeOK'
  BY DEF TypeOK
<1>2. lock # s
  BY DEF TypeOK, Told
<1>3. \A j \in Inst : conn[j] # s
  BY DEF TypeOK, SessionsOwned, Known
<1>4. \A j \in Inst : j # i => s \notin pool[j]
  BY DEF TypeOK, SessionsOwned, Known
<1>5. SessionsOwned'
  BY <1>3, <1>4 DEF TypeOK, SessionsOwned
<1>6. Connected' /\ DutiesHeld'
  BY DEF TypeOK, Connected, DutiesHeld, Leading
<1>7. Told'
  <2>1. \A t \in Sess : t \in open' /\ query'[t] = "yes" => lock' = t
    BY <1>2 DEF TypeOK, Told
  <2>2. lock' # NoSess => query'[lock'] = "yes"
    BY <1>2 DEF TypeOK, Told
  <2>3. \A j \in Inst : pc'[j] \in Leading => query'[conn'[j]] = "yes"
    BY <1>3 DEF TypeOK, Told, Leading, Connected
  <2>4. \A j \in Inst : \A t \in pool'[j] : query'[t] = "no"
    BY <1>4 DEF TypeOK, Told
  <2> QED
    BY <2>1, <2>2, <2>3, <2>4 DEF Told
<1> QED
  BY <1>1, <1>5, <1>6, <1>7

\* The rest of an election keeps the inductive invariant.
LEMMA ElectInv ==
    ASSUME IInv, NEW i \in Inst, NotAcquired(i) \/ Acquired(i) \/ Start(i)
    PROVE  IInv'
<1> USE NoSessAssumption DEF IInv, server, runtime
<1>1. CASE NotAcquired(i)
  <2> USE <1>1 DEF NotAcquired
  <2>1. conn[i] \in Sess
    BY DEF Connected
  <2>2. TypeOK'
    BY <2>1 DEF TypeOK
  <2>3. SessionsOwned'
    BY <2>1 DEF TypeOK, SessionsOwned
  <2>4. Connected' /\ DutiesHeld'
    BY DEF TypeOK, Connected, DutiesHeld, Leading
  <2>5. Told'
    BY DEF TypeOK, Told, Leading
  <2> QED
    BY <2>2, <2>3, <2>4, <2>5
<1>2. CASE Acquired(i)
  <2> USE <1>2 DEF Acquired
  <2>1. TypeOK'
    BY DEF TypeOK, Leading
  <2>2. SessionsOwned' /\ Connected'
    BY DEF TypeOK, SessionsOwned, Connected, Leading
  <2>3. Told' /\ DutiesHeld'
    BY DEF TypeOK, Told, DutiesHeld, Leading
  <2> QED
    BY <2>1, <2>2, <2>3
<1>3. CASE Start(i)
  <2> USE <1>3 DEF Start
  <2>1. TypeOK'
    BY DEF TypeOK
  <2>2. SessionsOwned' /\ Connected' /\ Told'
    BY DEF SessionsOwned, Connected, Told
  <2>3. DutiesHeld'
    BY DEF TypeOK, DutiesHeld
  <2> QED
    BY <2>1, <2>2, <2>3
<1> QED
  BY <1>1, <1>2, <1>3

\* Giving a session up keeps what is known of the others.
LEMMA DiscardInv ==
    ASSUME IInv, NEW i \in Inst, Discard(i)
    PROVE  SessionsOwned' /\ Connected' /\ Told'
<1> USE NoSessAssumption DEF IInv, Discard, server
<1>1. SessionsOwned'
  BY DEF TypeOK, SessionsOwned
<1>2. Connected' /\ Told'
  BY DEF TypeOK, Connected, Told, Leading
<1> QED
  BY <1>1, <1>2

\* Demotion, a lost answer and a lost hold keep the inductive invariant.
LEMMA DemoteInv ==
    ASSUME IInv, NEW i \in Inst,
           \/ QueryFails(i) \/ DemoteIdle(i) \/ Stopped(i)
           \/ StopHolding(i) \/ Stop(i) \/ \E d \in Duty : DutyReturns(i, d)
    PROVE  IInv'
<1> USE DEF IInv
<1>1. CASE QueryFails(i) \/ DemoteIdle(i) \/ Stopped(i)
  <2> USE <1>1 DEF QueryFails, DemoteIdle, Stopped
  <2>1. Discard(i)
    OBVIOUS
  <2>2. TypeOK'
    BY Zenon DEF TypeOK, Discard, server, runtime
  <2>3. DutiesHeld'
    BY DEF TypeOK, DutiesHeld, Discard, server, runtime, Leading
  <2> QED
    BY <2>1, <2>2, <2>3, DiscardInv
<1>2. CASE StopHolding(i) \/ Stop(i)
  <2> USE <1>2 DEF StopHolding, Stop, server, runtime
  <2>1. TypeOK'
    BY DEF TypeOK, Leading
  <2>2. SessionsOwned' /\ Connected'
    BY DEF TypeOK, SessionsOwned, Connected, Leading
  <2>3. Told' /\ DutiesHeld'
    BY DEF TypeOK, Told, DutiesHeld, Leading
  <2> QED
    BY <2>1, <2>2, <2>3
<1>3. ASSUME NEW d \in Duty, DutyReturns(i, d)
      PROVE  IInv'
  <2> USE <1>3 DEF DutyReturns, server
  <2>1. TypeOK'
    BY DEF TypeOK
  <2>2. SessionsOwned' /\ Connected' /\ Told'
    BY DEF SessionsOwned, Connected, Told
  <2>3. DutiesHeld'
    BY DEF TypeOK, DutiesHeld
  <2> QED
    BY <2>1, <2>2, <2>3
<1> QED
  BY <1>1, <1>2, <1>3

\* So do the end of a process and its restart.
LEMMA ProcessInv ==
    ASSUME IInv, NEW i \in Inst, Exit(i) \/ Crash(i) \/ Halt(i) \/ Restart(i)
    PROVE  IInv'
<1> USE NoSessAssumption DEF IInv, server, runtime
<1>1. CASE EndProcess(i)
  <2> USE <1>1 DEF EndProcess
  <2>1. TypeOK'
    BY DEF TypeOK
  <2>2. SessionsOwned' /\ Connected'
    BY DEF TypeOK, SessionsOwned, Connected, Leading
  <2>3. Told' /\ DutiesHeld'
    BY DEF TypeOK, Told, DutiesHeld, Leading
  <2> QED
    BY <2>1, <2>2, <2>3
<1>2. CASE Halt(i)
  BY <1>2 DEF Halt, TypeOK, SessionsOwned, Connected, Told, DutiesHeld
<1>3. CASE Restart(i)
  <2> USE <1>3 DEF Restart
  <2>1. TypeOK'
    BY DEF TypeOK
  <2>2. SessionsOwned' /\ Connected'
    BY DEF TypeOK, SessionsOwned, Connected, Leading
  <2>3. Told' /\ DutiesHeld'
    BY DEF TypeOK, Told, DutiesHeld, Leading
  <2> QED
    BY <2>1, <2>2, <2>3
<1> QED
  BY <1>1, <1>2, <1>3 DEF Exit, Crash

\* Every step keeps the inductive invariant.
LEMMA NextInv == IInv /\ [Next]_vars => IInv'
<1> SUFFICES ASSUME IInv, [Next]_vars PROVE IInv'
  OBVIOUS
<1>1. CASE UNCHANGED vars
  BY <1>1 DEF vars, server, runtime, IInv, TypeOK, SessionsOwned, Connected, Told, DutiesHeld
<1>2. ASSUME NEW s \in Sess, TryLock(s) \/ EndSession(s)
      PROVE  IInv'
  BY <1>2, ServerInv
<1>3. ASSUME NEW i \in Inst,
             Elect(i) \/ Demote(i) \/ QueryFails(i) \/ StopHolding(i) \/ Halt(i) \/ Crash(i)
      PROVE  IInv'
  BY <1>3, ConnectInv, ElectInv, DemoteInv, ProcessInv DEF Elect, Demote
<1> QED
  BY <1>1, <1>2, <1>3 DEF Next

\* The inductive invariant holds in every reachable state.
THEOREM Invariance == Spec => []IInv
BY InitInv, NextInv, PTL DEF Spec

\* The election's state keeps its type; the lock is always held by a live
\* session or by none (pg_try_advisory_lock, session end).
THEOREM TypeCorrect == Spec => []TypeOK
<1>1. IInv => TypeOK
  BY DEF IInv
<1> QED
  BY <1>1, Invariance, PTL

\* For any number of instances and sessions, two instances run the leader's
\* duties at once only while the server has dropped the session of one of them
\* (runOnce gives its session up only after leaderRuntime.stop returned).
THEOREM LeadersExclusive == Spec => []OverlapOnlyAfterConnLoss
<1>1. IInv => OverlapOnlyAfterConnLoss
  <2> SUFFICES ASSUME IInv, NEW i \in Inst, NEW j \in Inst,
                      i # j, duties[i] # {}, duties[j] # {}, ~Dropped(i), ~Dropped(j)
               PROVE  FALSE
    BY DEF OverlapOnlyAfterConnLoss
  <2>1. pc[i] \in Leading /\ pc[j] \in Leading
    BY DEF IInv, DutiesHeld
  <2>2. conn[i] \in Sess /\ conn[j] \in Sess
    BY <2>1 DEF IInv, Connected
  <2>3. lock = conn[i] /\ lock = conn[j]
    BY <2>1, <2>2 DEF IInv, Told, Dropped
  <2> QED
    BY <2>2, <2>3, NoSessAssumption, Zenon DEF IInv, SessionsOwned
<1> QED
  BY <1>1, Invariance, PTL

\* For any number of instances and sessions, no pooled session ever holds the
\* advisory lock (discardSession in runOnce).
THEOREM PooledHoldNothing == Spec => []LockNeverPooled
<1>1. IInv => LockNeverPooled
  BY NoSessAssumption DEF IInv, TypeOK, Told, LockNeverPooled
<1> QED
  BY <1>1, Invariance, PTL

\* An instance starts its duties only when those of its last term are over
\* (leaderRuntime.start and stop).
THEOREM TermsAreSerialized == Spec => TermsSerialized
<1> DEFINE Serial == \A i \in Inst : duties[i] # {} =>
                        duties'[i] \subseteq duties[i] /\ (running'[i] => running[i])
<1>1. IInv /\ [Next]_vars => [Serial]_vars
  <2> SUFFICES ASSUME IInv, Next PROVE Serial
    OBVIOUS
  <2> USE DEF IInv, TypeOK, server, runtime
  <2>1. ASSUME NEW s \in Sess, TryLock(s) \/ EndSession(s)
        PROVE  Serial
    BY <2>1 DEF TryLock, EndSession
  <2>2. ASSUME NEW i \in Inst, Start(i)
        PROVE  Serial
    BY <2>2 DEF Start, DutiesHeld
  <2>3. ASSUME NEW i \in Inst, \E d \in Duty : DutyReturns(i, d)
        PROVE  Serial
    BY <2>3 DEF DutyReturns
  <2>4. ASSUME NEW i \in Inst, Exit(i) \/ Crash(i)
        PROVE  Serial
    BY <2>4 DEF Exit, Crash, EndProcess
  <2>5. ASSUME NEW i \in Inst,
               \/ (\E s \in Sess : Connect(i, s)) \/ NotAcquired(i) \/ Acquired(i)
               \/ DemoteIdle(i) \/ Stop(i) \/ Restart(i)
               \/ QueryFails(i) \/ StopHolding(i) \/ Halt(i)
        PROVE  duties' = duties /\ running' = running
    BY <2>5 DEF Connect, NotAcquired, Acquired, DemoteIdle, Stop, Restart,
                QueryFails, StopHolding, Halt, Discard
  <2>6. ASSUME NEW i \in Inst, Stopped(i)
        PROVE  Serial
    BY <2>6 DEF Stopped, Discard
  <2> QED
    BY <2>1, <2>2, <2>3, <2>4, <2>5, <2>6 DEF Next, Elect, Demote
<1> QED
  BY <1>1, Invariance, PTL DEF Spec, TermsSerialized

-----------------------------------------------------------------------------
(* The sessions of the admin UI.                                           *)

\* The rows of api_keys; of several first keys only one is ever stored.
KeysOK ==
    /\ kind \in [Keys -> {"api", "first", "identity"}]
    /\ state \in [Keys -> {"unused", "on", "off", "gone"}]
    /\ \A j, k \in Stored : kind[j] = "first" /\ kind[k] = "first" => j = k

\* A session row: it ends at its absolute limit, and what is left of it and the
\* time since it was last authenticated make half of the idle time, or it lasts
\* to that limit.
Lasts(row) ==
    \/ row = NoRow
    \/ /\ row \in [key : Keys, left : Int, limit : Int, age : Nat, idle : Nat]
       /\ -Slack <= row.left /\ row.left <= row.limit
       /\ row.limit + row.age = AbsoluteTTL
       /\ 2 * (row.left + row.idle) >= IdleTTL \/ row.left = row.limit

RowsOK ==
    /\ issued \in 0..MaxTokens /\ sess = [t \in Tokens |-> sess[t]]
    /\ \A t \in Tokens : Lasts(sess[t])
    /\ \A t \in Open : t <= issued /\ sess[t].key \in Stored

\* The record of a request.
PCs == {"idle", "lookup", "check", "whois", "get", "replace", "start", "verify", "drop", "refresh",
        "authed", "lock", "exists", "insert", "snapshot", "upsert", "norows"}
Shaped(x) ==
    /\ x = [pc |-> x.pc, token |-> x.token, key |-> x.key, ago |-> x.ago, rest |-> x.rest,
            attempt |-> x.attempt, dead |-> x.dead, held |-> x.held, raced |-> x.raced]
    /\ x.pc \in PCs /\ x.token \in 0..issued /\ x.key \in 0..MaxKeys /\ x.ago \in 0..Slack
    /\ x.rest \in Int /\ x.attempt \in {0, 1}
    /\ x.pc \in {"get", "verify", "drop", "refresh", "authed"} => x.token # 0

\* The session a request presents cannot authenticate it: its row is gone, its
\* key is off, or it has expired as of the time the request read the clock.
Over(x) ==
    LET row == sess[x.token] IN
    \/ row = NoRow \/ state[row.key] # "on" \/ row.limit + x.ago <= 0 \/ row.left <= -Slack

Identity(t) == sess[t] # NoRow /\ kind[sess[t].key] = "identity"

\* What a request knows of the session it presents while it is authenticated.
Access(x) ==
    /\ x.dead => x.pc = "get" /\ Over(x)
    /\ x.pc \in {"get", "verify"} /\ granted => x.held
    /\ x.pc \in {"refresh", "authed"} /\ Identity(x.token) => x.held
    /\ x.pc = "verify" /\ sess[x.token] # NoRow /\ 2 * x.rest > IdleTTL =>
          \/ 2 * (sess[x.token].left + x.ago) >= IdleTTL
          \/ sess[x.token].left = sess[x.token].limit

\* What a request that makes a key knows of the others.
Making(r, x) ==
    /\ x.pc \in {"exists", "insert"} => bootLock = r
    /\ x.pc = "insert" => \A k \in Stored : kind[k] # "first"
    /\ x.pc = "snapshot" /\ x.attempt = 1 => IdentityKey # {} \/ x.raced
    /\ x.pc = "upsert" /\ x.key = 0 /\ x.attempt = 1 => x.raced
    /\ x.pc = "norows" => x.raced
    /\ x.pc = "whois" => x.attempt = 0

Fits(r, x) == Shaped(x) /\ Access(x) /\ Making(r, x)

\* The inductive invariant.
SessionIInv ==
    /\ KeysOK /\ RowsOK /\ granted \in BOOLEAN /\ bootLock \in Req \cup {NoReq}
    /\ req = [r \in Req |-> req[r]]
    /\ \A r \in Req : Fits(r, req[r])

-----------------------------------------------------------------------------
\* The key a new row gets is an unused one.
LEMMA NextKeyIs ==
    ASSUME KeysOK, Made # Keys
    PROVE  NextKey \in Keys /\ state[NextKey] = "unused"
<1> DEFINE U == {k \in Keys : state[k] = "unused"}
<1>1. U # {} /\ U \subseteq Nat
  BY SessionAssumption DEF Made, Keys
<1>2. PICK k \in U : \A j \in U : ~(<<j, k>> \in OpToRel(<, Nat))
  BY <1>1, NatLessThanWellFounded, WFMin
<1>3. \A j \in U : ~(j < k)
  BY <1>1, <1>2, Zenon DEF OpToRel
<1>4. k \in Keys /\ state[k] = "unused" /\ \A j \in 1..(k - 1) : j \in Made
  BY <1>3, SessionAssumption DEF Made, Keys
<1>5. QED
  BY <1>4 DEF NextKey

\* How a statement may leave a session row, as far as another request cares.
RowKept(old, new) ==
    \/ new = NoRow
    \/ /\ old # NoRow /\ new.key = old.key /\ new.limit = old.limit
       /\ \/ new.left = old.left
          \/ -Slack < old.left /\ (2 * new.left >= IdleTTL \/ new.left = new.limit)

\* A request keeps what it knows when others change rows that way.
LEMMA AccessKept ==
    ASSUME KeysOK, RowsOK, NEW x, Shaped(x), Access(x), UNCHANGED <<table, granted>>, issued' \in Nat,
           issued <= issued', RowsOK',
           \A t \in 1..issued : RowKept(sess[t], sess'[t])
    PROVE  Shaped(x)' /\ Access(x)'
<1> DEFINE t == x.token
<1>1. Shaped(x)'
  BY SessionAssumption DEF Shaped, RowsOK
<1>2. CASE x.pc \notin {"get", "verify", "drop", "refresh", "authed"}
  BY <1>1, <1>2 DEF Access
<1>3. CASE x.pc \in {"get", "verify", "drop", "refresh", "authed"}
  <2>1. t \in 1..issued /\ t \in Tokens /\ x.ago \in 0..Slack
    BY <1>3, SessionAssumption DEF Shaped, RowsOK, Tokens
  <2>2. RowKept(sess[t], sess'[t]) /\ Lasts(sess[t]) /\ Lasts(sess'[t])
    BY <2>1, Zenon DEF RowsOK, Lasts
  <2>3. Over(x) => Over(x)'
    BY <2>1, <2>2, SessionAssumption DEF Over, RowKept, Lasts, table
  <2>4. Identity(t)' => Identity(t)
    BY <2>2, Zenon DEF Identity, RowKept, table
  <2>5. x.dead => x.pc = "get" /\ Over(x)'
    BY <2>3 DEF Access
  <2>6. x.pc \in {"get", "verify"} /\ granted' => x.held
    BY DEF Access
  <2>7. x.pc \in {"refresh", "authed"} /\ Identity(t)' => x.held
    BY <2>4 DEF Access
  <2>8. x.pc = "verify" /\ sess'[t] # NoRow /\ 2 * x.rest > IdleTTL =>
          \/ 2 * (sess'[t].left + x.ago) >= IdleTTL
          \/ sess'[t].left = sess'[t].limit
    <3> SUFFICES ASSUME x.pc = "verify", sess'[t] # NoRow, 2 * x.rest > IdleTTL
                 PROVE  2 * (sess'[t].left + x.ago) >= IdleTTL \/ sess'[t].left = sess'[t].limit
      BY Zenon
    <3>1. sess[t] # NoRow /\ sess[t].left \in Int /\ sess'[t].left \in Int
      BY <2>2 DEF RowKept, Lasts
    <3>2. 2 * (sess[t].left + x.ago) >= IdleTTL \/ sess[t].left = sess[t].limit
      BY <3>1 DEF Access
    <3>3. QED
      BY <2>1, <2>2, <3>1, <3>2, SessionAssumption DEF RowKept
  <2>9. QED
    BY <1>1, <2>5, <2>6, <2>7, <2>8 DEF Access
<1>4. QED
  BY <1>2, <1>3

\* One request takes a step that leaves the keys and the lock alone.
LEMMA RequestStep ==
    ASSUME SessionIInv, NEW r \in Req, NEW x, req' = [req EXCEPT ![r] = x],
           UNCHANGED <<table, bootLock, granted>>, issued' \in Nat, issued <= issued', RowsOK',
           \A t \in 1..issued : RowKept(sess[t], sess'[t]),
           Shaped(x)', Access(x)', Making(r, x)
    PROVE  SessionIInv'
<1>1. KeysOK' /\ granted' \in BOOLEAN /\ bootLock' \in Req \cup {NoReq}
  BY DEF SessionIInv, KeysOK, Stored, table
<1>2. \A q \in Req : req'[q] = IF q = r THEN x ELSE req[q]
  BY DEF SessionIInv
<1>3. req' = [q \in Req |-> req'[q]]
  BY DEF SessionIInv
<1>4. ASSUME NEW q, NEW y, Making(q, y) PROVE Making(q, y)'
  BY <1>4 DEF Making, IdentityKey, Stored, table
<1>5. ASSUME NEW q \in Req PROVE Fits(q, req[q])'
  <2>1. CASE q = r
    <3>1. Fits(r, x)' /\ req'[q] = x
      BY <1>2, <1>4, <2>1, Zenon DEF Fits
    <3>2. QED
      BY <2>1, <3>1 DEF Fits, Shaped, Access, Making, Over
  <2>2. CASE q # r
    <3>1. Fits(q, req[q]) /\ req'[q] = req[q]
      BY <1>2, <2>2 DEF SessionIInv
    <3>2. PICK y : y = req[q]
      OBVIOUS
    <3>3. Shaped(y)' /\ Access(y)' /\ Making(q, y)'
      BY <1>4, <3>1, <3>2, AccessKept DEF Fits, SessionIInv
    <3>4. req'[q] = y
      BY <3>1, <3>2
    <3>5. Fits(q, y)'
      BY <3>3 DEF Fits
    <3>6. QED
      BY <3>4, <3>5 DEF Fits, Shaped, Access, Making, Over
  <2>3. QED
    BY <2>1, <2>2, Zenon
<1>6. QED
  BY <1>1, <1>3, <1>5 DEF SessionIInv

\* A request that is over knows nothing.
LEMMA OverAndDone ==
    ASSUME NEW r, issued \in Nat
    PROVE  Fits(r, NoRequest)
  BY SessionAssumption DEF Fits, Shaped, Access, Making, NoRequest, NewRequest, PCs

\* One request takes a step that changes nothing else.
LEMMA QuietStep ==
    ASSUME SessionIInv, NEW r \in Req, NEW x, req' = [req EXCEPT ![r] = x],
           UNCHANGED <<table, sess, issued, bootLock, granted>>, Fits(r, x)
    PROVE  SessionIInv'
<1>1. RowsOK' /\ issued' \in Nat /\ issued <= issued'
  BY SessionAssumption DEF SessionIInv, RowsOK, Open, Stored, table
<1>2. \A t \in 1..issued : RowKept(sess[t], sess'[t])
  BY DEF RowKept
<1>3. Shaped(x)' /\ Access(x)' /\ Making(r, x)
  BY DEF Fits, Shaped, Access, Over, Identity, table
<1>4. QED
  BY <1>1, <1>2, <1>3, RequestStep, Zenon

\* A request ends and nothing else changes.
LEMMA DoneStep ==
    ASSUME SessionIInv, NEW r \in Req, Done(r), UNCHANGED <<table, sess, issued, bootLock, granted>>
    PROVE  SessionIInv'
<1>1. Fits(r, NoRequest)
  BY OverAndDone, SessionAssumption DEF SessionIInv, RowsOK
<1>2. QED
  BY <1>1, QuietStep, Zenon DEF Done

\* Requests arrive.
LEMMA ArriveStep ==
    ASSUME SessionIInv, NEW r \in Req, NEW t \in 0..MaxTokens, Arrive(r, t)
    PROVE  SessionIInv'
<1>1. issued \in 0..MaxTokens /\ KeysOK
  BY DEF SessionIInv, RowsOK
<1>2. ASSUME NEW p \in {"lookup", "check", "whois"}, NEW u, Begin(r, p, u) PROVE SessionIInv'
  <2> DEFINE x == NewRequest(p, u, 0, FALSE, FALSE)
  <2>1. x = [pc |-> p, token |-> u, key |-> 0, ago |-> 0, rest |-> 0, attempt |-> 0,
             dead |-> FALSE, held |-> FALSE, raced |-> FALSE]
    BY DEF NewRequest
  <2>2. Fits(r, x)
    <3> HIDE DEF x
    <3>1. u \in 0..issued
      BY <1>2 DEF Begin
    <3>2. Shaped(x)
      BY <1>1, <2>1, <3>1, SessionAssumption DEF Shaped, PCs
    <3>3. QED
      BY <2>1, <3>2 DEF Fits, Access, Making
  <2>3. req' = [req EXCEPT ![r] = x] /\ UNCHANGED <<table, sess, issued, bootLock, granted>>
    BY <1>2 DEF Begin
  <2> HIDE DEF x
  <2>4. QED
    BY <2>2, <2>3, QuietStep, Zenon
<1>3. CASE BeginAuth(r, t)
  <2>1. PICK d : d = Ended(t)
    OBVIOUS
  <2>2. PICK h : h = (granted \/ Ended(t) \/ kind[sess[t].key] # "identity")
    OBVIOUS
  <2> DEFINE x == NewRequest("get", t, 0, d, h)
  <2>3. x = [pc |-> "get", token |-> t, key |-> 0, ago |-> 0, rest |-> 0, attempt |-> 0,
             dead |-> d, held |-> h, raced |-> FALSE]
    BY DEF NewRequest
  <2>4. Shaped(x)
    <3> HIDE DEF x
    <3>1. t \in 1..issued
      BY <1>3 DEF BeginAuth
    <3>2. QED
      BY <1>1, <2>3, <3>1, SessionAssumption DEF Shaped, PCs
  <2>5. t \in Tokens /\ Lasts(sess[t])
    BY <1>1, <1>3, SessionAssumption DEF BeginAuth, Tokens, SessionIInv, RowsOK
  <2>6. d => Over(x)
    <3>1. x.token = t /\ x.ago = 0
      BY <2>3
    <3>2. d => sess[t] = NoRow \/ state[sess[t].key] # "on" \/ sess[t].limit <= 0
      BY <2>1, <2>5, Zenon DEF Ended, Open
    <3>3. sess[t] # NoRow => sess[t].limit \in Int
      BY <2>5 DEF Lasts
    <3> HIDE DEF x
    <3>4. QED
      BY <3>1, <3>2, <3>3 DEF Over
  <2>7. Access(x) /\ Making(r, x)
    <3> HIDE DEF x
    <3>1. x.pc = "get" /\ x.dead = d /\ x.held = h
      BY <2>3
    <3>2. granted => h
      BY <2>2, Zenon
    <3>3. x.dead => x.pc = "get" /\ Over(x)
      BY <2>6, <3>1
    <3>4. QED
      BY <3>1, <3>2, <3>3 DEF Access, Making
  <2>8. req' = [req EXCEPT ![r] = x] /\ UNCHANGED <<table, sess, issued, bootLock, granted>>
    BY <1>3, <2>1, <2>2 DEF BeginAuth
  <2> HIDE DEF x
  <2>9. QED
    BY <2>4, <2>7, <2>8, QuietStep, Zenon DEF Fits
<1>4. QED
  BY <1>2, <1>3 DEF Arrive, BeginLogin, BeginSetup, BeginIdentity

\* What a request that moves on to pc keeps of its record.
LEMMA Moved ==
    ASSUME NEW y, NEW p \in PCs, Shaped(y),
           p \in {"get", "verify", "drop", "refresh", "authed"} => y.token # 0
    PROVE  LET x == [y EXCEPT !.pc = p] IN
           /\ Shaped(x) /\ x.pc = p /\ x.token = y.token /\ x.key = y.key /\ x.ago = y.ago
           /\ x.rest = y.rest /\ x.attempt = y.attempt /\ x.dead = y.dead /\ x.held = y.held
           /\ x.raced = y.raced
<1> DEFINE x == [y EXCEPT !.pc = p]
<1>1. x = [pc |-> p, token |-> y.token, key |-> y.key, ago |-> y.ago, rest |-> y.rest,
           attempt |-> y.attempt, dead |-> y.dead, held |-> y.held, raced |-> y.raced]
  BY DEF Shaped
<1> HIDE DEF x
<1>2. Shaped(x)
  BY <1>1, Zenon DEF Shaped
<1>3. QED
  BY <1>1, <1>2 DEF x

\* Steps that change only the request, where it does not notice a key.
LEMMA MoveStep ==
    ASSUME SessionIInv, NEW r \in Req,
           VerifyFails(r) \/ View(r) \/ CheckNoKeys(r) \/ WhoIs(r) \/ SignInFails(r)
    PROVE  SessionIInv'
<1>1. CASE Done(r)
  BY <1>1, DoneStep DEF VerifyFails, View, CheckNoKeys, WhoIs, SignInFails
<1>2. ASSUME NEW p \in {"drop", "lock", "snapshot"}, Goto(r, p), req[r].pc \in {"verify", "check", "whois"},
             p = "drop" => req[r].pc = "verify", p = "snapshot" => req[r].attempt = 0
      PROVE  SessionIInv'
  <2>1. PICK y : y = req[r] /\ Fits(r, y)
    BY DEF SessionIInv
  <2> DEFINE x == [y EXCEPT !.pc = p]
  <2>2. Shaped(x) /\ x.pc = p /\ x.attempt = y.attempt /\ x.dead = y.dead
    <3>1. Shaped(y) /\ p \in PCs /\ (p = "drop" => y.token # 0)
      BY <1>2, <2>1 DEF Fits, Shaped, PCs
    <3>2. p \in {"get", "verify", "drop", "refresh", "authed"} => p = "drop"
      BY <1>2
    <3>3. QED
      BY <3>1, <3>2, Moved, ZenonT(40)
  <2>3. req' = [req EXCEPT ![r] = x]
    BY <1>2, <2>1 DEF Goto
  <2> HIDE DEF x
  <2>4. Access(x) /\ Making(r, x)
    <3>1. x.pc = p /\ p \in {"drop", "lock", "snapshot"} /\ (p = "snapshot" => x.attempt = 0)
      BY <1>2, <2>1, <2>2, Zenon
    <3>2. ~ x.dead
      BY <1>2, <2>1, <2>2, Zenon DEF Fits, Access
    <3>3. Access(x)
      BY <3>1, <3>2 DEF Access
    <3>4. Making(r, x)
      BY <3>1 DEF Making
    <3>5. QED
      BY <3>3, <3>4
  <2>5. UNCHANGED <<table, sess, issued, bootLock, granted>>
    BY DEF VerifyFails, View, CheckNoKeys, WhoIs, SignInFails
  <2>6. QED
    BY <2>2, <2>3, <2>4, <2>5, QuietStep, Zenon DEF Fits
<1>3. CASE Goto(r, "snapshot") /\ WhoIs(r)
  <2>1. req[r].pc = "whois" /\ req[r].attempt = 0
    BY <1>3 DEF WhoIs, SessionIInv, Fits, Making
  <2>2. QED
    BY <1>2, <1>3, <2>1
<1>4. QED
  BY <1>1, <1>2, <1>3, Zenon DEF VerifyFails, View, CheckNoKeys, WhoIs, SignInFails

\* A request moves on with a key: the one presented, or the one of the snapshot.
LEMMA NoteStep ==
    ASSUME SessionIInv, NEW r \in Req, LookupKey(r) \/ KeySnapshot(r)
    PROVE  SessionIInv'
<1>1. PICK y : y = req[r] /\ Fits(r, y)
  BY DEF SessionIInv
<1>2. ASSUME NEW p \in {"replace", "upsert"}, NEW k \in 0..MaxKeys, y.pc \in {"lookup", "snapshot"},
             req' = [req EXCEPT ![r].pc = p, ![r].key = k],
             p = "upsert" /\ k = 0 /\ y.attempt = 1 => y.raced,
             UNCHANGED <<table, sess, issued, bootLock, granted>>
      PROVE  SessionIInv'
  <2>1. PICK z : z = [y EXCEPT !.pc = p]
    BY Zenon
  <2>2. PICK x : x = [z EXCEPT !.key = k]
    BY Zenon
  <2>3. Shaped(y) /\ p \in PCs /\ p \notin {"get", "verify", "drop", "refresh", "authed"}
    BY <1>1, <1>2 DEF Fits, PCs
  <2>4. /\ Shaped(x) /\ x.pc = p /\ x.key = k /\ x.attempt = y.attempt
        /\ x.dead = y.dead /\ x.raced = y.raced
    <3>1. z = [pc |-> p, token |-> y.token, key |-> y.key, ago |-> y.ago, rest |-> y.rest,
               attempt |-> y.attempt, dead |-> y.dead, held |-> y.held, raced |-> y.raced]
      BY <2>1, <2>3 DEF Shaped
    <3>2. x = [pc |-> p, token |-> y.token, key |-> k, ago |-> y.ago, rest |-> y.rest,
               attempt |-> y.attempt, dead |-> y.dead, held |-> y.held, raced |-> y.raced]
      BY <2>2, <3>1
    <3>3. QED
      BY <1>2, <2>3, <3>2 DEF Shaped
  <2>5. req' = [req EXCEPT ![r] = x]
    BY <1>1, <1>2, <2>1, <2>2, Zenon DEF SessionIInv
  <2>6. Access(x) /\ Making(r, x)
    BY <1>1, <1>2, <2>4 DEF Fits, Access, Making
  <2>7. QED
    BY <1>2, <2>4, <2>5, <2>6, QuietStep, Zenon DEF Fits
<1>3. CASE LookupKey(r)
  <2>1. PICK k \in (IF y.key = 0 THEN Made ELSE {y.key}) :
           IF state[k] = "on" /\ kind[k] # "identity"
           THEN req' = [req EXCEPT ![r].pc = "replace", ![r].key = k] ELSE Done(r)
    BY <1>1, <1>3 DEF LookupKey
  <2>2. k \in 0..MaxKeys
    BY <1>1, <2>1, SessionAssumption DEF Made, Keys, Fits, Shaped
  <2>3. y.pc = "lookup" /\ UNCHANGED <<table, sess, issued, bootLock, granted>>
    BY <1>1, <1>3 DEF LookupKey
  <2>4. QED
    BY <1>2, <2>1, <2>2, <2>3, DoneStep
<1>4. CASE KeySnapshot(r)
  <2>1. PICK k \in (IF IdentityKey = {} THEN {0} ELSE IdentityKey) :
           req' = [req EXCEPT ![r].pc = "upsert", ![r].key = k]
    BY <1>4, Zenon DEF KeySnapshot
  <2>2. k \in 0..MaxKeys /\ (k = 0 => IdentityKey = {})
    BY <2>1, SessionAssumption DEF IdentityKey, Stored, Keys
  <2>3. y.pc = "snapshot" /\ UNCHANGED <<table, sess, issued, bootLock, granted>>
    BY <1>1, <1>4 DEF KeySnapshot
  <2>4. k = 0 /\ y.attempt = 1 => y.raced
    BY <1>1, <2>2, <2>3 DEF Fits, Making
  <2>5. QED
    BY <1>2, <2>1, <2>2, <2>3, <2>4, Zenon
<1>5. QED
  BY <1>3, <1>4

-----------------------------------------------------------------------------
\* Rows that are kept or removed leave the table of sessions as it should be.
LEMMA RowsStep ==
    ASSUME SessionIInv, sess' = [t \in Tokens |-> sess'[t]], UNCHANGED <<table, issued>>,
           \A t \in Tokens : sess'[t] = NoRow \/ sess'[t] = sess[t]
    PROVE  RowsOK' /\ \A t \in 1..issued : RowKept(sess[t], sess'[t])
<1>1. RowsOK'
  BY DEF SessionIInv, RowsOK, Open, Stored, Lasts, table
<1>2. \A t \in 1..issued : t \in Tokens
  BY SessionAssumption DEF SessionIInv, RowsOK, Tokens
<1>3. QED
  BY <1>1, <1>2 DEF RowKept

\* A request ends its session: it is replaced, dropped or logged out.
LEMMA CloseStep ==
    ASSUME SessionIInv, NEW r \in Req, ReplaceSession(r) \/ DropSession(r) \/ Logout(r)
    PROVE  SessionIInv'
<1>1. PICK y : y = req[r] /\ Fits(r, y)
  BY DEF SessionIInv
<1>2. /\ sess' = [t \in Tokens |-> sess'[t]]
      /\ \A t \in Tokens : sess'[t] = NoRow \/ sess'[t] = sess[t]
  <2>1. sess = [t \in Tokens |-> sess[t]]
    BY DEF SessionIInv, RowsOK
  <2>2. sess' = sess \/ \E u : sess' = [sess EXCEPT ![u] = NoRow]
    BY Zenon DEF ReplaceSession, DropSession, Logout
  <2>3. QED
    BY <2>1, <2>2
<1>3. UNCHANGED <<table, issued, bootLock, granted>>
  BY Zenon DEF ReplaceSession, DropSession, Logout
<1>4. RowsOK' /\ \A t \in 1..issued : RowKept(sess[t], sess'[t])
  BY <1>2, <1>3, RowsStep
<1>5. issued' \in Nat /\ issued <= issued' /\ issued \in Nat
  BY <1>3, SessionAssumption DEF SessionIInv, RowsOK
<1>6. CASE ReplaceSession(r)
  <2> DEFINE x == NewRequest("start", 0, y.key, FALSE, FALSE)
  <2>1. req' = [req EXCEPT ![r] = x]
    BY <1>1, <1>6 DEF ReplaceSession
  <2>2. x = [pc |-> "start", token |-> 0, key |-> y.key, ago |-> 0, rest |-> 0, attempt |-> 0,
             dead |-> FALSE, held |-> FALSE, raced |-> FALSE]
    BY DEF NewRequest
  <2> HIDE DEF x
  <2>3. Shaped(x)'
    <3>1. y.key \in 0..MaxKeys
      BY <1>1, Zenon DEF Fits, Shaped
    <3>2. 0 \in 0..issued' /\ 0 \in 0..Slack /\ 0 \in Int
      BY <1>5, SessionAssumption
    <3>3. /\ x.pc = "start" /\ x.token = 0 /\ x.key = y.key /\ x.ago = 0 /\ x.rest = 0
          /\ x.attempt = 0 /\ x.dead = FALSE /\ x.held = FALSE /\ x.raced = FALSE
      BY <2>2, Zenon
    <3>4. QED
      BY <2>2, <3>1, <3>2, <3>3, Zenon DEF Shaped, PCs
  <2>4. Access(x)' /\ Making(r, x)
    BY <2>2 DEF Access, Making
  <2>5. QED
    BY <1>3, <1>4, <1>5, <2>1, <2>3, <2>4, RequestStep, Zenon
<1>7. CASE DropSession(r) \/ Logout(r)
  <2>1. req' = [req EXCEPT ![r] = NoRequest]
    BY <1>7 DEF DropSession, Logout, Done
  <2>2. Fits(r, NoRequest) /\ Fits(r, NoRequest)'
    BY <1>3, <1>5, OverAndDone, SessionAssumption, Zenon DEF Fits, Shaped, Access, Making, NoRequest, NewRequest, PCs
  <2>3. PICK x : x = NoRequest
    OBVIOUS
  <2>4. Shaped(x)' /\ Access(x)' /\ Making(r, x)
    BY <2>2, <2>3 DEF Fits
  <2>5. QED
    BY <1>3, <1>4, <1>5, <2>1, <2>3, <2>4, RequestStep, Zenon
<1>8. QED
  BY <1>6, <1>7

\* A new session comes with the next token; expired rows are swept.
LEMMA CreateStep ==
    ASSUME SessionIInv, NEW r \in Req, CreateSession(r)
    PROVE  SessionIInv'
<1>1. PICK y : y = req[r] /\ Fits(r, y)
  BY Zenon DEF SessionIInv
<1>2. PICK k, ago : k = y.key /\ ago = y.ago /\ ago \in 0..Slack
  BY <1>1, Zenon DEF Fits, Shaped
<1>3. UNCHANGED <<table, bootLock, granted>> /\ Done(r) /\ issued \in 0..MaxTokens /\ issued < MaxTokens
  BY DEF CreateSession, SessionIInv, RowsOK
<1>4. CASE k \notin Stored
  BY <1>1, <1>2, <1>3, <1>4, DoneStep, Zenon DEF CreateSession
<1>5. CASE k \in Stored
  <2> DEFINE swept == [t \in Tokens |-> IF Past(sess[t], ago) THEN NoRow ELSE sess[t]]
  <2>1. sess' = [swept EXCEPT ![issued + 1] = Row(k, ago)] /\ issued' = issued + 1
    BY <1>1, <1>2, <1>5 DEF CreateSession
  <2>2. \A t \in Tokens : swept[t] = NoRow \/ swept[t] = sess[t]
    OBVIOUS
  <2>3. issued + 1 \in Tokens /\ issued + 1 \in Nat /\ \A t \in 1..issued : t \in Tokens /\ t # issued + 1
    BY <1>3, SessionAssumption DEF Tokens
  <2>4. sess' = [t \in Tokens |-> sess'[t]] /\ sess'[issued + 1] = Row(k, ago)
    BY <2>1, <2>3, Zenon
  <2>5. \A t \in Tokens : t # issued + 1 => sess'[t] = NoRow \/ sess'[t] = sess[t]
    BY <2>1, <2>2, Zenon
  <2> HIDE DEF swept
  <2>6. Lasts(Row(k, ago)) /\ Row(k, ago).key = k
    BY <1>2, <1>5, SessionAssumption DEF Row, Lasts, Stored
  <2>7. RowsOK'
    <3>1. \A t \in Tokens : Lasts(sess'[t])
      BY <2>4, <2>5, <2>6 DEF SessionIInv, RowsOK, Lasts
    <3>2. \A t \in Tokens : sess'[t] # NoRow => t <= issued' /\ sess'[t].key \in Stored
      <4> SUFFICES ASSUME NEW t \in Tokens, sess'[t] # NoRow
                   PROVE  t <= issued' /\ sess'[t].key \in Stored
        OBVIOUS
      <4>1. CASE t = issued + 1
        BY <1>5, <2>1, <2>3, <2>4, <2>6, <4>1
      <4>2. CASE t # issued + 1
        <5>1. sess'[t] = sess[t] /\ t \in Open
          BY <2>5, <4>2 DEF Open
        <5>2. t <= issued /\ sess[t].key \in Stored
          BY <5>1 DEF SessionIInv, RowsOK
        <5>3. QED
          BY <1>3, <2>1, <5>1, <5>2, SessionAssumption DEF Tokens
      <4>3. QED
        BY <4>1, <4>2
    <3>3. Stored' = Stored
      BY <1>3 DEF Stored, table
    <3>4. issued' \in 0..MaxTokens
      BY <1>3, <2>1, SessionAssumption
    <3>5. QED
      BY <2>4, <3>1, <3>2, <3>3, <3>4, Zenon DEF RowsOK, Open, Lasts
  <2>8. \A t \in 1..issued : RowKept(sess[t], sess'[t])
    BY <2>3, <2>5 DEF RowKept
  <2>9. issued' \in Nat /\ issued <= issued' /\ req' = [req EXCEPT ![r] = NoRequest]
    BY <1>3, <2>1, SessionAssumption DEF Done
  <2>10. PICK x : x = NoRequest
    BY Zenon
  <2>11. Shaped(x)' /\ Access(x)' /\ Making(r, x)
    BY <2>9, <2>10, SessionAssumption DEF Shaped, Access, Making, NoRequest, NewRequest, PCs
  <2>12. QED
    BY <1>3, <2>7, <2>8, <2>9, <2>10, <2>11, RequestStep, Zenon
<1>6. QED
  BY <1>4, <1>5

-----------------------------------------------------------------------------
\* The row of a session that was seen some time ago and has so much left.
SeenAgo(row, left, ago) ==
    [key |-> row.key, left |-> left, limit |-> row.limit, age |-> row.age,
     idle |-> IF ago < row.idle THEN ago ELSE row.idle]

\* A session row that is seen, and maybe refreshed, at a time up to Slack ago.
LEMMA SeenRow ==
    ASSUME NEW row, Lasts(row), row # NoRow, NEW ago \in 0..Slack, NEW left,
           \/ left = row.left /\ (2 * (left + ago) >= IdleTTL \/ left = row.limit)
           \/ left = NewLeft(row, ago) /\ ~Past(row, ago),
           NEW n, n = SeenAgo(row, left, ago)
    PROVE  Lasts(n) /\ RowKept(row, n) /\ n # NoRow /\ n.key = row.key
<1>1. /\ row.key \in Keys /\ row.left \in Int /\ row.limit \in Int /\ row.age \in Nat /\ row.idle \in Nat
      /\ -Slack <= row.left /\ row.left <= row.limit /\ row.limit + row.age = AbsoluteTTL
      /\ 2 * (row.left + row.idle) >= IdleTTL \/ row.left = row.limit
  BY Zenon DEF Lasts
<1> USE DEF SeenAgo
<1>2. CASE left = row.left /\ (2 * (left + ago) >= IdleTTL \/ left = row.limit)
  BY <1>1, <1>2, SessionAssumption DEF Lasts, RowKept, NoRow, Keys
<1>3. CASE left = NewLeft(row, ago) /\ ~Past(row, ago)
  <2>1. /\ left \in Int /\ left <= row.limit /\ -Slack <= left
        /\ 2 * left >= IdleTTL \/ left = row.limit
    BY <1>1, <1>3, SessionAssumption DEF NewLeft, Past
  <2>2. -Slack < row.left
    BY <1>1, <1>3, SessionAssumption DEF Past
  <2>3. n.idle \in Nat /\ (2 * (left + n.idle) >= IdleTTL \/ left = row.limit)
    BY <1>1, <2>1, SessionAssumption
  <2>4. n \in [key : Keys, left : Int, limit : Int, age : Nat, idle : Nat]
    BY <1>1, <2>1, SessionAssumption
  <2>5. Lasts(n)
    BY <1>1, <2>1, <2>3, <2>4, Zenon DEF Lasts
  <2>6. n # NoRow /\ n.key = row.key
    BY <1>1 DEF NoRow, Keys
  <2>7. QED
    BY <1>1, <2>1, <2>2, <2>5, <2>6, Zenon DEF RowKept
<1>4. QED
  BY <1>2, <1>3

\* One session row changes as another request may see it change.
LEMMA OneRow ==
    ASSUME SessionIInv, NEW t \in Open, NEW n, Lasts(n), RowKept(sess[t], n), n # NoRow, n.key = sess[t].key,
           sess' = [sess EXCEPT ![t] = n], UNCHANGED <<table, issued>>
    PROVE  /\ RowsOK' /\ Open' = Open /\ (Identity(t)' => Identity(t))
           /\ \A u \in 1..issued : RowKept(sess[u], sess'[u])
<1>1. sess = [u \in Tokens |-> sess[u]] /\ t \in Tokens
  BY DEF SessionIInv, RowsOK, Open
<1>2. sess' = [u \in Tokens |-> sess'[u]] /\ \A u \in Tokens : sess'[u] = IF u = t THEN n ELSE sess[u]
  BY <1>1
<1>3. Open' = Open /\ Stored' = Stored
  BY <1>2, Zenon DEF Open, Stored, table
<1>4. \A u \in Tokens : Lasts(sess'[u]) /\ sess'[u].key = sess[u].key
  BY <1>2, Zenon DEF SessionIInv, RowsOK, Lasts
<1>5. RowsOK'
  BY <1>2, <1>3, <1>4 DEF SessionIInv, RowsOK, Lasts
<1>6. \A u \in 1..issued : u \in Tokens
  BY SessionAssumption DEF SessionIInv, RowsOK, Tokens
<1>7. \A u \in 1..issued : RowKept(sess[u], sess'[u])
  BY <1>2, <1>6 DEF RowKept
<1>8. Identity(t)' => Identity(t)
  BY <1>1, <1>4 DEF Identity, Open, table
<1>9. QED
  BY <1>3, <1>5, <1>7, <1>8, Zenon

\* A request moves on to pc and forgets the rest of the idle time it read.
LEMMA Forgets ==
    ASSUME NEW y, Shaped(y), NEW p \in {"refresh", "authed"}, y.token # 0
    PROVE  \E x : /\ x = [y EXCEPT !.pc = p, !.rest = 0]
                  /\ Shaped(x) /\ x.pc = p /\ x.token = y.token /\ x.ago = y.ago
                  /\ x.dead = y.dead /\ x.held = y.held
<1>1. PICK z : z = [y EXCEPT !.pc = p]
  BY Zenon
<1>2. PICK x : x = [z EXCEPT !.rest = 0]
  BY Zenon
<1>3. z = [pc |-> p, token |-> y.token, key |-> y.key, ago |-> y.ago, rest |-> y.rest,
           attempt |-> y.attempt, dead |-> y.dead, held |-> y.held, raced |-> y.raced]
  BY <1>1 DEF Shaped
<1>4. x = [pc |-> p, token |-> y.token, key |-> y.key, ago |-> y.ago, rest |-> 0,
           attempt |-> y.attempt, dead |-> y.dead, held |-> y.held, raced |-> y.raced]
  BY <1>2, <1>3
<1>5. /\ Shaped(x) /\ x.pc = p /\ x.token = y.token /\ x.ago = y.ago
      /\ x.dead = y.dead /\ x.held = y.held
  BY <1>4 DEF Shaped, PCs
<1>6. x = [y EXCEPT !.pc = p, !.rest = 0]
  BY <1>1, <1>2
<1>7. QED
  BY <1>5, <1>6, Zenon

\* A request is authenticated.
LEMMA AdmitStep ==
    ASSUME SessionIInv, NEW r \in Req, NEW rs, Admit(r, rs),
           UNCHANGED <<table, issued, bootLock, granted>>,
           req[r].pc \in {"get", "verify", "refresh"}, ~req[r].dead,
           Identity(req[r].token) => req[r].held,
           \/ /\ rs = sess
              /\ req[r].token \in Open =>
                    \/ 2 * (sess[req[r].token].left + req[r].ago) >= IdleTTL
                    \/ sess[req[r].token].left = sess[req[r].token].limit
           \/ /\ req[r].token \in Open /\ ~Past(sess[req[r].token], req[r].ago)
              /\ rs = [sess EXCEPT ![req[r].token].left = NewLeft(sess[req[r].token], req[r].ago)]
    PROVE  SessionIInv'
<1>1. PICK y : y = req[r] /\ Fits(r, y)
  BY Zenon DEF SessionIInv
<1>2. PICK t, ago : t = y.token /\ ago = y.ago /\ ago \in 0..Slack /\ t # 0
  BY <1>1 DEF Fits, Shaped
<1>3. PICK x : /\ x = [y EXCEPT !.pc = "authed", !.rest = 0]
               /\ Shaped(x) /\ x.pc = "authed" /\ x.token = y.token /\ x.ago = y.ago
               /\ x.dead = y.dead /\ x.held = y.held
  <2>1. Shaped(y) /\ y.token # 0
    BY <1>1, <1>2, Zenon DEF Fits
  <2>2. QED
    BY <2>1, Forgets, Zenon
<1>4. req' = [req EXCEPT ![r] = x]
  BY <1>1, <1>3, Zenon DEF Admit, SessionIInv
<1>5. Shaped(x)' /\ Making(r, x)
  BY <1>3 DEF Shaped, Making
<1>6. ASSUME Identity(t)' => Identity(t) PROVE Access(x)'
  <2>1. ~x.dead /\ (Identity(t)' => x.held)
    BY <1>1, <1>2, <1>3, <1>6
  <2>2. QED
    BY <1>2, <1>3, <2>1 DEF Access
<1>7. CASE t \notin Open
  <2>1. sess' = sess
    BY <1>1, <1>2, <1>7 DEF Admit
  <2>2. \A u \in 1..issued : RowKept(sess[u], sess'[u])
    BY <2>1 DEF RowKept
  <2>3. RowsOK' /\ issued' \in Nat /\ issued <= issued'
    BY <2>1, SessionAssumption DEF SessionIInv, RowsOK, Open, Stored, table
  <2>4. Identity(t)' => Identity(t)
    BY <2>1, Zenon DEF Identity, table
  <2>5. QED
    BY <1>4, <1>5, <1>6, <2>2, <2>3, <2>4, RequestStep, Zenon
<1>8. CASE t \in Open
  <2>1. PICK row : row = sess[t] /\ Lasts(row) /\ row # NoRow
    BY <1>8 DEF SessionIInv, RowsOK, Open
  <2>2. PICK left : \/ /\ left = row.left /\ (2 * (left + ago) >= IdleTTL \/ left = row.limit)
                       /\ rs = sess
                    \/ /\ left = NewLeft(row, ago) /\ ~Past(row, ago)
                       /\ rs = [sess EXCEPT ![t].left = left]
    BY <1>1, <1>2, <1>8, <2>1, Zenon
  <2>3. PICK n : n = SeenAgo(row, left, ago)
    OBVIOUS
  <2>4. Lasts(n) /\ RowKept(row, n) /\ n # NoRow /\ n.key = row.key
    <3>1. \/ left = row.left /\ (2 * (left + ago) >= IdleTTL \/ left = row.limit)
          \/ left = NewLeft(row, ago) /\ ~Past(row, ago)
      BY <2>2
    <3>2. QED
      BY <1>2, <2>1, <2>3, <3>1, SeenRow
  <2>5. sess' = [sess EXCEPT ![t] = n]
    <3>1. row \in [key : Keys, left : Int, limit : Int, age : Nat, idle : Nat]
      BY <2>1 DEF Lasts
    <3>2. sess = [u \in Tokens |-> sess[u]] /\ t \in Tokens
      BY <1>8 DEF SessionIInv, RowsOK, Open
    <3>3. rs[t] = [key |-> row.key, left |-> left, limit |-> row.limit, age |-> row.age, idle |-> row.idle]
      BY <2>1, <2>2, <3>1, <3>2, Zenon
    <3>4. Seen(rs[t], ago) = n
      BY <2>3, <3>3 DEF Seen, SeenAgo
    <3>5. sess' = [rs EXCEPT ![t] = Seen(rs[t], ago)]
      BY <1>1, <1>2, <1>8, <2>2, <3>2, Zenon DEF Admit
    <3>6. \A u \in Tokens : u # t => rs[u] = sess[u]
      BY <2>2, <3>2, Zenon
    <3>7. rs = [u \in Tokens |-> rs[u]]
      BY <2>2, <3>2, Zenon
    <3>8. QED
      BY <3>2, <3>4, <3>5, <3>6, <3>7, Zenon
  <2>6. /\ RowsOK' /\ Open' = Open /\ (Identity(t)' => Identity(t))
        /\ \A u \in 1..issued : RowKept(sess[u], sess'[u])
    BY <1>8, <2>1, <2>4, <2>5, OneRow, Zenon
  <2>7. issued' \in Nat /\ issued <= issued'
    BY SessionAssumption DEF SessionIInv, RowsOK
  <2>8. QED
    BY <1>4, <1>5, <1>6, <2>6, <2>7, RequestStep, Zenon
<1>9. QED
  BY <1>7, <1>8

\* A request is authenticated at once, or refreshes the session first.
LEMMA AdmitOrRefreshStep ==
    ASSUME SessionIInv, NEW r \in Req, NEW rest \in Int, AdmitOrRefresh(r, rest),
           UNCHANGED <<table, issued, bootLock, granted>>,
           req[r].pc \in {"get", "verify"}, ~req[r].dead,
           Identity(req[r].token) => req[r].held,
           req[r].token \in Open /\ 2 * rest > IdleTTL =>
              \/ 2 * (sess[req[r].token].left + req[r].ago) >= IdleTTL
              \/ sess[req[r].token].left = sess[req[r].token].limit
    PROVE  SessionIInv'
<1>1. CASE 2 * rest <= IdleTTL
  <2>1. PICK y : y = req[r] /\ Fits(r, y)
    BY DEF SessionIInv
  <2>2. PICK x : /\ x = [y EXCEPT !.pc = "refresh", !.rest = 0]
                 /\ Shaped(x) /\ x.pc = "refresh" /\ x.token = y.token /\ x.ago = y.ago
                 /\ x.dead = y.dead /\ x.held = y.held
    <3>1. Shaped(y) /\ y.token # 0
      BY <2>1 DEF Fits, Shaped
    <3>2. QED
      BY <3>1, Forgets, Zenon
  <2>3. req' = [req EXCEPT ![r] = x] /\ sess' = sess
    BY <1>1, <2>1, <2>2 DEF AdmitOrRefresh, SessionIInv
  <2>4. Access(x) /\ Making(r, x)
    BY <2>1, <2>2, Zenon DEF Access, Making
  <2>5. QED
    BY <2>2, <2>3, <2>4, QuietStep, Zenon DEF Fits
<1>2. CASE ~(2 * rest <= IdleTTL)
  <2>1. 2 * rest > IdleTTL
    BY <1>2, SessionAssumption
  <2>2. Admit(r, sess)
    BY <1>2 DEF AdmitOrRefresh
  <2>3. QED
    BY <2>1, <2>2, AdmitStep, Zenon
<1>3. QED
  BY <1>1, <1>2

\* authenticate: the session is looked up, the grant verified, the row refreshed.
LEMMA AuthStep ==
    ASSUME SessionIInv, NEW r \in Req, GetSession(r) \/ Verify(r) \/ RefreshSession(r)
    PROVE  SessionIInv'
<1>1. PICK y : y = req[r] /\ Fits(r, y)
  BY DEF SessionIInv
<1>2. PICK t, ago : t = y.token /\ ago = y.ago
  OBVIOUS
<1>3. UNCHANGED <<table, issued, bootLock, granted>> /\ y.pc \in {"get", "verify", "refresh"}
  BY <1>1 DEF GetSession, Verify, RefreshSession
<1>4. ago \in 0..Slack /\ t # 0 /\ t \in Tokens /\ Lasts(sess[t])
  <2>1. ago \in 0..Slack /\ t \in 0..issued /\ t # 0
    BY <1>1, <1>2, <1>3, Zenon DEF Fits, Shaped
  <2>2. issued \in 0..MaxTokens
    BY DEF SessionIInv, RowsOK
  <2>3. t \in Tokens
    BY <2>1, <2>2, SessionAssumption DEF Tokens
  <2>4. QED
    BY <2>1, <2>3, Zenon DEF SessionIInv, RowsOK
<1>5. CASE GetSession(r)
  <2>1. PICK rest : rest = sess[t].left + ago
    BY Zenon
  <2>2. CASE ~Admissible(t, ago)
    BY <1>1, <1>2, <1>3, <1>5, <2>2, DoneStep, Zenon DEF GetSession
  <2>3. CASE Admissible(t, ago)
    <3>1. /\ t \in Open /\ sess[t] # NoRow /\ state[sess[t].key] = "on" /\ rest \in Int
          /\ sess[t].left + ago > 0 /\ sess[t].limit + ago > 0 /\ sess[t].left \in Int
      BY <1>4, <2>1, <2>3, SessionAssumption DEF Admissible, Past, Lasts, Open
    <3>2. ~Over(y)
      BY <1>2, <1>4, <3>1, SessionAssumption DEF Over, Lasts
    <3>3. ~y.dead /\ (granted => y.held) /\ y.pc = "get"
      BY <1>1, <1>5, <3>2 DEF Fits, Access, GetSession
    <3>4. CASE kind[sess[t].key] = "identity"
      <4>1. req' = [req EXCEPT ![r].pc = "verify", ![r].rest = rest] /\ sess' = sess
        BY <1>1, <1>2, <1>5, <2>1, <2>3, <3>4 DEF GetSession
      <4>2. PICK z : z = [y EXCEPT !.pc = "verify"]
        BY Zenon
      <4>3. PICK x : x = [z EXCEPT !.rest = rest]
        BY Zenon
      <4>4. z = [pc |-> "verify", token |-> y.token, key |-> y.key, ago |-> y.ago, rest |-> y.rest,
                 attempt |-> y.attempt, dead |-> y.dead, held |-> y.held, raced |-> y.raced]
        BY <1>1, <4>2 DEF Fits, Shaped
      <4>5. x = [pc |-> "verify", token |-> y.token, key |-> y.key, ago |-> y.ago, rest |-> rest,
                 attempt |-> y.attempt, dead |-> y.dead, held |-> y.held, raced |-> y.raced]
        BY <4>3, <4>4
      <4>6. Shaped(x)
        BY <1>1, <1>2, <1>4, <3>1, <4>5, Zenon DEF Fits, Shaped, PCs
      <4>7. req' = [req EXCEPT ![r] = x]
        BY <1>1, <4>1, <4>2, <4>3, Zenon DEF SessionIInv
      <4>8. /\ x.pc = "verify" /\ x.token = t /\ x.ago = ago /\ x.rest = rest /\ x.dead = y.dead
            /\ x.held = y.held
        BY <1>2, <4>5, Zenon
      <4>9. Access(x) /\ Making(r, x)
        BY <1>4, <2>1, <3>1, <3>3, <4>8, SessionAssumption DEF Access, Making
      <4>10. QED
        BY <1>3, <4>1, <4>6, <4>7, <4>9, QuietStep, Zenon DEF Fits
    <3>5. CASE kind[sess[t].key] # "identity"
      <4>1. AdmitOrRefresh(r, rest)
        BY <1>1, <1>2, <1>5, <2>1, <2>3, <3>5, Zenon DEF GetSession
      <4>2. ~Identity(t)
        BY <3>5, Zenon DEF Identity
      <4>3. 2 * rest > IdleTTL => 2 * (sess[t].left + ago) >= IdleTTL
        BY <1>4, <2>1, <3>1, SessionAssumption
      <4>4. QED
        BY <1>1, <1>2, <1>3, <3>1, <3>3, <4>1, <4>2, <4>3, AdmitOrRefreshStep, Zenon
    <3>6. QED
      BY <3>4, <3>5, Zenon
  <2>4. QED
    BY <2>2, <2>3, Zenon
<1>6. CASE Verify(r)
  <2>1. y.pc = "verify" /\ ~y.dead /\ y.held /\ y.rest \in Int /\ AdmitOrRefresh(r, y.rest)
    BY <1>1, <1>6, Zenon DEF Verify, Fits, Access, Shaped
  <2>2. t \in Open /\ 2 * y.rest > IdleTTL =>
           2 * (sess[t].left + ago) >= IdleTTL \/ sess[t].left = sess[t].limit
    BY <1>1, <1>2, <2>1 DEF Fits, Access, Open
  <2>3. QED
    BY <1>1, <1>2, <1>3, <2>1, <2>2, AdmitOrRefreshStep, Zenon
<1>7. CASE RefreshSession(r)
  <2>1. y.pc = "refresh" /\ ~y.dead /\ (Identity(t) => y.held)
    BY <1>1, <1>2, <1>7 DEF RefreshSession, Fits, Access
  <2>2. CASE t \notin Open \/ Past(sess[t], ago)
    BY <1>1, <1>2, <1>3, <1>7, <2>2, DoneStep, Zenon DEF RefreshSession
  <2>3. CASE ~(t \notin Open \/ Past(sess[t], ago))
    <3>1. PICK rs : rs = [sess EXCEPT ![t].left = NewLeft(sess[t], ago)]
      BY Zenon
    <3>2. Admit(r, rs) /\ t \in Open /\ ~Past(sess[t], ago)
      BY <1>1, <1>2, <1>7, <2>3, <3>1 DEF RefreshSession
    <3>3. QED
      BY <1>1, <1>2, <1>3, <2>1, <3>1, <3>2, AdmitStep, Zenon
  <2>4. QED
    BY <2>2, <2>3
<1>8. QED
  BY <1>5, <1>6, <1>7

-----------------------------------------------------------------------------
\* The parts of the invariant make it up.
LEMMA Assemble ==
    ASSUME KeysOK', RowsOK', granted' \in BOOLEAN, bootLock' \in Req \cup {NoReq},
           NEW R, req' = R, R = [q \in Req |-> R[q]], \A q \in Req : Fits(q, R[q])'
    PROVE  SessionIInv'
<1>1. ASSUME NEW q \in Req PROVE Fits(q, req[q])'
  BY Zenon DEF Fits, Shaped, Access, Making, Over
<1>2. QED
  BY <1>1, Zenon DEF SessionIInv

\* A request takes or frees the lock of the first key, and disturbs no other holder.
LEMMA LockStep ==
    ASSUME SessionIInv, NEW r \in Req, NEW x, req' = [req EXCEPT ![r] = x],
           UNCHANGED <<table, sess, issued, granted>>, bootLock' \in Req \cup {NoReq},
           \A q \in Req \ {r} : bootLock = q => bootLock' = q,
           Shaped(x), Access(x), Making(r, x)'
    PROVE  SessionIInv'
<1>1. KeysOK' /\ RowsOK' /\ granted' \in BOOLEAN
  BY DEF SessionIInv, KeysOK, RowsOK, Stored, Open, table
<1>2. PICK R : R = req'
  OBVIOUS
<1>3. R = [q \in Req |-> R[q]] /\ \A q \in Req : R[q] = IF q = r THEN x ELSE req[q]
  BY <1>2, Zenon DEF SessionIInv
<1>4. ASSUME NEW y, Shaped(y), Access(y) PROVE Shaped(y)' /\ Access(y)'
  BY <1>4, Zenon DEF Shaped, Access, Over, Identity, table
<1>5. ASSUME NEW q \in Req PROVE Fits(q, R[q])'
  <2>1. CASE q = r
    BY <1>3, <1>4, <2>1, Zenon DEF Fits
  <2>2. CASE q # r
    <3>1. PICK y : y = req[q] /\ y = R[q] /\ Fits(q, y)
      BY <1>3, <2>2, Zenon DEF SessionIInv
    <3>2. Making(q, y)'
      BY <2>2, <3>1, Zenon DEF Fits, Making, IdentityKey, Stored, table
    <3>3. QED
      BY <1>4, <3>1, <3>2, Zenon DEF Fits
  <2>3. QED
    BY <2>1, <2>2, Zenon
<1>6. QED
  BY <1>1, <1>2, <1>3, <1>5, Assemble, Zenon

\* A statement fails; the first key is about to be made.
LEMMA BootStep ==
    ASSUME SessionIInv, NEW r \in Req, StatementFails(r) \/ BootstrapLock(r) \/ BootstrapExists(r)
    PROVE  SessionIInv'
<1>1. PICK y : y = req[r] /\ Fits(r, y)
  BY DEF SessionIInv
<1>2. UNCHANGED <<table, sess, issued, granted>>
  BY DEF StatementFails, BootstrapLock, BootstrapExists
<1>3. issued \in Nat /\ bootLock \in Req \cup {NoReq}
  BY SessionAssumption DEF SessionIInv, RowsOK
<1>4. ASSUME Done(r), bootLock' = NoReq \/ bootLock' = bootLock, bootLock \in Req \ {r} => bootLock' = bootLock
      PROVE  SessionIInv'
  <2>1. PICK x : x = NoRequest
    OBVIOUS
  <2>2. Shaped(x) /\ Access(x) /\ Making(r, x)'
    BY <1>3, <2>1, SessionAssumption DEF Shaped, Access, Making, NoRequest, NewRequest, PCs
  <2>3. QED
    BY <1>2, <1>3, <1>4, <2>1, <2>2, LockStep, Zenon DEF Done
<1>5. ASSUME NEW p \in {"exists", "insert"}, Goto(r, p), bootLock' = r,
             \A q \in Req \ {r} : bootLock # q, p = "insert" => Stored = {}, y.pc \in {"lock", "exists"}
      PROVE  SessionIInv'
  <2> DEFINE x == [y EXCEPT !.pc = p]
  <2>1. Shaped(x) /\ x.pc = p /\ x.dead = y.dead
    <3>1. Shaped(y) /\ p \in PCs /\ p \notin {"get", "verify", "drop", "refresh", "authed"}
      BY <1>1, <1>5 DEF Fits, PCs
    <3>2. QED
      BY <3>1, Moved
  <2>2. req' = [req EXCEPT ![r] = x]
    BY <1>1, <1>5 DEF Goto
  <2> HIDE DEF x
  <2>3. Access(x)
    BY <1>1, <1>5, <2>1, Zenon DEF Fits, Access
  <2>4. Making(r, x)'
    BY <1>2, <1>5, <2>1, Zenon DEF Making, Stored, table
  <2>5. QED
    BY <1>2, <1>5, <2>1, <2>2, <2>3, <2>4, LockStep, Zenon
<1>6. CASE StatementFails(r)
  BY <1>3, <1>4, <1>6, Zenon DEF StatementFails
<1>7. CASE BootstrapLock(r)
  BY <1>1, <1>5, <1>7, SessionAssumption DEF BootstrapLock
<1>8. CASE BootstrapExists(r)
  <2>1. y.pc = "exists" /\ bootLock = r
    BY <1>1, <1>8, Zenon DEF BootstrapExists, Fits, Making
  <2>2. CASE Stored # {}
    BY <1>4, <1>8, <2>1, <2>2, Zenon DEF BootstrapExists
  <2>3. CASE Stored = {}
    BY <1>5, <1>8, <2>1, <2>3, Zenon DEF BootstrapExists
  <2>4. QED
    BY <2>2, <2>3, Zenon
<1>9. QED
  BY <1>6, <1>7, <1>8

-----------------------------------------------------------------------------
\* A key is inserted: the rows of sessions and what requests know of them stay.
LEMMA InsertFacts ==
    ASSUME SessionIInv, NEW k \in Keys, state[k] = "unused", NEW how \in {"api", "first", "identity"},
           Insert(k, how), UNCHANGED <<sess, issued, granted>>,
           how = "first" => \A j \in Stored : kind[j] # "first"
    PROVE  /\ KeysOK' /\ RowsOK' /\ Stored' = Stored \cup {k} /\ IdentityKey \subseteq IdentityKey'
           /\ \A j \in Stored : kind'[j] = kind[j]
           /\ kind'[k] = how
           /\ \A y : Shaped(y) /\ Access(y) => Shaped(y)' /\ Access(y)'
<1>1. KeysOK /\ RowsOK /\ k \notin Stored
  BY DEF SessionIInv, Stored
<1>2. /\ kind' \in [Keys -> {"api", "first", "identity"}]
      /\ state' \in [Keys -> {"unused", "on", "off", "gone"}]
      /\ kind'[k] = how /\ state'[k] = "on"
      /\ \A j \in Keys : j # k => kind'[j] = kind[j] /\ state'[j] = state[j]
  BY <1>1, Zenon DEF Insert, KeysOK
<1>3. Stored' = Stored \cup {k}
  BY <1>2, Zenon DEF Stored
<1>4. \A j \in Stored : j \in Keys /\ j # k /\ kind'[j] = kind[j] /\ state'[j] = state[j]
  BY <1>1, <1>2, Zenon DEF Stored
<1>5. KeysOK'
  BY <1>1, <1>2, <1>3, <1>4 DEF KeysOK
<1>6. RowsOK'
  BY <1>1, <1>3, Zenon DEF RowsOK, Open, Lasts
<1>7. IdentityKey \subseteq IdentityKey'
  BY <1>3, <1>4 DEF IdentityKey
<1>8. ASSUME NEW y, Shaped(y), Access(y) PROVE Shaped(y)' /\ Access(y)'
  <2>1. Shaped(y)'
    BY <1>8, Zenon DEF Shaped
  <2>2. CASE y.pc \notin {"get", "verify", "drop", "refresh", "authed"}
    BY <1>8, <2>1, <2>2, Zenon DEF Access
  <2>3. CASE y.pc \in {"get", "verify", "drop", "refresh", "authed"}
    <3>1. y.token \in Tokens
      BY <1>1, <1>8, <2>3, SessionAssumption DEF Shaped, RowsOK, Tokens
    <3>2. sess[y.token] # NoRow => sess[y.token].key \in Stored
      BY <1>1, <3>1, Zenon DEF RowsOK, Open
    <3>3. sess[y.token] # NoRow =>
             kind'[sess[y.token].key] = kind[sess[y.token].key] /\ state'[sess[y.token].key] = state[sess[y.token].key]
      BY <1>4, <3>2, Zenon
    <3>4. (Over(y) => Over(y)') /\ (Identity(y.token)' => Identity(y.token))
      BY <3>3, Zenon DEF Over, Identity
    <3>5. QED
      BY <1>8, <2>1, <3>4, Zenon DEF Access
  <2>4. QED
    BY <2>2, <2>3, Zenon
<1>9. QED
  BY <1>2, <1>3, <1>4, <1>5, <1>6, <1>7, <1>8, Zenon

\* A request inserts a key, and moves on to x.
LEMMA InsertStep ==
    ASSUME SessionIInv, NEW r \in Req, NEW x, req' = [req EXCEPT ![r] = x], Made # Keys,
           NEW how \in {"api", "first", "identity"}, Insert(NextKey, how), UNCHANGED <<sess, issued, granted>>,
           bootLock' = bootLock \/ (bootLock = r /\ bootLock' = NoReq),
           how = "first" => req[r].pc = "insert",
           x.pc \in {"idle", "lookup", "replace"}, Shaped(x), Access(x)
    PROVE  SessionIInv'
<1>1. PICK k : k = NextKey /\ k \in Keys /\ state[k] = "unused"
  BY NextKeyIs, Zenon DEF SessionIInv
<1>2. how = "first" => bootLock = r /\ \A j \in Stored : kind[j] # "first"
  BY Zenon DEF SessionIInv, Fits, Making
<1>3. /\ KeysOK' /\ RowsOK' /\ Stored' = Stored \cup {k} /\ IdentityKey \subseteq IdentityKey'
      /\ \A j \in Stored : kind'[j] = kind[j]
      /\ kind'[k] = how
      /\ \A y : Shaped(y) /\ Access(y) => Shaped(y)' /\ Access(y)'
  BY <1>1, <1>2, InsertFacts, Zenon
<1>4. PICK R : R = req'
  OBVIOUS
<1>5. R = [q \in Req |-> R[q]] /\ \A q \in Req : R[q] = IF q = r THEN x ELSE req[q]
  BY <1>4, Zenon DEF SessionIInv
<1>6. ASSUME NEW q \in Req PROVE Fits(q, R[q])'
  <2>1. CASE q = r
    <3>1. R[q] = x /\ Making(q, x)'
      BY <1>5, <2>1, Zenon DEF Making
    <3>2. QED
      BY <1>3, <3>1, Zenon DEF Fits
  <2>2. CASE q # r
    <3>1. PICK y : y = req[q] /\ y = R[q] /\ Fits(q, y)
      BY <1>5, <2>2, Zenon DEF SessionIInv
    <3>2. y.pc \in {"exists", "insert"} => bootLock' = q /\ how # "first"
      BY <1>2, <2>2, <3>1, Zenon DEF Fits, Making
    <3>3. Making(q, y)'
      BY <1>3, <3>1, <3>2, Zenon DEF Fits, Making
    <3>4. QED
      BY <1>3, <3>1, <3>3, Zenon DEF Fits
  <2>3. QED
    BY <2>1, <2>2, Zenon
<1>7. granted' \in BOOLEAN /\ bootLock' \in Req \cup {NoReq}
  BY DEF SessionIInv
<1>8. QED
  BY <1>3, <1>4, <1>5, <1>6, <1>7, Assemble, Zenon

\* Keys are made: by a page, in setup, for an identity, and from outside.
LEMMA KeyStep ==
    ASSUME SessionIInv, NEW r \in Req, CreateKey(r) \/ BootstrapInsert(r) \/ KeyUpsert(r)
    PROVE  SessionIInv'
<1>1. PICK y : y = req[r] /\ Fits(r, y)
  BY DEF SessionIInv
<1>2. UNCHANGED <<sess, issued, granted>> /\ issued \in Nat
  BY SessionAssumption DEF CreateKey, BootstrapInsert, KeyUpsert, SessionIInv, RowsOK
<1>3. CASE CreateKey(r)
  <2>1. PICK x : x = NoRequest
    OBVIOUS
  <2>2. x.pc = "idle" /\ Shaped(x) /\ Access(x)
    BY <1>2, <2>1, SessionAssumption DEF Shaped, Access, NoRequest, NewRequest, PCs
  <2>3. /\ req' = [req EXCEPT ![r] = x] /\ Made # Keys /\ Insert(NextKey, "api")
        /\ bootLock' = bootLock
    BY <1>3, <2>1 DEF CreateKey, Done
  <2>4. QED
    BY <1>2, <2>2, <2>3, InsertStep, Zenon
<1>4. ASSUME NEW p \in {"lookup", "replace"}, Made # Keys, y.pc \in {"insert", "upsert"},
             req' = [req EXCEPT ![r].pc = p, ![r].key = NextKey]
      PROVE  \E x : req' = [req EXCEPT ![r] = x] /\ x.pc = p /\ Shaped(x) /\ Access(x)
  <2>1. PICK k : k = NextKey /\ k \in 0..MaxKeys
    BY <1>4, NextKeyIs, SessionAssumption DEF SessionIInv, Keys
  <2>2. PICK z : z = [y EXCEPT !.pc = p]
    BY Zenon
  <2>3. PICK x : x = [z EXCEPT !.key = k]
    BY Zenon
  <2>4. z = [pc |-> p, token |-> y.token, key |-> y.key, ago |-> y.ago, rest |-> y.rest,
             attempt |-> y.attempt, dead |-> y.dead, held |-> y.held, raced |-> y.raced]
    BY <1>1, <2>2 DEF Fits, Shaped
  <2>5. x = [pc |-> p, token |-> y.token, key |-> k, ago |-> y.ago, rest |-> y.rest,
             attempt |-> y.attempt, dead |-> y.dead, held |-> y.held, raced |-> y.raced]
    BY <2>3, <2>4
  <2>6. Shaped(x) /\ x.pc = p /\ x.dead = y.dead
    BY <1>1, <1>4, <2>1, <2>5 DEF Fits, Shaped, PCs
  <2>7. Access(x)
    BY <1>1, <1>4, <2>6 DEF Fits, Access
  <2>8. req' = [req EXCEPT ![r] = x]
    BY <1>1, <1>4, <2>1, <2>2, <2>3, Zenon DEF SessionIInv
  <2>9. QED
    BY <2>6, <2>7, <2>8, Zenon
<1>5. CASE BootstrapInsert(r)
  <2>1. /\ y.pc = "insert" /\ Made # Keys /\ Insert(NextKey, "first") /\ bootLock' = NoReq
        /\ req' = [req EXCEPT ![r].pc = "lookup", ![r].key = NextKey]
    BY <1>1, <1>5 DEF BootstrapInsert
  <2>2. bootLock = r
    BY <1>1, <2>1 DEF Fits, Making
  <2>3. PICK x : req' = [req EXCEPT ![r] = x] /\ x.pc = "lookup" /\ Shaped(x) /\ Access(x)
    BY <1>4, <2>1, Zenon
  <2>4. QED
    BY <1>1, <1>2, <2>1, <2>2, <2>3, InsertStep, Zenon
<1>6. CASE KeyUpsert(r) /\ IdentityKey = {}
  <2>1. /\ y.pc = "upsert" /\ Made # Keys /\ Insert(NextKey, "identity") /\ bootLock' = bootLock
        /\ req' = [req EXCEPT ![r].pc = "replace", ![r].key = NextKey]
    BY <1>1, <1>6 DEF KeyUpsert
  <2>2. PICK x : req' = [req EXCEPT ![r] = x] /\ x.pc = "replace" /\ Shaped(x) /\ Access(x)
    BY <1>4, <2>1, Zenon
  <2>3. QED
    BY <1>2, <2>1, <2>2, InsertStep, Zenon
<1>7. CASE KeyUpsert(r) /\ IdentityKey # {}
  <2>1. y.pc = "upsert" /\ UNCHANGED <<table, sess, issued, bootLock, granted>>
    BY <1>1, <1>7 DEF KeyUpsert
  <2>2. CASE Done(r)
    BY <2>1, <2>2, DoneStep
  <2>3. ASSUME NEW p \in {"replace", "norows"}, Goto(r, p), p = "norows" => y.raced
        PROVE  SessionIInv'
    <3> DEFINE x == [y EXCEPT !.pc = p]
    <3>1. Shaped(x) /\ x.pc = p /\ x.dead = y.dead /\ x.raced = y.raced
      <4>1. Shaped(y) /\ p \in PCs /\ p \notin {"get", "verify", "drop", "refresh", "authed"}
        BY <1>1, <2>3 DEF Fits, PCs
      <4>2. QED
        BY <4>1, Moved
    <3>2. req' = [req EXCEPT ![r] = x]
      BY <1>1, <2>3 DEF Goto
    <3> HIDE DEF x
    <3>3. Access(x) /\ Making(r, x)
      BY <1>1, <2>1, <2>3, <3>1, Zenon DEF Fits, Access, Making
    <3>4. QED
      BY <2>1, <3>1, <3>2, <3>3, QuietStep, Zenon DEF Fits
  <2>4. CASE req' = [req EXCEPT ![r].pc = "snapshot", ![r].attempt = 1]
    <3>1. PICK z : z = [y EXCEPT !.pc = "snapshot"]
      BY Zenon
    <3>2. PICK x : x = [z EXCEPT !.attempt = 1]
      BY Zenon
    <3>3. z = [pc |-> "snapshot", token |-> y.token, key |-> y.key, ago |-> y.ago, rest |-> y.rest,
               attempt |-> y.attempt, dead |-> y.dead, held |-> y.held, raced |-> y.raced]
      BY <1>1, <3>1 DEF Fits, Shaped
    <3>4. x = [pc |-> "snapshot", token |-> y.token, key |-> y.key, ago |-> y.ago, rest |-> y.rest,
               attempt |-> 1, dead |-> y.dead, held |-> y.held, raced |-> y.raced]
      BY <3>2, <3>3
    <3>5. Shaped(x) /\ x.pc = "snapshot" /\ x.dead = y.dead
      BY <1>1, <3>4, Zenon DEF Fits, Shaped, PCs
    <3>6. Access(x) /\ Making(r, x)
      BY <1>1, <1>7, <2>1, <3>5, Zenon DEF Fits, Access, Making
    <3>7. req' = [req EXCEPT ![r] = x]
      BY <1>1, <2>4, <3>1, <3>2, Zenon DEF SessionIInv
    <3>8. QED
      BY <2>1, <3>5, <3>6, <3>7, QuietStep, Zenon DEF Fits
  <2>5. y.key = 0 /\ ~MayRetry(y.attempt) => y.raced
    BY <1>1, <2>1, Zenon DEF Fits, Making, Shaped, MayRetry
  <2>6. \/ Done(r) \/ Goto(r, "replace")
        \/ req' = [req EXCEPT ![r].pc = "snapshot", ![r].attempt = 1]
        \/ y.key = 0 /\ ~MayRetry(y.attempt) /\ Goto(r, "norows")
    BY <1>1, <1>7, Zenon DEF KeyUpsert
  <2>7. QED
    BY <2>2, <2>3, <2>4, <2>5, <2>6
<1>8. QED
  BY <1>3, <1>5, <1>6, <1>7, Zenon

\* create-key inserts a key while requests run.
LEMMA OtherCreatesStep ==
    ASSUME SessionIInv, OtherCreates
    PROVE  SessionIInv'
<1>1. PICK k : k = NextKey /\ k \in Keys /\ state[k] = "unused"
  BY NextKeyIs DEF SessionIInv, OtherCreates
<1>2. Insert(k, "api") /\ UNCHANGED <<sess, issued, req, bootLock, granted>>
  BY <1>1, Zenon DEF OtherCreates
<1>3. /\ KeysOK' /\ RowsOK' /\ Stored' = Stored \cup {k} /\ IdentityKey \subseteq IdentityKey'
      /\ \A j \in Stored : kind'[j] = kind[j]
      /\ kind'[k] = "api"
      /\ \A y : Shaped(y) /\ Access(y) => Shaped(y)' /\ Access(y)'
  BY <1>1, <1>2, InsertFacts, Zenon
<1>4. PICK R : R = req' /\ R = req /\ R = [q \in Req |-> R[q]]
  BY <1>2, Zenon DEF SessionIInv
<1>5. ASSUME NEW q \in Req PROVE Fits(q, R[q])'
  <2>1. PICK y : y = R[q] /\ Fits(q, y)
    BY <1>4, Zenon DEF SessionIInv
  <2>2. Making(q, y)'
    BY <1>2, <1>3, <2>1 DEF Fits, Making
  <2>3. QED
    BY <1>3, <2>1, <2>2, Zenon DEF Fits
<1>6. granted' \in BOOLEAN /\ bootLock' \in Req \cup {NoReq}
  BY <1>2, Zenon DEF SessionIInv
<1>7. QED
  BY <1>3, <1>4, <1>5, <1>6, Assemble

-----------------------------------------------------------------------------
\* A key is deleted, and its sessions with it.
LEMMA RemoveFacts ==
    ASSUME SessionIInv, NEW k \in Stored, Remove(k), UNCHANGED <<issued, granted>>
    PROVE  /\ KeysOK' /\ RowsOK' /\ Stored' = Stored \ {k}
           /\ \A j \in Stored' : kind'[j] = kind[j]
           /\ \A y : Shaped(y) /\ Access(y) => Shaped(y)' /\ Access(y)'
<1>1. KeysOK /\ RowsOK /\ k \in Keys
  BY DEF SessionIInv, Stored
<1>2. /\ kind' \in [Keys -> {"api", "first", "identity"}]
      /\ state' \in [Keys -> {"unused", "on", "off", "gone"}]
      /\ state'[k] = "gone"
      /\ \A j \in Keys : j # k => kind'[j] = kind[j] /\ state'[j] = state[j]
  BY <1>1, Zenon DEF Remove, KeysOK
<1>3. Stored' = Stored \ {k}
  BY <1>2, Zenon DEF Stored
<1>4. \A j \in Stored' : j \in Keys /\ j \in Stored /\ kind'[j] = kind[j] /\ state'[j] = state[j]
  BY <1>2, <1>3, Zenon DEF Stored
<1>5. KeysOK'
  BY <1>1, <1>2, <1>4, Zenon DEF KeysOK
<1>6. /\ sess' = [t \in Tokens |-> sess'[t]]
      /\ \A t \in Tokens : \/ sess'[t] = NoRow
                           \/ sess'[t] = sess[t] /\ sess[t].key # k
  BY DEF Remove, Open
<1>7. \A t \in Tokens : sess'[t] # NoRow => t <= issued /\ sess[t].key \in Stored'
  BY <1>1, <1>3, <1>6, Zenon DEF RowsOK, Open
<1>8. RowsOK'
  BY <1>1, <1>6, <1>7 DEF RowsOK, Open, Lasts
<1>9. ASSUME NEW y, Shaped(y), Access(y) PROVE Shaped(y)' /\ Access(y)'
  <2>1. Shaped(y)'
    BY <1>9, Zenon DEF Shaped
  <2>2. CASE y.pc \notin {"get", "verify", "drop", "refresh", "authed"}
    BY <1>9, <2>1, <2>2, Zenon DEF Access
  <2>3. CASE y.pc \in {"get", "verify", "drop", "refresh", "authed"}
    <3>1. y.token \in Tokens
      BY <1>1, <1>9, <2>3, SessionAssumption DEF Shaped, RowsOK, Tokens
    <3>2. \/ sess'[y.token] = NoRow
          \/ /\ sess'[y.token] = sess[y.token] /\ sess[y.token] # NoRow
             /\ kind'[sess[y.token].key] = kind[sess[y.token].key]
             /\ state'[sess[y.token].key] = state[sess[y.token].key]
      BY <1>4, <1>6, <1>7, <3>1, Zenon
    <3>3. (Over(y) => Over(y)') /\ (Identity(y.token)' => Identity(y.token))
      BY <3>2 DEF Over, Identity
    <3>4. QED
      BY <1>9, <2>1, <3>2, <3>3, Zenon DEF Access
  <2>4. QED
    BY <2>2, <2>3, Zenon
<1>10. QED
  BY <1>3, <1>4, <1>5, <1>8, <1>9, Zenon

\* Deleting a key, from a page or from outside, while requests run.
LEMMA RemoveStep ==
    ASSUME SessionIInv, NEW k \in Stored, Remove(k), UNCHANGED <<issued, bootLock, granted>>,
           NEW R, req' = R, R = [q \in Req |-> R[q]],
           \A q \in Req : \/ R[q] = NoRequest
                          \/ R[q] = [req[q] EXCEPT !.raced = req[q].raced \/ Raced(q, k)]
    PROVE  SessionIInv'
<1>1. /\ KeysOK' /\ RowsOK' /\ Stored' = Stored \ {k}
      /\ \A j \in Stored' : kind'[j] = kind[j]
      /\ \A y : Shaped(y) /\ Access(y) => Shaped(y)' /\ Access(y)'
  BY RemoveFacts
<1>2. issued \in Nat /\ granted' \in BOOLEAN /\ bootLock' \in Req \cup {NoReq}
  BY SessionAssumption DEF SessionIInv, RowsOK
<1>3. ASSUME NEW q \in Req PROVE Fits(q, R[q])'
  <2>1. CASE R[q] = NoRequest
    <3>1. PICK x : x = NoRequest
      OBVIOUS
    <3>2. Fits(q, x)'
      BY <1>2, <3>1, SessionAssumption DEF Fits, Shaped, Access, Making, NoRequest, NewRequest, PCs
    <3>3. QED
      BY <2>1, <3>1, <3>2, Zenon
  <2>2. CASE R[q] = [req[q] EXCEPT !.raced = req[q].raced \/ Raced(q, k)]
    <3>1. PICK y : y = req[q] /\ Fits(q, y)
      BY DEF SessionIInv
    <3>2. PICK b : b = (y.raced \/ Raced(q, k))
      OBVIOUS
    <3>3. (y.raced => b) /\ (kind[k] = "identity" /\ y.pc = "snapshot" => b)
      BY <3>1, <3>2, Zenon DEF Raced, SigningIn
    <3>4. PICK x : x = [y EXCEPT !.raced = b]
      BY Zenon
    <3>5. x = [pc |-> y.pc, token |-> y.token, key |-> y.key, ago |-> y.ago, rest |-> y.rest,
               attempt |-> y.attempt, dead |-> y.dead, held |-> y.held, raced |-> b]
      BY <3>1, <3>4 DEF Fits, Shaped
    <3>6. R[q] = x
      BY <2>2, <3>1, <3>2, <3>4, Zenon
    <3>7. /\ x.pc = y.pc /\ x.token = y.token /\ x.key = y.key /\ x.ago = y.ago /\ x.rest = y.rest
          /\ x.attempt = y.attempt /\ x.dead = y.dead /\ x.held = y.held /\ x.raced = b
      BY <3>5, Zenon
    <3>8. Shaped(x) /\ Access(x)
      BY <3>1, <3>5, <3>7, Zenon DEF Fits, Shaped, Access, Over
    <3>9. IdentityKey # {} => IdentityKey' # {} \/ kind[k] = "identity"
      BY <1>1, Zenon DEF IdentityKey
    <3>10. Making(q, x)'
      BY <1>1, <3>1, <3>3, <3>7, <3>9, ZenonT(40) DEF Fits, Making
    <3>11. QED
      BY <1>1, <3>6, <3>8, <3>10, Zenon DEF Fits
  <2>3. QED
    BY <2>1, <2>2
<1>4. QED
  BY <1>1, <1>2, <1>3, Assemble, Zenon

\* Both ways to delete a key.
LEMMA DeleteStep ==
    ASSUME SessionIInv, NEW k \in Keys, OtherDeletes(k) \/ \E r \in Req : RevokeKey(r, k)
    PROVE  SessionIInv'
<1>1. k \in Stored /\ Remove(k) /\ UNCHANGED <<issued, bootLock, granted>>
  BY DEF OtherDeletes, RevokeKey
<1>2. PICK R : R = req'
  OBVIOUS
<1>3. /\ R = [q \in Req |-> R[q]]
      /\ \A q \in Req : \/ R[q] = NoRequest
                        \/ R[q] = [req[q] EXCEPT !.raced = req[q].raced \/ Raced(q, k)]
  BY <1>2 DEF OtherDeletes, RevokeKey
<1>4. QED
  BY <1>1, <1>2, <1>3, RemoveStep

\* An operator disables a key; the grant of the login changes.
LEMMA AroundStep ==
    ASSUME SessionIInv, PolicyChanges \/ \E k \in Keys : OperatorDisables(k)
    PROVE  SessionIInv'
<1>1. KeysOK /\ RowsOK /\ issued \in Nat /\ granted \in BOOLEAN
  BY SessionAssumption DEF SessionIInv, RowsOK
<1>2. ASSUME NEW k \in Keys, OperatorDisables(k) PROVE SessionIInv'
  <2>1. UNCHANGED <<kind, sess, issued, req, bootLock, granted>>
    BY <1>2, Zenon DEF OperatorDisables
  <2>2. /\ state' \in [Keys -> {"unused", "on", "off", "gone"}] /\ state'[k] = "off" /\ state[k] = "on"
        /\ \A j \in Keys : j # k => state'[j] = state[j]
    BY <1>1, <1>2, Zenon DEF OperatorDisables, KeysOK
  <2>3. Stored' = Stored
    BY <1>2, <2>2, Zenon DEF Stored
  <2>4. KeysOK' /\ RowsOK'
    BY <1>1, <2>1, <2>2, <2>3 DEF KeysOK, RowsOK, Open, Lasts
  <2>5. PICK R : R = req' /\ R = req /\ R = [q \in Req |-> R[q]]
    BY <2>1 DEF SessionIInv
  <2>6. ASSUME NEW q \in Req PROVE Fits(q, R[q])'
    <3>1. PICK y : y = R[q] /\ Fits(q, y)
      BY <2>5, Zenon DEF SessionIInv
    <3>2. Making(q, y)' /\ Shaped(y)'
      BY <2>1, <2>3, <3>1, Zenon DEF Fits, Making, Shaped, IdentityKey
    <3>3. y.pc \in {"get", "verify", "drop", "refresh", "authed"} => y.token \in Tokens
      BY <1>1, <3>1, SessionAssumption DEF Fits, Shaped, RowsOK, Tokens
    <3>4. y.pc = "get" /\ sess[y.token] # NoRow => sess[y.token].key \in Keys
      BY <1>1, <3>3, Zenon DEF RowsOK, Lasts
    <3>5. y.pc = "get" /\ Over(y) => Over(y)'
      BY <2>1, <2>2, <3>4, Zenon DEF Over
    <3>6. Access(y)'
      BY <2>1, <3>1, <3>5, Zenon DEF Fits, Access, Identity
    <3>7. QED
      BY <3>1, <3>2, <3>6, Zenon DEF Fits
  <2>7. granted' \in BOOLEAN /\ bootLock' \in Req \cup {NoReq}
    BY <2>1 DEF SessionIInv
  <2>8. QED
    BY <2>4, <2>5, <2>6, <2>7, Assemble, Zenon
<1>3. CASE PolicyChanges
  <2>1. UNCHANGED <<kind, state, sess, issued, bootLock>> /\ granted' \in BOOLEAN
    BY <1>1, <1>3, Zenon DEF PolicyChanges, table
  <2>2. KeysOK' /\ RowsOK' /\ bootLock' \in Req \cup {NoReq}
    BY <2>1 DEF SessionIInv, KeysOK, RowsOK, Stored, Open, Lasts
  <2>3. PICK R : R = req'
    OBVIOUS
  <2>4. PICK g : g = granted'
    OBVIOUS
  <2>5. /\ R = [q \in Req |-> R[q]]
        /\ \A q \in Req : R[q] = IF req[q].pc \in {"get", "verify"}
                                 THEN [req[q] EXCEPT !.held = req[q].held \/ g] ELSE req[q]
    BY <1>3, <2>3, <2>4, Zenon DEF PolicyChanges
  <2>6. ASSUME NEW q \in Req PROVE Fits(q, R[q])'
    <3>1. PICK y : y = req[q] /\ Fits(q, y)
      BY DEF SessionIInv
    <3>2. CASE y.pc \notin {"get", "verify"}
      <4>1. R[q] = y
        BY <2>5, <3>1, <3>2, Zenon
      <4>2. Fits(q, y)'
        BY <2>1, <3>1, <3>2, Zenon DEF Fits, Shaped, Access, Making, IdentityKey, Stored, Over, Identity
      <4>3. QED
        BY <4>1, <4>2
    <3>3. CASE y.pc \in {"get", "verify"}
      <4>1. PICK b : b = (y.held \/ g)
        OBVIOUS
      <4>2. granted' => b
        BY <2>4, <4>1, Zenon
      <4>3. PICK x : x = [y EXCEPT !.held = b]
        BY Zenon
      <4>4. x = [pc |-> y.pc, token |-> y.token, key |-> y.key, ago |-> y.ago, rest |-> y.rest,
                 attempt |-> y.attempt, dead |-> y.dead, held |-> b, raced |-> y.raced]
        BY <3>1, <4>3 DEF Fits, Shaped
      <4>5. R[q] = x
        BY <2>5, <3>1, <3>3, <4>1, <4>3, Zenon
      <4>6. /\ x.pc = y.pc /\ x.token = y.token /\ x.ago = y.ago /\ x.rest = y.rest
            /\ x.dead = y.dead /\ x.held = b
        BY <4>4, Zenon
      <4>7. Shaped(x)'
        BY <2>1, <3>1, <4>4, <4>6, Zenon DEF Fits, Shaped
      <4>8. Over(y) => Over(x)'
        BY <2>1, <4>6, Zenon DEF Over
      <4>9. Access(x)' /\ Making(q, x)'
        BY <2>1, <3>1, <3>3, <4>2, <4>6, <4>8, Zenon DEF Fits, Access, Making
      <4>10. QED
        BY <4>5, <4>7, <4>9 DEF Fits
    <3>4. QED
      BY <3>2, <3>3, Zenon
  <2>7. QED
    BY <2>1, <2>2, <2>3, <2>5, <2>6, Assemble, Zenon
<1>4. QED
  BY <1>2, <1>3, Zenon

-----------------------------------------------------------------------------
\* Time passes for a session row.
LEMMA OlderRow ==
    ASSUME NEW row, Lasts(row), row # NoRow, NEW n, n = Older(row)
    PROVE  /\ Lasts(n) /\ n # NoRow /\ n.key = row.key /\ n.left \in Int /\ n.limit \in Int
           /\ row.left \in Int /\ row.limit \in Int
           /\ \/ row.left = -Slack /\ n.left = row.left /\ n.limit = row.limit
              \/ row.left > -Slack /\ n.left = row.left - 1 /\ n.limit = row.limit - 1
<1>1. /\ row \in [key : Keys, left : Int, limit : Int, age : Nat, idle : Nat]
      /\ -Slack <= row.left /\ row.left <= row.limit /\ row.limit + row.age = AbsoluteTTL
      /\ 2 * (row.left + row.idle) >= IdleTTL \/ row.left = row.limit
  BY DEF Lasts
<1>2. CASE row.left = -Slack
  BY <1>1, <1>2, Zenon DEF Older
<1>3. CASE row.left # -Slack
  <2>1. n = [key |-> row.key, left |-> row.left - 1, limit |-> row.limit - 1, age |-> row.age + 1,
             idle |-> AtMost(row.idle + 1, IdleTTL + Slack)]
    BY <1>1, <1>3, Zenon DEF Older
  <2>2. AtMost(row.idle + 1, IdleTTL + Slack) \in {row.idle + 1, IdleTTL + Slack}
    BY DEF AtMost
  <2>3. -Slack < row.left
    BY <1>1, <1>3, SessionAssumption
  <2>4. n \in [key : Keys, left : Int, limit : Int, age : Nat, idle : Nat] /\ n.key # 0
    BY <1>1, <2>1, <2>2, SessionAssumption DEF Keys
  <2>5. 2 * (n.left + n.idle) >= IdleTTL \/ n.left = n.limit
    BY <1>1, <2>1, <2>2, <2>3, SessionAssumption
  <2>6. Lasts(n) /\ n # NoRow
    BY <1>1, <2>1, <2>3, <2>4, <2>5, SessionAssumption DEF Lasts, NoRow
  <2>7. QED
    BY <1>1, <2>1, <2>3, <2>6
<1>4. QED
  BY <1>2, <1>3, Zenon

\* Time passes.
LEMMA TickStep ==
    ASSUME SessionIInv, Tick
    PROVE  SessionIInv'
<1>1. KeysOK /\ RowsOK /\ UNCHANGED <<kind, state, issued, bootLock, granted>>
  BY DEF SessionIInv, Tick, table
<1>2. sess' = [t \in Tokens |-> sess'[t]]
  BY Zenon DEF Tick
<1>3. ASSUME NEW t \in Tokens
      PROVE  /\ sess[t] = NoRow => sess'[t] = NoRow
             /\ sess[t] # NoRow =>
                  /\ Lasts(sess'[t]) /\ sess'[t] # NoRow /\ sess'[t].key = sess[t].key
                  /\ sess[t].left \in Int /\ sess[t].limit \in Int
                  /\ \/ sess[t].left = -Slack /\ sess'[t].left = sess[t].left /\ sess'[t].limit = sess[t].limit
                     \/ /\ sess[t].left > -Slack /\ sess'[t].left = sess[t].left - 1
                        /\ sess'[t].limit = sess[t].limit - 1
  <2>1. CASE sess[t] = NoRow
    BY <2>1, Zenon DEF Tick, Open
  <2>2. CASE sess[t] # NoRow
    <3>1. PICK row, n : row = sess[t] /\ n = Older(row) /\ Lasts(row)
      BY <1>1 DEF RowsOK
    <3>2. sess'[t] = n
      BY <2>2, <3>1, Zenon DEF Tick, Open
    <3>3. QED
      BY <2>2, <3>1, <3>2, OlderRow, ZenonT(40)
  <2>3. QED
    BY <2>1, <2>2, Zenon
<1>4. Open' = Open /\ Stored' = Stored
  BY <1>1, <1>3, Zenon DEF Open, Stored
<1>5. KeysOK'
  BY <1>1, <1>4, Zenon DEF KeysOK
<1>6. RowsOK'
  <2>1. \A t \in Tokens : Lasts(sess'[t])
    BY <1>3, Zenon DEF Lasts
  <2>2. \A t \in Open : t \in Tokens /\ sess'[t].key = sess[t].key
    BY <1>3 DEF Open
  <2>3. QED
    BY <1>1, <1>2, <1>4, <2>1, <2>2, Zenon DEF RowsOK, Lasts
<1>7. PICK R : R = req'
  OBVIOUS
<1>8. /\ R = [q \in Req |-> R[q]]
      /\ \A q \in Req : R[q] = IF req[q].pc \in TimedPC THEN [req[q] EXCEPT !.ago = req[q].ago + 1] ELSE req[q]
  BY <1>7 DEF Tick
<1>9. ASSUME NEW q \in Req PROVE Fits(q, R[q])'
  <2>1. PICK y : y = req[q] /\ Fits(q, y)
    BY DEF SessionIInv
  <2>2. PICK t : t = y.token
    BY Zenon
  <2>3. y.pc \in {"get", "verify", "drop", "refresh", "authed"} => t \in Tokens
    BY <1>1, <2>1, <2>2, SessionAssumption DEF Fits, Shaped, RowsOK, Tokens
  <2>4. y.pc \in {"refresh", "authed"} /\ Identity(t)' => Identity(t)
    BY <1>1, <1>3, <2>3, Zenon DEF Identity
  <2>5. ASSUME NEW x, x.pc = y.pc, x.key = y.key, x.attempt = y.attempt, x.raced = y.raced
        PROVE  Making(q, x)'
    BY <1>1, <1>4, <2>1, <2>5, Zenon DEF Fits, Making, IdentityKey
  <2>6. CASE y.pc \notin TimedPC
    <3>1. R[q] = y
      BY <1>8, <2>1, <2>6, Zenon
    <3>2. Shaped(y)' /\ Making(q, y)'
      BY <1>1, <2>1, <2>5, Zenon DEF Fits, Shaped
    <3>3. Access(y)'
      BY <1>1, <2>1, <2>2, <2>4, <2>6, Zenon DEF Fits, Access, TimedPC
    <3>4. QED
      BY <3>1, <3>2, <3>3 DEF Fits
  <2>7. CASE y.pc \in TimedPC
    <3>1. y.ago \in 0..Slack /\ y.ago < Slack
      BY <2>1, <2>7 DEF Tick, Fits, Shaped
    <3>2. PICK x : x = [y EXCEPT !.ago = y.ago + 1]
      BY Zenon
    <3>3. x = [pc |-> y.pc, token |-> y.token, key |-> y.key, ago |-> y.ago + 1, rest |-> y.rest,
               attempt |-> y.attempt, dead |-> y.dead, held |-> y.held, raced |-> y.raced]
      BY <2>1, <3>2 DEF Fits, Shaped
    <3>4. R[q] = x
      BY <1>8, <2>1, <2>7, <3>2, Zenon
    <3>5. /\ x.pc = y.pc /\ x.token = t /\ x.key = y.key /\ x.ago = y.ago + 1 /\ x.rest = y.rest
          /\ x.attempt = y.attempt /\ x.dead = y.dead /\ x.held = y.held /\ x.raced = y.raced
      BY <2>2, <3>3
    <3>6. Shaped(x)'
      <4>1. x.ago \in 0..Slack
        BY <3>1, <3>5, SessionAssumption
      <4>2. x = [pc |-> x.pc, token |-> x.token, key |-> x.key, ago |-> x.ago, rest |-> x.rest,
                 attempt |-> x.attempt, dead |-> x.dead, held |-> x.held, raced |-> x.raced]
        BY <3>3, Zenon
      <4>3. Shaped(y) /\ x.token = y.token
        BY <2>1, <3>3, Zenon DEF Fits
      <4>4. QED
        BY <1>1, <3>5, <4>1, <4>2, <4>3, Zenon DEF Shaped
    <3>7. y.pc = "get" /\ Over(y) => Over(x)'
      <4> SUFFICES ASSUME y.pc = "get", Over(y), sess'[t] # NoRow, state[sess'[t].key] = "on"
                   PROVE  sess'[t].limit + x.ago <= 0 \/ sess'[t].left <= -Slack
        BY <1>1, <3>5, Zenon DEF Over
      <4>1. sess[t] # NoRow /\ sess'[t].key = sess[t].key
        BY <1>3, <2>3, Zenon
      <4>2. sess[t].limit + y.ago <= 0 \/ sess[t].left <= -Slack
        BY <2>2, <4>1, Zenon DEF Over
      <4>3. QED
        BY <1>3, <2>3, <3>1, <3>5, <4>1, <4>2, SessionAssumption
    <3>8. y.pc = "verify" /\ sess'[t] # NoRow /\ 2 * x.rest > IdleTTL =>
             2 * (sess'[t].left + x.ago) >= IdleTTL \/ sess'[t].left = sess'[t].limit
      <4> SUFFICES ASSUME y.pc = "verify", sess'[t] # NoRow, 2 * x.rest > IdleTTL
                   PROVE  2 * (sess'[t].left + x.ago) >= IdleTTL \/ sess'[t].left = sess'[t].limit
        BY Zenon
      <4>1. 2 * (sess[t].left + y.ago) >= IdleTTL \/ sess[t].left = sess[t].limit
        BY <1>3, <2>1, <2>2, <2>3, <3>5, Zenon DEF Fits, Access
      <4>2. QED
        BY <1>3, <2>3, <3>1, <3>5, <4>1, SessionAssumption
    <3>9. Access(x)'
      BY <1>1, <2>1, <2>2, <2>4, <3>5, <3>7, <3>8, Zenon DEF Fits, Access
    <3>10. Making(q, x)'
      BY <2>5, <3>5, Zenon
    <3>11. QED
      BY <3>4, <3>6, <3>9, <3>10, Zenon DEF Fits
  <2>8. QED
    BY <2>6, <2>7
<1>10. granted' \in BOOLEAN /\ bootLock' \in Req \cup {NoReq}
  BY <1>1 DEF SessionIInv
<1>11. QED
  BY <1>5, <1>6, <1>7, <1>8, <1>9, <1>10, Assemble, Zenon

\* Every step keeps the invariant.
LEMMA SessionStep ==
    ASSUME SessionIInv, [SessionNext]_sessionVars
    PROVE  SessionIInv'
<1>1. ASSUME NEW r \in Req, Step(r) PROVE SessionIInv'
  BY <1>1, NoteStep, CloseStep, CreateStep, AuthStep, MoveStep, KeyStep, DeleteStep, BootStep, Zenon DEF Step
<1>2. ASSUME NEW r \in Req, NEW t \in 0..MaxTokens, Arrive(r, t) PROVE SessionIInv'
  BY <1>2, ArriveStep
<1>3. CASE Around
  BY <1>3, OtherCreatesStep, DeleteStep, AroundStep, Zenon DEF Around
<1>4. CASE Tick
  BY <1>4, TickStep, Zenon
<1>5. CASE UNCHANGED sessionVars
  <2>1. UNCHANGED <<kind, state, sess, issued, req, bootLock, granted>>
    BY <1>5, Zenon DEF sessionVars, table
  <2>2. PICK R : R = req' /\ R = req /\ R = [q \in Req |-> R[q]]
    BY <2>1 DEF SessionIInv
  <2>3. ASSUME NEW q \in Req PROVE Fits(q, R[q])'
    <3>1. PICK y : y = R[q] /\ Fits(q, y)
      BY <2>2, Zenon DEF SessionIInv
    <3>2. Fits(q, y)'
      BY <2>1, <3>1, Zenon DEF Fits, Shaped, Access, Making, IdentityKey, Stored, Over, Identity
    <3>3. QED
      BY <3>1, <3>2
  <2>4. KeysOK' /\ RowsOK' /\ granted' \in BOOLEAN /\ bootLock' \in Req \cup {NoReq}
    BY <2>1, Zenon DEF SessionIInv, KeysOK, RowsOK, Stored, Open, Lasts
  <2>5. QED
    BY <2>2, <2>3, <2>4, Assemble, Zenon
<1>6. QED
  BY <1>1, <1>2, <1>3, <1>4, <1>5, Zenon DEF SessionNext, Requests

\* The invariant holds at the start.
LEMMA SessionStart ==
    ASSUME SessionInit
    PROVE  SessionIInv
<1>1. KeysOK
  <2>1. kind = [k \in Keys |-> "api"]
    BY DEF SessionInit
  <2>2. state \in [Keys -> {"unused", "on", "off", "gone"}]
    BY DEF SessionInit
  <2>3. \A k \in Stored : kind[k] # "first"
    BY <2>1, Zenon DEF Stored
  <2>4. QED
    BY <2>1, <2>2, <2>3, Zenon DEF KeysOK
<1>2. RowsOK
  BY SessionAssumption DEF SessionInit, RowsOK, Open, Lasts
<1>3. \A r \in Req : Fits(r, req[r])
  <2>1. issued \in Nat /\ \A r \in Req : req[r] = NoRequest
    BY DEF SessionInit
  <2>2. QED
    BY <2>1, OverAndDone, Zenon
<1>4. QED
  BY <1>1, <1>2, <1>3, Zenon DEF SessionIInv, SessionInit

\* The invariant holds in every state.
THEOREM SessionInvariance == SessionSpec => []SessionIInv
  BY SessionStart, SessionStep, PTL DEF SessionSpec

\* Whatever other requests of the session are in flight, whatever keys are made,
\* disabled or deleted and however time passes, a request that begins after its
\* session ended is not authenticated, nor one without its identity's grant.
THEOREM EndedIsFinal == SessionSpec => []EndedStaysEnded
<1>1. SessionIInv => EndedStaysEnded
  BY Zenon DEF SessionIInv, EndedStaysEnded, Fits, Access, Identity, Open
<1>2. QED
  BY <1>1, SessionInvariance, PTL

\* For any lifetimes the handler accepts, a session lasts as long as it should
\* and no longer.
THEOREM LastsAsLong == SessionSpec => []LifetimeKept
<1>1. SessionIInv => LifetimeKept
  <2> SUFFICES ASSUME SessionIInv, NEW t \in Open
               PROVE  /\ sess[t].left <= AbsoluteTTL - sess[t].age
                      /\ \/ 2 * (sess[t].left + sess[t].idle) >= IdleTTL
                         \/ sess[t].left = AbsoluteTTL - sess[t].age
    BY Zenon DEF LifetimeKept
  <2>1. Lasts(sess[t]) /\ sess[t] # NoRow
    BY Zenon DEF SessionIInv, RowsOK, Open
  <2>2. QED
    BY <2>1, SessionAssumption DEF Lasts
<1>2. QED
  BY <1>1, SessionInvariance, PTL

\* However many setups and sign-ins run at once, one first key is stored, and a
\* sign-in ends without a key only when that was deleted meanwhile.
THEOREM OneKeyMade == SessionSpec => []OneKeyEach
<1>1. SessionIInv => OneKeyEach
  <2> SUFFICES ASSUME SessionIInv PROVE OneKeyEach
    OBVIOUS
  <2> DEFINE S == {k \in Stored : kind[k] = "first"}
  <2>1. \A j, k \in S : j = k
    BY DEF SessionIInv, KeysOK
  <2>2. Cardinality(S) <= 1
    <3> HIDE DEF S
    <3>1. CASE S = {}
      BY <3>1, FS_EmptySet
    <3>2. CASE S # {}
      <4>1. PICK k \in S : S = {k}
        BY <2>1, <3>2, Zenon
      <4>2. Cardinality({k}) = 1
        BY FS_Singleton, Zenon
      <4>3. QED
        BY <4>1, <4>2
    <3>3. QED
      BY <3>1, <3>2
  <2>3. \A r \in Req : req[r].pc = "norows" => req[r].raced
    BY Zenon DEF SessionIInv, Fits, Making
  <2>4. QED
    BY <2>2, <2>3 DEF OneKeyEach
<1>2. QED
  BY <1>1, SessionInvariance, PTL

\* Keys, sessions and tokens have their types, every session row refers to a
\* stored key and none expires after its absolute limit.
THEOREM SessionTypes == SessionSpec => []SessionTypeOK
<1>1. SessionIInv => SessionTypeOK
  <2> SUFFICES ASSUME SessionIInv PROVE SessionTypeOK
    OBVIOUS
  <2>1. \A t \in Open : t \in Nat /\ t >= 1 /\ t <= issued /\ sess[t].key \in Stored /\ sess[t].left <= sess[t].limit
    BY SessionAssumption DEF SessionIInv, RowsOK, Open, Tokens, Lasts
  <2>2. QED
    BY <2>1, SessionAssumption DEF SessionIInv, KeysOK, RowsOK, SessionTypeOK
<1>2. QED
  BY <1>1, SessionInvariance, PTL

=============================================================================
