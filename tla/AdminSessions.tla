--------------------------- MODULE AdminSessions ---------------------------
(***************************************************************************)
(* Sign-in to the admin UI: API keys, the first key of an installation,    *)
(* keys made for a Tailscale identity, and the sessions opened with them.  *)
(* Requests run concurrently; each of their statements is one step.        *)
(*                                                                         *)
(* There is one namespace and one Tailscale login.  A request presents any *)
(* session token that was ever issued, so cookies need no state.  A form   *)
(* whose CSRF token is wrong does what a page view does.                   *)
(*                                                                         *)
(* Time is relative: a session has time left and has existed, and been     *)
(* idle, for some time; a request read the clock some time ago.            *)
(***************************************************************************)
EXTENDS Integers, FiniteSets

CONSTANTS Req,            \* concurrent requests
          NoReq,
          IdleTTL,        \* ADMIN_SESSION_TTL
          AbsoluteTTL,    \* ADMIN_SESSION_ABSOLUTE_TTL
          Slack,          \* longest time from reading the clock to the last statement
          MaxKeys, MaxTokens    \* bounds

\* NewHandler checks the TTLs.  Statements and WhoIs time out, in seconds.
ASSUME SessionAssumption ==
    /\ IdleTTL \in Nat \ {0} /\ AbsoluteTTL \in Nat /\ IdleTTL <= AbsoluteTTL
    /\ Slack \in Nat /\ 2 * Slack <= IdleTTL
    /\ MaxKeys \in Nat \ {0} /\ MaxTokens \in Nat \ {0} /\ NoReq \notin Req

VARIABLES kind, state,    \* api_keys: how each key was made, and whether it is stored
          sess,           \* admin_sessions, by token
          issued,         \* tokens 1..issued have been handed out
          req,            \* what each request is doing
          bootLock,       \* holder of adminBootstrapLockKey
          granted         \* the tailnet policy grants the login the namespace

table == <<kind, state>>
sessionVars == <<table, sess, issued, req, bootLock, granted>>

Keys == 1..MaxKeys
Tokens == 1..MaxTokens
Stored == {k \in Keys : state[k] \in {"on", "off"}}
Made == {k \in Keys : state[k] # "unused"}
NextKey == CHOOSE k \in Keys : state[k] = "unused" /\ \A j \in 1..(k - 1) : j \in Made
IdentityKey == {k \in Stored : kind[k] = "identity"}

NoRow == [key |-> 0, left |-> 0, limit |-> 0, age |-> 0, idle |-> 0]
\* left, limit: time to expires_at and absolute_expires_at.  age: time since the
\* login.  idle: time since a request was last authenticated.
Row(k, ago) ==
    [key |-> k, left |-> IdleTTL - ago, limit |-> AbsoluteTTL - ago, age |-> ago, idle |-> ago]
Open == {t \in Tokens : sess[t] # NoRow}

\* ago: time since the request read the clock.  rest: of the idle time, then.
\* dead: the session presented had ended when the request began.
\* held: the grant was held at some time since then.
\* raced: the identity key was deleted since then.
NewRequest(pc, t, k, dead, held) ==
    [pc |-> pc, token |-> t, key |-> k, ago |-> 0, rest |-> 0,
     attempt |-> 0, dead |-> dead, held |-> held, raced |-> FALSE]
NoRequest == NewRequest("idle", 0, 0, FALSE, FALSE)

SessionInit ==
    /\ kind = [k \in Keys |-> "api"]
    /\ state \in {[k \in Keys |-> "unused"], [k \in Keys |-> IF k = 1 THEN "on" ELSE "unused"]}
    /\ sess = [t \in Tokens |-> NoRow] /\ issued = 0
    /\ req = [r \in Req |-> NoRequest] /\ bootLock = NoReq
    /\ granted \in BOOLEAN
-----------------------------------------------------------------------------
(* Steps.                                                                  *)

Goto(r, pc) == req' = [req EXCEPT ![r].pc = pc]
Done(r) == req' = [req EXCEPT ![r] = NoRequest]

Ended(t) == t \notin Open \/ state[sess[t].key] # "on" \/ sess[t].limit <= 0

\* A request reaches its handler.
Begin(r, pc, t) ==
    /\ req[r] = NoRequest /\ t \in 0..issued
    /\ req' = [req EXCEPT ![r] = NewRequest(pc, t, 0, FALSE, FALSE)]
    /\ UNCHANGED <<table, sess, issued, bootLock, granted>>

BeginLogin(r, t) == Begin(r, "lookup", t)
BeginSetup(r) == Begin(r, "check", 0)    \* with no key there is no session
BeginIdentity(r, t) == Begin(r, "whois", t)

\* Every other page and form goes through authenticate.
BeginAuth(r, t) ==
    /\ req[r] = NoRequest /\ t \in 1..issued
    /\ req' = [req EXCEPT ![r] =
                  NewRequest("get", t, 0, Ended(t),
                             granted \/ Ended(t) \/ kind[sess[t].key] # "identity")]
    /\ UNCHANGED <<table, sess, issued, bootLock, granted>>

\* A statement fails or times out; a transaction is rolled back.
StatementFails(r) ==
    /\ req[r].pc \notin {"idle", "authed", "norows", "whois", "verify"}
    /\ bootLock' = IF bootLock = r THEN NoReq ELSE bootLock
    /\ Done(r)
    /\ UNCHANGED <<table, sess, issued, granted>>

\* GetKeyByTokenHash in sessionManager.login, for the key presented: the one
\* just made, in setup.  A key made for an identity is refused.
LookupKey(r) ==
    /\ req[r].pc = "lookup"
    /\ \E k \in IF req[r].key = 0 THEN Made ELSE {req[r].key} :
         IF state[k] = "on" /\ kind[k] # "identity"
         THEN req' = [req EXCEPT ![r].pc = "replace", ![r].key = k] ELSE Done(r)
    /\ UNCHANGED <<table, sess, issued, bootLock, granted>>

\* startSession ends the session presented, then reads the clock.
ReplaceSession(r) ==
    LET t == req[r].token IN
    /\ req[r].pc = "replace"
    /\ sess' = IF t = 0 THEN sess ELSE [sess EXCEPT ![t] = NoRow]
    /\ req' = [req EXCEPT ![r] = NewRequest("start", 0, req[r].key, FALSE, FALSE)]
    /\ UNCHANGED <<table, issued, bootLock, granted>>

\* At the time the request read, ago.
Past(row, ago) == row.left + ago <= 0 \/ row.limit + ago <= 0

\* CreateAdminSession sweeps expired rows; the key must still be stored.
CreateSession(r) ==
    LET k == req[r].key
        ago == req[r].ago
        swept == [t \in Tokens |-> IF Past(sess[t], ago) THEN NoRow ELSE sess[t]] IN
    /\ req[r].pc = "start" /\ issued < MaxTokens
    /\ IF k \in Stored
       THEN /\ sess' = [swept EXCEPT ![issued + 1] = Row(k, ago)]
            /\ issued' = issued + 1
       ELSE UNCHANGED <<sess, issued>>
    /\ Done(r)
    /\ UNCHANGED <<table, bootLock, granted>>
-----------------------------------------------------------------------------
(* authenticate.                                                           *)

\* Mutant: a session counts as long as its row is there and not expired.
AdmissibleAnyKey(t, ago) == t \in Open /\ ~Past(sess[t], ago)
\* The WHERE clause of queryGetAdminSession.
Admissible(t, ago) == t \in Open /\ ~Past(sess[t], ago) /\ state[sess[t].key] = "on"

\* The request is authenticated, as of the time it read.
Seen(row, ago) == [row EXCEPT !.idle = IF ago < @ THEN ago ELSE @]
Admit(r, rows) ==
    LET t == req[r].token IN
    /\ req' = [req EXCEPT ![r].pc = "authed", ![r].rest = 0]
    /\ sess' = IF t \in Open THEN [rows EXCEPT ![t] = Seen(@, req[r].ago)] ELSE rows

\* The session is refreshed when half of the idle time is gone.
AdmitOrRefresh(r, rest) ==
    IF 2 * rest <= IdleTTL
    THEN req' = [req EXCEPT ![r].pc = "refresh", ![r].rest = 0] /\ UNCHANGED sess
    ELSE Admit(r, sess)

GetSession(r) ==
    LET row == sess[req[r].token]
        rest == row.left + req[r].ago IN
    /\ req[r].pc = "get"
    /\ IF ~Admissible(req[r].token, req[r].ago) THEN Done(r) /\ UNCHANGED sess
       ELSE IF kind[row.key] = "identity"
       THEN req' = [req EXCEPT ![r].pc = "verify", ![r].rest = rest] /\ UNCHANGED sess
       ELSE AdmitOrRefresh(r, rest)
    /\ UNCHANGED <<table, issued, bootLock, granted>>

\* verifyTailnetSession passes: the peer is the login and holds the grant.
Verify(r) ==
    /\ req[r].pc = "verify" /\ granted
    /\ AdmitOrRefresh(r, req[r].rest)
    /\ UNCHANGED <<table, issued, bootLock, granted>>

\* It fails: no grant, a bad one, another peer, the public listener, no answer.
VerifyFails(r) ==
    /\ req[r].pc = "verify"
    /\ Goto(r, "drop")
    /\ UNCHANGED <<table, sess, issued, bootLock, granted>>

DropSession(r) ==
    /\ req[r].pc = "drop"
    /\ sess' = [sess EXCEPT ![req[r].token] = NoRow]
    /\ Done(r)
    /\ UNCHANGED <<table, issued, bootLock, granted>>

\* authenticate and queryRefreshAdminSession cap the new expiry.
NewLeft(row, ago) == IF IdleTTL - ago < row.limit THEN IdleTTL - ago ELSE row.limit

\* Mutant: the login time is what the idle time counts from.
RefreshFromLogin(r) ==
    LET row == sess[req[r].token] IN
    /\ req[r].pc = "refresh"
    /\ IF req[r].token \notin Open \/ Past(row, req[r].ago) THEN Done(r) /\ UNCHANGED sess
       ELSE Admit(r, [sess EXCEPT ![req[r].token].left = NewLeft(row, row.age)])
    /\ UNCHANGED <<table, issued, bootLock, granted>>
\* RefreshAdminSession: the condition is evaluated on the row as it is now, if any.
RefreshSession(r) ==
    LET row == sess[req[r].token] IN
    /\ req[r].pc = "refresh"
    /\ IF req[r].token \notin Open \/ Past(row, req[r].ago) THEN Done(r) /\ UNCHANGED sess
       ELSE Admit(r, [sess EXCEPT ![req[r].token].left = NewLeft(row, req[r].ago)])
    /\ UNCHANGED <<table, issued, bootLock, granted>>
-----------------------------------------------------------------------------
(* What an authenticated request does.                                     *)

View(r) ==
    /\ req[r].pc = "authed" /\ Done(r)
    /\ UNCHANGED <<table, sess, issued, bootLock, granted>>

Logout(r) ==
    /\ req[r].pc = "authed" /\ Done(r)
    /\ sess' = [sess EXCEPT ![req[r].token] = NoRow]
    /\ UNCHANGED <<table, issued, bootLock, granted>>

\* DELETE FROM api_keys; the foreign key removes the sessions.
Remove(k) ==
    /\ state' = [state EXCEPT ![k] = "gone"] /\ kind' = [kind EXCEPT ![k] = "api"]
    /\ sess' = [t \in Tokens |-> IF t \in Open /\ sess[t].key = k THEN NoRow ELSE sess[t]]

SigningIn == {"whois", "snapshot", "upsert"}
Raced(q, k) == kind[k] = "identity" /\ req[q].pc \in SigningIn

\* deleteKey refuses the key of the session itself.
RevokeKey(r, k) ==
    /\ req[r].pc = "authed" /\ k \in Stored
    /\ ~(req[r].token \in Open /\ sess[req[r].token].key = k)
    /\ Remove(k)
    /\ req' = [q \in Req |-> IF q = r THEN NoRequest ELSE [req[q] EXCEPT !.raced = @ \/ Raced(q, k)]]
    /\ UNCHANGED <<issued, bootLock, granted>>

Insert(k, how) == kind' = [kind EXCEPT ![k] = how] /\ state' = [state EXCEPT ![k] = "on"]

CreateKey(r) ==
    /\ req[r].pc = "authed" /\ Done(r) /\ Made # Keys
    /\ Insert(NextKey, "api")
    /\ UNCHANGED <<sess, issued, bootLock, granted>>
-----------------------------------------------------------------------------
(* setup: the first key.                                                   *)

CheckNoKeys(r) ==
    /\ req[r].pc = "check"
    /\ IF Stored # {} THEN Done(r) ELSE Goto(r, "lock")
    /\ UNCHANGED <<table, sess, issued, bootLock, granted>>

\* Mutant: no advisory lock.
BootstrapUnlocked(r) ==
    /\ req[r].pc = "lock"
    /\ Goto(r, "exists")
    /\ UNCHANGED <<table, sess, issued, bootLock, granted>>
BootstrapLock(r) ==
    /\ req[r].pc = "lock" /\ bootLock = NoReq
    /\ bootLock' = r
    /\ Goto(r, "exists")
    /\ UNCHANGED <<table, sess, issued, granted>>

BootstrapExists(r) ==
    /\ req[r].pc = "exists"
    /\ IF Stored # {} THEN Done(r) /\ bootLock' = NoReq ELSE Goto(r, "insert") /\ UNCHANGED bootLock
    /\ UNCHANGED <<table, sess, issued, granted>>

\* The key becomes visible, and the lock free, when the transaction commits.
\* setup then signs in with it.
BootstrapInsert(r) ==
    /\ req[r].pc = "insert" /\ Made # Keys
    /\ Insert(NextKey, "first")
    /\ bootLock' = NoReq
    /\ req' = [req EXCEPT ![r].pc = "lookup", ![r].key = NextKey]
    /\ UNCHANGED <<sess, issued, granted>>
-----------------------------------------------------------------------------
(* tailnetLogin.                                                           *)

WhoIs(r) ==
    /\ req[r].pc = "whois"
    /\ IF granted THEN Goto(r, "snapshot") ELSE Done(r)
    /\ UNCHANGED <<table, sess, issued, bootLock, granted>>

\* queryGetOrCreateTailnetKey starts: its SELECT sees the rows of this moment.
KeySnapshot(r) ==
    /\ req[r].pc = "snapshot"
    /\ \E k \in IF IdentityKey = {} THEN {0} ELSE IdentityKey :
         req' = [req EXCEPT ![r].pc = "upsert", ![r].key = k]
    /\ UNCHANGED <<table, sess, issued, bootLock, granted>>

MayRetry(attempt) == attempt = 0

\* Its INSERT sees the rows of the index.  The row inserted comes first, then
\* the one of the snapshot; there may be neither.
KeyUpsert(r) ==
    LET k == req[r].key IN
    /\ req[r].pc = "upsert"
    /\ IF IdentityKey = {}
       THEN /\ Made # Keys /\ Insert(NextKey, "identity")
            /\ req' = [req EXCEPT ![r].pc = "replace", ![r].key = NextKey]
       ELSE /\ UNCHANGED table
            /\ IF k # 0
               THEN IF state[k] = "off" THEN Done(r) ELSE Goto(r, "replace")
               ELSE IF MayRetry(req[r].attempt)
               THEN req' = [req EXCEPT ![r].pc = "snapshot", ![r].attempt = 1]
               ELSE Goto(r, "norows")
    /\ UNCHANGED <<sess, issued, bootLock, granted>>

SignInFails(r) ==
    /\ req[r].pc = "norows"
    /\ Done(r)
    /\ UNCHANGED <<table, sess, issued, bootLock, granted>>
-----------------------------------------------------------------------------
(* Around the requests.                                                    *)

\* create-key and DELETE /api-keys/{id} work on the table alone; an operator
\* may disable a key there.
OtherCreates ==
    /\ Made # Keys /\ Insert(NextKey, "api")
    /\ UNCHANGED <<sess, issued, req, bootLock, granted>>
OtherDeletes(k) ==
    /\ k \in Stored /\ Remove(k)
    /\ req' = [q \in Req |-> [req[q] EXCEPT !.raced = @ \/ Raced(q, k)]]
    /\ UNCHANGED <<issued, bootLock, granted>>
OperatorDisables(k) ==
    /\ state[k] = "on" /\ state' = [state EXCEPT ![k] = "off"]
    /\ UNCHANGED <<kind, sess, issued, req, bootLock, granted>>

PolicyChanges ==
    /\ granted' = ~granted
    /\ req' = [q \in Req |-> IF req[q].pc \in {"get", "verify"}
                             THEN [req[q] EXCEPT !.held = @ \/ granted'] ELSE req[q]]
    /\ UNCHANGED <<table, sess, issued, bootLock>>

\* A session long expired is like one that expired Slack ago: every request
\* that finds either has read the clock since.
AtMost(n, cap) == IF n < cap THEN n ELSE cap
Older(row) ==
    IF row.left = -Slack THEN row
    ELSE [row EXCEPT !.left = @ - 1, !.limit = @ - 1, !.age = @ + 1, !.idle = AtMost(@ + 1, IdleTTL + Slack)]

\* A request is over within Slack of reading the clock.
TimedPC == {"get", "verify", "drop", "refresh", "start"}
Tick ==
    /\ \A r \in Req : req[r].pc \in TimedPC => req[r].ago < Slack
    /\ sess' = [t \in Tokens |-> IF t \in Open THEN Older(sess[t]) ELSE NoRow]
    /\ req' = [r \in Req |-> IF req[r].pc \in TimedPC THEN [req[r] EXCEPT !.ago = @ + 1] ELSE req[r]]
    /\ UNCHANGED <<table, issued, bootLock, granted>>

Step(r) ==
    \/ LookupKey(r) \/ ReplaceSession(r) \/ CreateSession(r)
    \/ GetSession(r) \/ Verify(r) \/ VerifyFails(r) \/ DropSession(r) \/ RefreshSession(r)
    \/ View(r) \/ Logout(r) \/ CreateKey(r) \/ \E k \in Keys : RevokeKey(r, k)
    \/ CheckNoKeys(r) \/ BootstrapLock(r) \/ BootstrapExists(r) \/ BootstrapInsert(r)
    \/ WhoIs(r) \/ KeySnapshot(r) \/ KeyUpsert(r) \/ SignInFails(r)
    \/ StatementFails(r)

Arrive(r, t) == BeginAuth(r, t) \/ BeginLogin(r, t) \/ BeginSetup(r) \/ BeginIdentity(r, t)

Requests == \E r \in Req : Step(r) \/ \E t \in 0..MaxTokens : Arrive(r, t)
Around == OtherCreates \/ PolicyChanges \/ \E k \in Keys : OtherDeletes(k) \/ OperatorDisables(k)

SessionNext == Requests \/ Around \/ Tick

SessionSpec == SessionInit /\ [][SessionNext]_sessionVars
-----------------------------------------------------------------------------
(* Properties.                                                             *)

\* Every variable has its type, sessions refer to stored keys, and no session
\* row expires after its absolute limit (admin_sessions_expiry_order).
SessionTypeOK ==
    /\ kind \in [Keys -> {"api", "first", "identity"}]
    /\ state \in [Keys -> {"unused", "on", "off", "gone"}]
    /\ issued \in 0..MaxTokens /\ Open \subseteq 1..issued
    /\ \A t \in Open : sess[t].key \in Stored /\ sess[t].left <= sess[t].limit
    /\ bootLock \in Req \cup {NoReq} /\ granted \in BOOLEAN

\* A request that begins after its session was logged out, replaced or swept,
\* or reached its absolute limit, or after its key was deleted or disabled, is
\* not authenticated, whatever other requests of that session are in flight;
\* neither is one of an identity session while its grant is not held
\* (authenticate; "Revoking an API key immediately invalidates its sessions").
EndedStaysEnded ==
    \A r \in Req : req[r].pc = "authed" =>
        /\ ~req[r].dead
        /\ req[r].token \in Open /\ kind[sess[req[r].token].key] = "identity" => req[r].held

\* A session authenticated at some time stays open for half of the idle time
\* after it, unless its absolute limit comes first, and it never lasts longer
\* than that limit after its login, also when two requests refresh it in the
\* other order than they read the clock (authenticate, RefreshAdminSession).
LifetimeKept ==
    \A t \in Open :
        LET row == sess[t] IN
        /\ row.left <= AbsoluteTTL - row.age
        /\ 2 * (row.left + row.idle) >= IdleTTL \/ row.left = AbsoluteTTL - row.age

\* Requests that make a key at once end with one: of several setups at most one
\* makes a first key ("InsertFirstAPIKey serializes bootstrap attempts"), and a
\* sign-in with an identity finds or makes its key, unless that was deleted
\* meanwhile: one retry is enough ("it is retried once").
OneKeyEach ==
    /\ Cardinality({k \in Stored : kind[k] = "first"}) <= 1
    /\ \A r \in Req : req[r].pc = "norows" => req[r].raced

=============================================================================
