------------------------------ MODULE KeyCache ------------------------------
(***************************************************************************)
(* Authentication of API requests: the cache of API keys in front of the   *)
(* repository, with one lookup per key in flight that other requests wait  *)
(* for, while keys are revoked.                                            *)
(*                                                                         *)
(* Time is relative: an entry has time left, a lookup has an age, a        *)
(* revocation is some time ago.                                            *)
(***************************************************************************)
EXTENDS Integers, FiniteSets

CONSTANTS Key,          \* token hashes
          Req,          \* concurrent requests
          NoReq, NoKey,
          TTL,          \* apiKeyCacheTTL
          MaxEntries    \* apiKeyCacheMaxEntries

ASSUME KeyCacheAssumption ==
    /\ TTL \in Nat \ {0} /\ MaxEntries \in Nat \ {0} /\ NoReq \notin Req /\ NoKey \notin Key

VARIABLES ago,       \* time since a key was revoked, up to TTL; None while it is enabled
          entry,     \* time left of the cached entry, None if there is none
          owner,     \* request whose lookup of the key is in flight
          age,       \* time since that lookup started, up to TTL
          pc, key, attempt,    \* where each request is in get
          gone,      \* requests whose client has disconnected
          found      \* what the lookup of a request, or the one it waited for, gave

cache == <<entry, owner, age>>
requests == <<pc, key, attempt, gone, found>>
vars == <<ago, cache, requests>>

None == -1
Min2(a, b) == IF a < b THEN a ELSE b

\* "ended": context.Canceled or DeadlineExceeded; "canceled": the same, of a
\* lookup whose own caller had disconnected.
Answers == {"none", "enabled", "missing", "error", "ended", "canceled"}

Init ==
    /\ ago \in [Key -> {None, TTL}]
    /\ entry = [k \in Key |-> None] /\ owner = [k \in Key |-> NoReq]
    /\ age = [k \in Key |-> 0]
    /\ pc = [r \in Req |-> "idle"] /\ key = [r \in Req |-> NoKey]
    /\ attempt = [r \in Req |-> 0] /\ gone = {} /\ found = [r \in Req |-> "none"]
-----------------------------------------------------------------------------
(* The table of keys.                                                      *)

\* A token that was never issued is one revoked long ago.
DeleteKey(k) ==
    /\ ago[k] = None /\ ago' = [ago EXCEPT ![k] = 0]
    /\ UNCHANGED <<cache, requests>>
-----------------------------------------------------------------------------
(* get, step by step.  Between two steps the mutex is free.                *)

Request(r) ==
    /\ pc[r] = "idle"
    /\ pc' = [pc EXCEPT ![r] = "locking"]
    /\ \E k \in Key : key' = [key EXCEPT ![r] = k]
    /\ UNCHANGED <<ago, cache, attempt, gone, found>>

Disconnect(r) ==
    /\ pc[r] # "idle" /\ r \notin gone
    /\ gone' = gone \cup {r}
    /\ UNCHANGED <<ago, cache, pc, key, attempt, found>>

\* get returns to the middleware.
Return(r) ==
    /\ pc' = [pc EXCEPT ![r] = "idle"] /\ key' = [key EXCEPT ![r] = NoKey]
    /\ attempt' = [attempt EXCEPT ![r] = 0] /\ gone' = gone \ {r}
    /\ found' = [found EXCEPT ![r] = "none"]

Hit(r) ==
    /\ pc[r] = "locking" /\ entry[key[r]] > 0
    /\ Return(r)
    /\ UNCHANGED <<ago, cache>>

\* An expired entry is deleted by the request that meets it.
Miss(r) == pc[r] = "locking" /\ entry[key[r]] <= 0 /\ entry' = [entry EXCEPT ![key[r]] = None]

Join(r) ==
    /\ Miss(r) /\ owner[key[r]] # NoReq
    /\ pc' = [pc EXCEPT ![r] = "waiting"]
    /\ UNCHANGED <<ago, owner, age, key, attempt, gone, found>>

\* Mutant: every miss starts a lookup of its own.
LeadAlways(r) ==
    /\ Miss(r)
    /\ owner' = [owner EXCEPT ![key[r]] = r] /\ age' = [age EXCEPT ![key[r]] = 0]
    /\ pc' = [pc EXCEPT ![r] = "reading"]
    /\ UNCHANGED <<ago, key, attempt, gone, found>>
Lead(r) ==
    /\ Miss(r) /\ owner[key[r]] = NoReq
    /\ owner' = [owner EXCEPT ![key[r]] = r] /\ age' = [age EXCEPT ![key[r]] = 0]
    /\ pc' = [pc EXCEPT ![r] = "reading"]
    /\ UNCHANGED <<ago, key, attempt, gone, found>>

\* The repository reads the row; the answer takes its time.
Read(r) ==
    /\ pc[r] = "reading"
    /\ found' = [found EXCEPT ![r] = IF ago[key[r]] = None THEN "enabled" ELSE "missing"]
    /\ pc' = [pc EXCEPT ![r] = "read"]
    /\ UNCHANGED <<ago, cache, key, attempt, gone>>

\* The read fails, times out, or is cancelled with its request.
ReadFails(r) ==
    /\ pc[r] \in {"reading", "read"}
    /\ \E e \in {"error", "ended"} : found' = [found EXCEPT ![r] = e]
    /\ pc' = [pc EXCEPT ![r] = "read"]
    /\ UNCHANGED <<ago, cache, key, attempt, gone>>

Cached == {k \in Key : entry[k] # None}

\* Some entry is dropped to make room.
Store(k, left) ==
    IF Cardinality(Cached) < MaxEntries
    THEN entry' = [entry EXCEPT ![k] = left]
    ELSE \E old \in Cached : entry' = [entry EXCEPT ![old] = None, ![k] = left]

\* Mutant: the TTL counts from the answer.
ExpiryFromAnswer(k) == TTL
\* The TTL counts from the start of the lookup.
Expiry(k) == TTL - age[k]

\* What the waiters get: callerCanceled when the caller has gone.
Shared(r) == IF found[r] = "ended" /\ r \in gone THEN "canceled" ELSE found[r]

\* Mutant: a disconnected caller returns before it closes the lookup.
FinishUnlessGone(r) ==
    LET k == key[r]
        waiters == {w \in Req : pc[w] = "waiting" /\ key[w] = k} IN
    /\ pc[r] = "read" /\ r \notin gone
    /\ IF found[r] = "enabled" THEN Store(k, Expiry(k)) ELSE UNCHANGED entry
    /\ owner' = [owner EXCEPT ![k] = NoReq] /\ age' = [age EXCEPT ![k] = 0]
    /\ pc' = [q \in Req |-> IF q \in waiters \cup {r} THEN "served" ELSE pc[q]]
    /\ found' = [q \in Req |-> IF q \in waiters THEN Shared(r) ELSE found[q]]
    /\ UNCHANGED <<ago, key, attempt, gone>>
Finish(r) ==
    LET k == key[r]
        waiters == {w \in Req : pc[w] = "waiting" /\ key[w] = k} IN
    /\ pc[r] = "read"
    /\ IF found[r] = "enabled" THEN Store(k, Expiry(k)) ELSE UNCHANGED entry
    /\ owner' = [owner EXCEPT ![k] = NoReq] /\ age' = [age EXCEPT ![k] = 0]
    /\ pc' = [q \in Req |-> IF q \in waiters \cup {r} THEN "served" ELSE pc[q]]
    /\ found' = [q \in Req |-> IF q \in waiters THEN Shared(r) ELSE found[q]]
    /\ UNCHANGED <<ago, key, attempt, gone>>

MayRetry(r) == attempt[r] = 0 /\ found[r] = "canceled" /\ r \notin gone

Retry(r) ==
    /\ pc[r] = "served" /\ MayRetry(r)
    /\ pc' = [pc EXCEPT ![r] = "locking"] /\ attempt' = [attempt EXCEPT ![r] = 1]
    /\ found' = [found EXCEPT ![r] = "none"]
    /\ UNCHANGED <<ago, cache, key, gone>>

TakeAnswer(r) ==
    /\ pc[r] = "served" /\ ~MayRetry(r)
    /\ Return(r)
    /\ UNCHANGED <<ago, cache>>

StopWaiting(r) ==
    /\ pc[r] \in {"waiting", "served"} /\ r \in gone
    /\ Return(r)
    /\ UNCHANGED <<ago, cache>>
-----------------------------------------------------------------------------
Tick ==
    /\ entry' = [k \in Key |-> IF entry[k] > 0 THEN entry[k] - 1 ELSE entry[k]]
    /\ age' = [k \in Key |-> IF owner[k] = NoReq THEN 0 ELSE Min2(age[k] + 1, TTL)]
    /\ ago' = [k \in Key |-> IF ago[k] = None THEN None ELSE Min2(ago[k] + 1, TTL)]
    /\ UNCHANGED <<owner, requests>>

Get(r) ==
    \/ Hit(r) \/ Join(r) \/ Lead(r) \/ Read(r) \/ Finish(r)
    \/ Retry(r) \/ TakeAnswer(r) \/ StopWaiting(r)

Next ==
    \/ \E k \in Key : DeleteKey(k)
    \/ \E r \in Req : Request(r) \/ Disconnect(r) \/ Get(r) \/ ReadFails(r)
    \/ Tick

Spec == Init /\ [][Next]_vars

\* Requests run, and the repository answers or times out.
FairSpec == Spec /\ \A r \in Req : WF_vars(Get(r))
-----------------------------------------------------------------------------
(* Properties.                                                             *)

\* Every variable has its type; the cache is bounded (apiKeyCache).
TypeOK ==
    /\ ago \in [Key -> None..TTL]
    /\ entry \in [Key -> None..TTL] /\ Cardinality(Cached) <= MaxEntries
    /\ owner \in [Key -> Req \cup {NoReq}] /\ age \in [Key -> 0..TTL]
    /\ pc \in [Req -> {"idle", "locking", "waiting", "reading", "read", "served"}]
    /\ key \in [Req -> Key \cup {NoKey}] /\ attempt \in [Req -> {0, 1}] /\ gone \subseteq Req
    /\ found \in [Req -> Answers]

\* No cached entry serves a revoked key once the TTL has passed since the
\* revocation, however long the read that stored it took ("Cached enabled keys
\* expire apiKeyCacheTTL after lookup starts").
StaleBounded ==
    \A k \in Key : ago[k] # None /\ entry[k] > 0 => ago[k] + entry[k] <= TTL

\* A key is looked up by one request at a time, the owner of the lookup in
\* flight, and whoever waits has somebody to wait for (get, inflight).
SingleFlight ==
    \A r \in Req :
        /\ pc[r] \in {"reading", "read"} => owner[key[r]] = r
        /\ pc[r] = "waiting" => owner[key[r]] # NoReq

\* Every request is answered: a lookup always ends for those who wait for it,
\* also when its caller disconnects (get).
EveryGetReturns == \A r \in Req : pc[r] # "idle" ~> pc[r] = "idle"

=============================================================================
