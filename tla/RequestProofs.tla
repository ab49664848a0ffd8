--------------------------- MODULE RequestProofs ----------------------------
(***************************************************************************)
(* What holds of the path of a request for any number of keys, requests,   *)
(* clients and sessions: the key cache never outlives a revocation by more *)
(* than its TTL and looks a key up once at a time, the rate limiters       *)
(* forget neither too early nor too late, no MCP session survives the      *)
(* shutdown and no recorded use of a key is dropped by a concurrent flush. *)
(***************************************************************************)
EXTENDS KeyCache, RateLimit, Transport, FiniteSetTheorems, TLAPS

(***************************************************************************)
(* Transport.  A session that the SDK's sweep did not see belongs to a     *)
(* request that has not left yet; and a key marked during or after the     *)
(* last flush is given up, since nobody comes back for the dirty set.      *)
(***************************************************************************)
TransportIInv ==
    /\ TransportTypeOK
    /\ stopped /\ ~sweeping /\ sessions # {} => \E c \in Call : call[c] = "leaving"
    /\ sweeping => stopped
    /\ flusher \in {"last", "done"} => dirty \subseteq lost
    /\ UsesAreKept

\* A fresh process has no sessions and has used no key (newHTTPTransport, newLastUsedTracker).
LEMMA TransportStarts == TransportInit => TransportIInv
BY Zenon DEF TransportInit, TransportIInv, TransportTypeOK, UsesAreKept

\* The requests of the MCP endpoint (httpTransport.ServeHTTP).
LEMMA TransportRequests ==
    ASSUME TransportIInv, NEW c \in Call, ServeHTTP(c) \/ Initialize(c) \/ Leave(c)
    PROVE  TransportIInv'
<1> USE DEF TransportIInv, TransportTypeOK, UsesAreKept, usedVars
<1>1. CASE ServeHTTP(c)
  BY <1>1 DEF ServeHTTP
<1>2. CASE Initialize(c)
  <2>1. call'[c] = "leaving" /\ sessions' \subseteq Call
    BY <1>2 DEF Initialize
  <2>2. QED
    BY <1>2, <2>1 DEF Initialize
<1>3. CASE Leave(c)
  BY <1>3 DEF Leave
<1>4. QED
  BY <1>1, <1>2, <1>3

\* The ends of sessions and of the transport (httpTransport.Shutdown).
LEMMA TransportStops ==
    ASSUME TransportIInv, SessionEnds \/ Shutdown \/ CloseSessions
    PROVE  TransportIInv'
<1> USE DEF TransportIInv, TransportTypeOK, UsesAreKept, usedVars
<1>1. CASE SessionEnds
  BY <1>1 DEF SessionEnds
<1>2. CASE Shutdown
  BY <1>2 DEF Shutdown
<1>3. CASE CloseSessions
  BY <1>3, Zenon DEF CloseSessions
<1>4. QED
  BY <1>1, <1>2, <1>3

\* The record of used keys (lastUsedTracker.markUsed, flush and run).
LEMMA UsesStep ==
    ASSUME TransportIInv,
           FlushBegins \/ LastFlush \/ FlushEnds \/ FlushFails \/ \E k \in Token : MarkUsed(k)
    PROVE  TransportIInv'
<1> USE DEF TransportIInv, TransportTypeOK, UsesAreKept, mcpVars
<1>1. CASE FlushBegins
  BY <1>1 DEF FlushBegins
<1>2. CASE LastFlush
  BY <1>2 DEF LastFlush
<1>3. CASE FlushEnds
  BY <1>3 DEF FlushEnds
<1>4. CASE FlushFails
  BY <1>4 DEF FlushFails
<1>5. ASSUME NEW k \in Token, MarkUsed(k) PROVE TransportIInv'
  BY <1>5 DEF MarkUsed
<1>6. QED
  BY <1>1, <1>2, <1>3, <1>4, <1>5

\* The inductive invariant holds in every state of the transport.
THEOREM TransportInvariance == TransportSpec => []TransportIInv
<1>1. TransportIInv /\ [TransportNext]_transportVars => TransportIInv'
  <2> SUFFICES ASSUME TransportIInv, [TransportNext]_transportVars
               PROVE  TransportIInv'
    OBVIOUS
  <2>1. CASE TransportNext
    BY <2>1, TransportRequests, TransportStops, UsesStep DEF TransportNext
  <2>2. CASE UNCHANGED transportVars
    BY <2>2 DEF transportVars, mcpVars, usedVars, TransportIInv, TransportTypeOK, UsesAreKept
  <2>3. QED
    BY <2>1, <2>2
<1>2. QED
  BY <1>1, TransportStarts, PTL DEF TransportSpec

\* No MCP session outlives the shutdown (httpTransport.ServeHTTP, Shutdown).
THEOREM NoSessionSurvives == TransportSpec => []NoSessionLeft
<1>1. TransportIInv => NoSessionLeft
  BY DEF TransportIInv, TransportTypeOK, NoSessionLeft
<1>2. QED
  BY <1>1, TransportInvariance, PTL

\* No use of a key is dropped by a flush that runs beside it (lastUsedTracker).
THEOREM NoUseDropped == TransportSpec => []UsesAreKept
<1>1. TransportIInv => UsesAreKept
  BY DEF TransportIInv
<1>2. QED
  BY <1>1, TransportInvariance, PTL

(***************************************************************************)
(* KeyCache.  The owner of a lookup is the one request that reads the key; *)
(* and while it carries a row it found enabled, a revocation can only be   *)
(* younger than the lookup, which is what the expiry is counted from.      *)
(***************************************************************************)
KeyTypes ==
    /\ ago \in [Key -> None..TTL] /\ entry \in [Key -> None..TTL]
    /\ owner \in [Key -> Req \cup {NoReq}] /\ age \in [Key -> 0..TTL]
    /\ pc \in [Req -> {"idle", "locking", "waiting", "reading", "read", "served"}]
    /\ key \in [Req -> Key \cup {NoKey}] /\ attempt \in [Req -> {0, 1}] /\ gone \subseteq Req
    /\ found \in [Req -> Answers]

CacheBounded == IsFiniteSet(Cached) /\ Cardinality(Cached) <= MaxEntries

OwnersRead ==
    /\ \A r \in Req : pc[r] # "idle" => key[r] \in Key
    /\ \A k \in Key : owner[k] # NoReq =>
          pc[owner[k]] \in {"reading", "read"} /\ key[owner[k]] = k
    /\ SingleFlight

YoungerRevocation ==
    \A r \in Req : pc[r] = "read" /\ found[r] = "enabled" =>
        ago[key[r]] = None \/ ago[key[r]] <= age[key[r]]

KeyIInv == KeyTypes /\ CacheBounded /\ OwnersRead /\ YoungerRevocation /\ StaleBounded

\* An empty cache, no request (newAPIKeyCache).
LEMMA KeyStarts == Init => KeyIInv
<1> USE KeyCacheAssumption DEF Init, None
<1>1. ASSUME Init PROVE Cached = {}
  BY <1>1 DEF Cached
<1>2. ASSUME Init PROVE CacheBounded
  BY <1>1, <1>2, FS_EmptySet DEF CacheBounded
<1>3. QED
  BY <1>2 DEF KeyIInv, KeyTypes, OwnersRead, SingleFlight, YoungerRevocation, StaleBounded, Answers

\* The cached keys do not change while no entry appears or disappears.
LEMMA CachedSame ==
    ASSUME CacheBounded, Cached' = Cached
    PROVE  CacheBounded'
BY DEF CacheBounded

\* Removing entries keeps the cache bounded.
LEMMA CachedFewer ==
    ASSUME CacheBounded, Cached' \subseteq Cached
    PROVE  CacheBounded'
BY KeyCacheAssumption, FS_Subset, FS_CardinalityType DEF CacheBounded

\* Steps that touch neither the cache nor a lookup (get and its callers).
LEMMA KeyRequests ==
    ASSUME KeyIInv, NEW r \in Req,
           \/ Request(r) \/ Disconnect(r) \/ Hit(r) \/ Retry(r) \/ TakeAnswer(r) \/ StopWaiting(r)
    PROVE  KeyIInv'
<1> USE KeyCacheAssumption DEF KeyIInv, KeyTypes, OwnersRead, SingleFlight, YoungerRevocation,
        StaleBounded, cache
<1>1. CacheBounded'
  BY CachedSame DEF Cached, Request, Disconnect, Hit, Retry, TakeAnswer, StopWaiting
<1>2. CASE Request(r)
  BY <1>1, <1>2 DEF Request
<1>3. CASE Disconnect(r)
  BY <1>1, <1>3 DEF Disconnect
<1>4. CASE Hit(r)
  BY <1>1, <1>4 DEF Hit, Return, Answers
<1>5. CASE Retry(r)
  BY <1>1, <1>5 DEF Retry, Answers
<1>6. CASE TakeAnswer(r)
  BY <1>1, <1>6 DEF TakeAnswer, Return, Answers
<1>7. CASE StopWaiting(r)
  BY <1>1, <1>7 DEF StopWaiting, Return, Answers
<1>8. QED
  BY <1>2, <1>3, <1>4, <1>5, <1>6, <1>7, Zenon

\* A miss joins the lookup in flight or starts one (get).
LEMMA KeyMisses ==
    ASSUME KeyIInv, NEW r \in Req, Join(r) \/ Lead(r)
    PROVE  KeyIInv'
<1> USE KeyCacheAssumption DEF KeyIInv, KeyTypes, OwnersRead, SingleFlight, YoungerRevocation,
        StaleBounded, Miss, None
<1>1. CacheBounded'
  BY CachedFewer DEF Cached, Join, Lead
<1>2. CASE Join(r)
  BY <1>1, <1>2 DEF Join
<1>3. CASE Lead(r)
  BY <1>1, <1>3 DEF Lead
<1>4. QED
  BY <1>2, <1>3

\* The repository answers (GetEnabledByTokenHash).
LEMMA KeyReads ==
    ASSUME KeyIInv, NEW r \in Req, Read(r) \/ ReadFails(r)
    PROVE  KeyIInv'
<1> USE KeyCacheAssumption DEF KeyIInv, KeyTypes, OwnersRead, SingleFlight, YoungerRevocation,
        StaleBounded, cache, None, Answers
<1>1. CacheBounded'
  BY CachedSame DEF Cached, Read, ReadFails
<1>2. CASE Read(r)
  BY <1>1, <1>2 DEF Read
<1>3. CASE ReadFails(r)
  BY <1>1, <1>3 DEF ReadFails
<1>4. QED
  BY <1>2, <1>3

\* Storing an entry drops another one when the cache is full (put).
LEMMA StoreBounded ==
    ASSUME KeyTypes, CacheBounded, NEW k \in Key, NEW left \in 0..TTL, Store(k, left)
    PROVE  /\ CacheBounded' /\ entry' \in [Key -> None..TTL]
           /\ entry'[k] = left
           /\ \A q \in Key \ {k} : entry'[q] \in {entry[q], None}
<1> USE KeyCacheAssumption DEF KeyTypes, None, CacheBounded
<1>1. CASE Cardinality(Cached) < MaxEntries
  <2>1. entry' = [entry EXCEPT ![k] = left] /\ Cached' = Cached \cup {k}
    BY <1>1 DEF Store, Cached
  <2>2. Cardinality(Cached) \in Nat
    BY FS_CardinalityType
  <2>3. /\ IsFiniteSet(Cached')
        /\ Cardinality(Cached') \in {Cardinality(Cached), Cardinality(Cached) + 1}
    BY <2>1, FS_AddElement, Zenon
  <2>4. QED
    BY <1>1, <2>1, <2>2, <2>3
<1>2. CASE ~(Cardinality(Cached) < MaxEntries)
  <2>1. PICK old \in Cached : entry' = [entry EXCEPT ![old] = None, ![k] = left]
    BY <1>2 DEF Store
  <2>2. old \in Key /\ Cached' = (Cached \ {old}) \cup {k}
    BY <2>1 DEF Cached
  <2>3. IsFiniteSet(Cached \ {old}) /\ Cardinality(Cached \ {old}) = Cardinality(Cached) - 1
    BY <2>1, FS_RemoveElement, Zenon
  <2>4. /\ IsFiniteSet(Cached')
        /\ Cardinality(Cached') \in {Cardinality(Cached \ {old}), Cardinality(Cached \ {old}) + 1}
    BY <2>2, <2>3, FS_AddElement, Zenon
  <2>5. IsFiniteSet(Cached') /\ Cardinality(Cached') <= MaxEntries
    BY <2>3, <2>4, FS_CardinalityType
  <2>6. QED
    BY <2>1, <2>2, <2>5
<1>3. QED
  BY <1>1, <1>2

\* The owner stores the row, or not, and releases those who wait (get).
LEMMA KeyFinishes ==
    ASSUME KeyIInv, NEW r \in Req, Finish(r)
    PROVE  KeyIInv'
<1> USE KeyCacheAssumption DEF KeyIInv, KeyTypes, OwnersRead, None
<1> DEFINE k == key[r]
           waiters == {w \in Req : pc[w] = "waiting" /\ key[w] = k}
<1>1. k \in Key /\ owner[k] = r /\ pc[r] = "read"
  BY DEF SingleFlight, Finish
<1>2. Expiry(k) \in 0..TTL
  BY <1>1 DEF Expiry
<1>3. /\ CacheBounded' /\ entry' \in [Key -> None..TTL]
      /\ \A q \in Key \ {k} : entry'[q] \in {entry[q], None}
      /\ entry'[k] = entry[k] \/ (found[r] = "enabled" /\ entry'[k] = TTL - age[k])
  <2>1. CASE found[r] = "enabled"
    BY <1>1, <1>2, <2>1, StoreBounded DEF Finish, Expiry
  <2>2. CASE found[r] # "enabled"
    BY <1>1, <2>2, CachedSame DEF Finish, Cached
  <2>3. QED
    BY <2>1, <2>2
<1>4. KeyTypes'
  <2>1. Shared(r) \in Answers
    BY DEF Shared, Answers
  <2>2. found' \in [Req -> Answers]
    BY <2>1 DEF Finish
  <2>3. pc' \in [Req -> {"idle", "locking", "waiting", "reading", "read", "served"}]
    BY DEF Finish
  <2>4. owner' \in [Key -> Req \cup {NoReq}] /\ age' \in [Key -> 0..TTL]
    BY DEF Finish
  <2>5. QED
    BY <1>3, <2>2, <2>3, <2>4 DEF Finish, Answers
<1>5. OwnersRead'
  BY <1>1 DEF Finish, SingleFlight
<1>6. YoungerRevocation'
  BY <1>1 DEF Finish, YoungerRevocation, SingleFlight
<1>7. StaleBounded'
  BY <1>1, <1>3 DEF Finish, StaleBounded, YoungerRevocation
<1>8. QED
  BY <1>3, <1>4, <1>5, <1>6, <1>7

\* Time passes, and a key is revoked (apiKeyCacheTTL, DeleteAPIKey).
LEMMA KeyAges ==
    ASSUME KeyIInv, Tick \/ \E k \in Key : DeleteKey(k)
    PROVE  KeyIInv'
<1> USE KeyCacheAssumption DEF KeyIInv, KeyTypes, OwnersRead, SingleFlight, None, requests
<1>1. CASE Tick
  <2>1. CacheBounded'
    BY <1>1, CachedSame DEF Tick, Cached
  <2>2. KeyTypes'
    BY <1>1 DEF Tick, Min2
  <2>3. YoungerRevocation'
    BY <1>1 DEF Tick, YoungerRevocation, Min2
  <2>4. StaleBounded'
    BY <1>1 DEF Tick, StaleBounded, Min2
  <2>5. QED
    BY <1>1, <2>1, <2>2, <2>3, <2>4 DEF Tick
<1>2. ASSUME NEW k \in Key, DeleteKey(k) PROVE KeyIInv'
  <2>1. CacheBounded'
    BY <1>2, CachedSame DEF DeleteKey, Cached, cache
  <2>2. QED
    BY <1>2, <2>1 DEF DeleteKey, YoungerRevocation, StaleBounded, cache
<1>3. QED
  BY <1>1, <1>2

\* The inductive invariant holds in every state of the key cache.
THEOREM KeyInvariance == Spec => []KeyIInv
<1>1. KeyIInv /\ [Next]_vars => KeyIInv'
  <2> SUFFICES ASSUME KeyIInv, [Next]_vars PROVE KeyIInv'
    OBVIOUS
  <2>1. CASE Next
    BY <2>1, KeyRequests, KeyMisses, KeyReads, KeyFinishes, KeyAges DEF Next, Get
  <2>2. CASE UNCHANGED vars
    BY <2>2 DEF vars, cache, requests, KeyIInv, KeyTypes, CacheBounded, Cached, OwnersRead,
       SingleFlight, YoungerRevocation, StaleBounded
  <2>3. QED
    BY <2>1, <2>2
<1>2. QED
  BY <1>1, KeyStarts, PTL DEF Spec

\* The types, and the bound on the cache (apiKeyCacheMaxEntries).
THEOREM KeyCacheTypes == Spec => []TypeOK
<1>1. KeyIInv => TypeOK
  BY DEF KeyIInv, KeyTypes, CacheBounded, TypeOK
<1>2. QED
  BY <1>1, KeyInvariance, PTL

\* No cached entry serves a revoked key once the TTL has passed since the
\* revocation, however slow the lookup that stored it (get, put).
THEOREM NoStaleKey == Spec => []StaleBounded
<1>1. KeyIInv => StaleBounded
  BY DEF KeyIInv
<1>2. QED
  BY <1>1, KeyInvariance, PTL

\* One lookup of a key at a time, and nobody waits for nobody (inflight).
THEOREM OneLookup == Spec => []SingleFlight
<1>1. KeyIInv => SingleFlight
  BY DEF KeyIInv, OwnersRead
<1>2. QED
  BY <1>1, KeyInvariance, PTL

(***************************************************************************)
(* RateLimit.  A bucket that a sweep forgets is full again, and until a    *)
(* sweep is due no bucket has been idle for longer than the lifetime of an *)
(* entry and the part of the interval that has passed.                     *)
(***************************************************************************)
Bucket == [tokens : 0..Full, idle : 0..OldestAge] \cup {Forgotten}

RememberedBounded ==
    /\ IsFiniteSet(Remembered)
    /\ limiter = "address" => Cardinality(Remembered) <= MaxClients

SweptInTime ==
    cleanup > 0 => \A c \in Remembered : bucket[c].idle < OldestAge - cleanup

RateIInv ==
    /\ limiter \in {"address", "namespace"} /\ bucket \in [Client -> Bucket]
    /\ ideal \in [Client -> 0..Full]
    /\ cleanup \in 0..CleanupInterval /\ answer \in {"none", "allowed", "limited", "full"}
    /\ RememberedBounded
    /\ SweptInTime
    /\ ForgettingIsTimely

\* The capacity of a bucket, as far as the proofs need it (newRateLimiter).
LEMMA FullBucket ==
    /\ Full \in Nat /\ Full >= Frac /\ ClientTTL >= Full /\ Frac \in Nat \ {0}
    /\ OldestAge \in Nat /\ OldestAge >= Full /\ OldestAge = ClientTTL + CleanupInterval
    /\ CleanupInterval \in Nat \ {0} /\ ClientTTL \in Nat
<1>1. \A a, b \in Nat \ {0} : a * b \in Nat /\ a * b >= b
  BY SMT
<1>2. Full \in Nat /\ Full >= Frac
  BY <1>1, RateAssumption DEF Full
<1>3. QED
  BY <1>2, RateAssumption DEF Full, OldestAge

\* A bucket and its refill (rate.Limiter).
LEMMA BucketFacts ==
    ASSUME NEW b \in Bucket
    PROVE  /\ b # Forgotten => /\ b.tokens \in 0..Full /\ b.idle \in 0..OldestAge
                               /\ Refilled(b) \in 0..Full
                               /\ b.idle >= ClientTTL => Refilled(b) = Full
           /\ b = Forgotten => b.idle = 0
BY FullBucket DEF Bucket, Forgotten, Refilled, AtMost

\* Nothing is remembered at first (newIPRateLimiter, newNamespaceRateLimiter).
LEMMA RateStarts == RateInit => RateIInv
<1> SUFFICES ASSUME RateInit PROVE RateIInv
  OBVIOUS
<1>1. Remembered = {}
  BY DEF RateInit, Remembered
<1>2. RememberedBounded
  BY <1>1, RateAssumption, FS_EmptySet DEF RememberedBounded
<1>3. QED
  BY <1>1, <1>2, FullBucket
  DEF RateInit, RateIInv, Bucket, SweptInTime, ForgettingIsTimely

\* Time passes.
LEMMA RateTicks ==
    ASSUME RateIInv, RateTick
    PROVE  RateIInv'
<1> USE FullBucket DEF RateIInv, RateTick
<1>1. \A c \in Client : IF bucket[c] = Forgotten THEN bucket'[c] = Forgotten
        ELSE /\ bucket'[c].tokens = bucket[c].tokens
             /\ bucket'[c].idle = AtMost(OldestAge, bucket[c].idle + 1)
             /\ bucket'[c] \in [tokens : 0..Full, idle : 0..OldestAge]
             /\ bucket'[c] # Forgotten
  BY BucketFacts DEF Bucket, AtMost, Forgotten
<1>2. bucket' \in [Client -> Bucket] /\ Remembered' = Remembered
  BY <1>1, Zenon DEF Remembered, Bucket
<1>3. RememberedBounded'
  BY <1>2 DEF RememberedBounded
<1>4. SweptInTime'
  BY <1>1, <1>2, BucketFacts DEF SweptInTime, Remembered, AtMost
<1>5. ForgettingIsTimely'
  <2>1. ASSUME NEW c \in Client
        PROVE  ideal'[c] = IF bucket'[c] = Forgotten THEN Full ELSE Refilled(bucket'[c])
    <3>1. CASE bucket[c] = Forgotten
      BY <1>1, <3>1 DEF ForgettingIsTimely, AtMost
    <3>2. CASE bucket[c] # Forgotten
      <4>1. bucket[c].tokens \in 0..Full /\ bucket[c].idle \in 0..OldestAge
        BY <3>2, BucketFacts
      <4>2. /\ bucket'[c] # Forgotten /\ bucket'[c].tokens = bucket[c].tokens
            /\ bucket'[c].idle = AtMost(OldestAge, bucket[c].idle + 1)
        BY <1>1, <3>2
      <4>3. ideal[c] = AtMost(Full, bucket[c].tokens + bucket[c].idle)
        BY <3>2 DEF ForgettingIsTimely, Refilled
      <4>4. ideal'[c] = AtMost(Full, ideal[c] + 1)
        OBVIOUS
      <4>5. QED
        BY <4>1, <4>2, <4>3, <4>4 DEF Refilled, AtMost
    <3>3. QED
      BY <3>1, <3>2
  <2>2. QED
    BY <2>1 DEF ForgettingIsTimely
<1>6. ideal' \in [Client -> 0..Full]
  BY DEF AtMost
<1>7. QED
  BY <1>2, <1>3, <1>4, <1>5, <1>6

\* What the sweep before an answer leaves: full buckets may go, and the next sweep is
\* an interval away (pruneStale).
LEMMA SweepFacts ==
    ASSUME RateIInv
    PROVE  /\ Sweep[1] \in [Client -> Bucket] /\ Sweep[2] \in 1..CleanupInterval
           /\ \A c \in Client : Sweep[1][c] \in {bucket[c], Forgotten}
           /\ \A c \in Client : ideal[c] = IF Sweep[1][c] = Forgotten THEN Full
                                                                      ELSE Refilled(Sweep[1][c])
           /\ \A c \in Client : Sweep[1][c] # Forgotten =>
                 Sweep[1][c].idle < OldestAge - Sweep[2]
<1> USE FullBucket DEF RateIInv, ForgettingIsTimely
<1>1. CASE cleanup = 0
  <2>1. Sweep[1] = PruneStale /\ Sweep[2] = CleanupInterval
    BY <1>1 DEF Sweep
  <2>2. PruneStale \in [Client -> Bucket]
    BY DEF PruneStale, Bucket
  <2>3. ASSUME NEW c \in Client
        PROVE  /\ PruneStale[c] \in {bucket[c], Forgotten}
               /\ ideal[c] = IF PruneStale[c] = Forgotten THEN Full ELSE Refilled(PruneStale[c])
               /\ PruneStale[c] # Forgotten => PruneStale[c].idle < ClientTTL
    <3>1. bucket[c] \in Bucket
      OBVIOUS
    <3>2. PruneStale[c] = IF bucket[c].idle >= ClientTTL THEN Forgotten ELSE bucket[c]
      BY DEF PruneStale
    <3>3. QED
      BY <3>1, <3>2, BucketFacts
  <2>4. QED
    BY <2>1, <2>2, <2>3
<1>2. CASE cleanup # 0
  <2>1. Sweep[1] = bucket /\ Sweep[2] = cleanup
    BY <1>2 DEF Sweep
  <2>2. QED
    BY <1>2, <2>1 DEF SweptInTime, Remembered
<1>3. QED
  BY <1>1, <1>2

\* A request asks a limiter (namespaceRateLimiter.allow, ipRateLimiter.allow).
LEMMA RateAnswers ==
    ASSUME RateIInv, NEW c \in Client, Allow(c)
    PROVE  RateIInv'
<1> USE FullBucket DEF RateIInv
<1> DEFINE swept == Sweep[1]
           kept == {d \in Client : swept[d] # Forgotten}
<1>1. /\ swept \in [Client -> Bucket] /\ Sweep[2] \in 1..CleanupInterval
      /\ \A d \in Client : swept[d] \in {bucket[d], Forgotten}
      /\ \A d \in Client : ideal[d] = IF swept[d] = Forgotten THEN Full ELSE Refilled(swept[d])
      /\ \A d \in Client : swept[d] # Forgotten => swept[d].idle < OldestAge - Sweep[2]
  BY SweepFacts
<1>2. KnownClient(c, swept) \/ NewClient(c, swept)
  BY DEF Allow
<1>3. /\ cleanup' = Sweep[2] /\ limiter' = limiter
      /\ ideal' = IF answer' = "allowed" THEN [ideal EXCEPT ![c] = @ - Frac] ELSE ideal
  BY DEF Allow
<1> HIDE DEF swept
<1>4. /\ IsFiniteSet(kept) /\ Cardinality(kept) \in Nat
      /\ limiter = "address" => Cardinality(kept) <= MaxClients
  <2>1. kept \subseteq Remembered
    BY <1>1 DEF Remembered
  <2>2. IsFiniteSet(kept) /\ Cardinality(kept) <= Cardinality(Remembered)
    BY <2>1, FS_Subset DEF RememberedBounded
  <2>3. QED
    BY <2>2, FS_CardinalityType, RateAssumption DEF RememberedBounded
<1>5. CASE KnownClient(c, swept)
  <2> DEFINE tokens == Refilled(swept[c])
             new == [tokens |-> IF tokens < Frac THEN tokens ELSE tokens - Frac, idle |-> 0]
  <2>1. /\ swept[c] # Forgotten /\ bucket' = [swept EXCEPT ![c] = new]
        /\ answer' = IF tokens < Frac THEN "limited" ELSE "allowed"
    BY <1>5 DEF KnownClient
  <2>2. tokens \in 0..Full /\ ideal[c] = tokens
    BY <1>1, <2>1, BucketFacts
  <2> HIDE DEF tokens
  <2>3. /\ new \in Bucket /\ new # Forgotten /\ new.idle = 0
        /\ Refilled(new) = IF tokens < Frac THEN tokens ELSE tokens - Frac
    BY <2>2 DEF Bucket, Forgotten, Refilled, AtMost
  <2> HIDE DEF new
  <2>4. bucket' \in [Client -> Bucket] /\ Remembered' = kept
    BY <1>1, <2>1, <2>3 DEF Remembered
  <2>5. RememberedBounded'
    BY <1>3, <1>4, <2>4 DEF RememberedBounded
  <2>6. SweptInTime'
    BY <1>1, <1>3, <2>1, <2>3, <2>4 DEF SweptInTime
  <2>7. ideal' \in [Client -> 0..Full]
    BY <1>3, <2>1, <2>2
  <2>8. ForgettingIsTimely'
    BY <1>1, <1>3, <2>1, <2>2, <2>3 DEF ForgettingIsTimely
  <2>9. QED
    BY <1>1, <1>3, <2>1, <2>4, <2>5, <2>6, <2>7, <2>8
<1>6. CASE NewClient(c, swept)
  <2>1. CASE limiter = "address" /\ Cardinality(kept) >= MaxClients
    <3>1. bucket' = swept /\ answer' = "full" /\ ideal' = ideal
      BY <1>3, <1>6, <2>1 DEF NewClient
    <3>2. Remembered' = kept
      BY <3>1 DEF Remembered
    <3>3. RememberedBounded'
      BY <1>3, <1>4, <3>2 DEF RememberedBounded
    <3>4. SweptInTime'
      BY <1>1, <1>3, <3>1, <3>2 DEF SweptInTime
    <3>5. ASSUME NEW d \in kept PROVE swept[d].idle < OldestAge
      <4>1. swept[d] \in Bucket /\ swept[d] # Forgotten
        BY <1>1
      <4>2. swept[d].idle \in 0..OldestAge
        BY <4>1, BucketFacts
      <4>3. QED
        BY <1>1, <4>1, <4>2
    <3>6. ForgettingIsTimely'
      BY <1>1, <3>1, <3>2, <3>5 DEF ForgettingIsTimely
    <3>7. QED
      BY <1>1, <1>3, <3>1, <3>3, <3>4, <3>6
  <2>2. CASE ~(limiter = "address" /\ Cardinality(kept) >= MaxClients)
    <3> DEFINE new == [tokens |-> Full - Frac, idle |-> 0]
    <3>1. /\ swept[c] = Forgotten /\ bucket' = [swept EXCEPT ![c] = new]
          /\ answer' = "allowed"
      BY <1>6, <2>2 DEF NewClient
    <3>2. /\ new \in Bucket /\ new # Forgotten /\ new.idle = 0 /\ Refilled(new) = Full - Frac
      BY DEF Bucket, Forgotten, Refilled, AtMost
    <3> HIDE DEF new
    <3>3. bucket' \in [Client -> Bucket] /\ Remembered' = kept \cup {c} /\ c \notin kept
      BY <1>1, <3>1, <3>2 DEF Remembered
    <3>4. RememberedBounded'
      <4>1. /\ IsFiniteSet(kept \cup {c})
            /\ Cardinality(kept \cup {c}) = Cardinality(kept) + 1
        BY <1>4, <3>3, FS_AddElement, Zenon
      <4>2. QED
        BY <1>3, <1>4, <2>2, <3>3, <4>1, RateAssumption DEF RememberedBounded
    <3>5. SweptInTime'
      BY <1>1, <1>3, <3>1, <3>2, <3>3 DEF SweptInTime
    <3>6. ideal' \in [Client -> 0..Full] /\ ideal[c] = Full
      BY <1>1, <1>3, <3>1
    <3>7. ForgettingIsTimely'
      BY <1>1, <1>3, <3>1, <3>2, <3>6 DEF ForgettingIsTimely
    <3>8. QED
      BY <1>1, <1>3, <3>1, <3>3, <3>4, <3>5, <3>6, <3>7
  <2>3. QED
    BY <2>1, <2>2
<1>7. QED
  BY <1>2, <1>5, <1>6

\* The inductive invariant holds in every state of a limiter.
THEOREM RateInvariance == RateSpec => []RateIInv
<1>1. RateIInv /\ [RateNext]_rateVars => RateIInv'
  <2> SUFFICES ASSUME RateIInv, [RateNext]_rateVars PROVE RateIInv'
    OBVIOUS
  <2>1. CASE RateNext
    BY <2>1, RateTicks, RateAnswers DEF RateNext
  <2>2. CASE UNCHANGED rateVars
    BY <2>2 DEF rateVars, RateIInv, RememberedBounded, Remembered, SweptInTime, ForgettingIsTimely
  <2>3. QED
    BY <2>1, <2>2
<1>2. QED
  BY <1>1, RateStarts, PTL DEF RateSpec

\* No client gains or loses a request by being forgotten, and a new address is
\* turned away only for addresses seen recently (allow, pruneStale).
THEOREM ForgettingTimely == RateSpec => []ForgettingIsTimely
<1>1. RateIInv => ForgettingIsTimely
  BY DEF RateIInv
<1>2. QED
  BY <1>1, RateInvariance, PTL

\* The types, and the bound on the addresses remembered (ipRateLimiterMaxClients).
THEOREM RateTypes == RateSpec => []RateTypeOK
<1>1. RateIInv => RateTypeOK
  BY DEF RateIInv, RateTypeOK, Bucket, RememberedBounded
<1>2. QED
  BY <1>1, RateInvariance, PTL
=============================================================================
