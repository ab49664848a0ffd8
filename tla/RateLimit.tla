----------------------------- MODULE RateLimit ------------------------------
(***************************************************************************)
(* The token buckets in front of the API: one per client address before    *)
(* authentication, with a bound on the addresses remembered, and one per   *)
(* namespace after it, without.  Idle buckets are forgotten.               *)
(*                                                                         *)
(* A token is Frac units; a unit comes back with every tick, so that the   *)
(* Rate tokens of a full bucket take a second.  A bucket is refilled when  *)
(* it is next asked; the model keeps beside it what a bucket that is never *)
(* forgotten would hold.                                                   *)
(***************************************************************************)
EXTENDS Integers, FiniteSets

CONSTANTS Client,           \* addresses, or namespaces
          Rate, Frac,
          ClientTTL,        \* ipRateLimiterClientTTL
          CleanupInterval,  \* ipRateLimiterCleanupInterval
          MaxClients        \* ipRateLimiterMaxClients

\* The code forgets after ten minutes what takes one second to refill.
ASSUME RateAssumption ==
    /\ Rate \in Nat \ {0} /\ Frac \in Nat \ {0} /\ MaxClients \in Nat \ {0}
    /\ CleanupInterval \in Nat \ {0} /\ ClientTTL \in Nat /\ ClientTTL >= Rate * Frac

VARIABLES limiter,   \* "address" or "namespace"
          bucket,    \* for a client that is remembered: tokens when last seen, time since
          cleanup,   \* time to the next cleanup
          ideal,     \* what a bucket that is never forgotten holds now
          answer     \* the last answer

rateVars == <<limiter, bucket, cleanup, ideal, answer>>

Full == Rate * Frac
Forgotten == [tokens |-> -1, idle |-> 0]
AtMost(bound, n) == IF n > bound THEN bound ELSE n
Remembered == {c \in Client : bucket[c] # Forgotten}

RateInit ==
    /\ limiter \in {"address", "namespace"}
    /\ bucket = [c \in Client |-> Forgotten]
    /\ cleanup = IF limiter = "address" THEN CleanupInterval ELSE 0
    /\ ideal = [c \in Client |-> Full] /\ answer = "none"

\* Mutant: a bucket is forgotten before it has refilled.
PruneDrained == [c \in Client |-> IF bucket[c].idle >= CleanupInterval THEN Forgotten ELSE bucket[c]]
PruneStale == [c \in Client |-> IF bucket[c].idle >= ClientTTL THEN Forgotten ELSE bucket[c]]

\* The buckets, and the next cleanup, once a request has looked at the clock.
Sweep ==
    IF cleanup = 0 THEN <<PruneStale, CleanupInterval>> ELSE <<bucket, cleanup>>

Refilled(b) == AtMost(Full, b.tokens + b.idle)

\* Ask(c): what allow does under the mutex, for a client it knows and for a new one.
KnownClient(c, swept) ==
    LET tokens == Refilled(swept[c]) IN
    /\ swept[c] # Forgotten
    /\ bucket' = [swept EXCEPT ![c] = [tokens |-> IF tokens < Frac THEN tokens ELSE tokens - Frac,
                                       idle |-> 0]]
    /\ answer' = IF tokens < Frac THEN "limited" ELSE "allowed"

NewClient(c, swept) ==
    /\ swept[c] = Forgotten
    /\ IF limiter = "address" /\ Cardinality({d \in Client : swept[d] # Forgotten}) >= MaxClients
       THEN bucket' = swept /\ answer' = "full"
       ELSE /\ bucket' = [swept EXCEPT ![c] = [tokens |-> Full - Frac, idle |-> 0]]
            /\ answer' = "allowed"

Allow(c) ==
    /\ KnownClient(c, Sweep[1]) \/ NewClient(c, Sweep[1])
    /\ cleanup' = Sweep[2]
    /\ ideal' = IF answer' = "allowed" THEN [ideal EXCEPT ![c] = @ - Frac] ELSE ideal
    /\ UNCHANGED limiter

\* Ages past what a cleanup could have met are one age.
OldestAge == ClientTTL + CleanupInterval

RateTick ==
    /\ bucket' = [c \in Client |->
                     IF bucket[c] = Forgotten THEN Forgotten
                     ELSE [bucket[c] EXCEPT !.idle = AtMost(OldestAge, @ + 1)]]
    /\ cleanup' = IF cleanup = 0 THEN 0 ELSE cleanup - 1
    /\ ideal' = [c \in Client |-> AtMost(Full, ideal[c] + 1)]
    /\ answer' = "none" /\ UNCHANGED limiter

RateNext == RateTick \/ \E c \in Client : Allow(c)

RateSpec == RateInit /\ [][RateNext]_rateVars
-----------------------------------------------------------------------------
(* Properties.                                                             *)

\* Every variable has its type; the address limiter remembers a bounded number
\* of clients (ipRateLimiter).
RateTypeOK ==
    /\ limiter \in {"address", "namespace"}
    /\ bucket \in [Client -> [tokens : 0..Full, idle : 0..OldestAge] \cup {Forgotten}]
    /\ limiter = "address" => Cardinality(Remembered) <= MaxClients
    /\ cleanup \in 0..CleanupInterval
    /\ answer \in {"none", "allowed", "limited", "full"}

\* Buckets are forgotten neither too early nor too late.  Lazily refilled or
\* started afresh, a bucket always holds what one that is never forgotten would
\* hold, so no client gains or loses a request by going idle ("An idle bucket
\* would be completely refilled on its next request"); and a new address is
\* turned away for want of room only while each address that takes the room was
\* seen within the lifetime of an entry and one cleanup interval
\* (namespaceRateLimiter.allow, ipRateLimiter.allow and pruneStale).
ForgettingIsTimely ==
    /\ \A c \in Client :
          ideal[c] = IF bucket[c] = Forgotten THEN Full ELSE Refilled(bucket[c])
    /\ answer = "full" => \A c \in Remembered : bucket[c].idle < OldestAge
=============================================================================
