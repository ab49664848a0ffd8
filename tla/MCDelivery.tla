----------------------------- MODULE MCDelivery -----------------------------
(***************************************************************************)
(* What keeps deliveries moving: the poll workers with their slots, and the  *)
(* circuit breaker of a URL.  They share no state, so a behaviour is about   *)
(* one of them, chosen at the start; the other stays as it is.              *)
(***************************************************************************)
EXTENDS CircuitBreaker, PollWorkers

VARIABLE part

MCInit == part \in {"poll", "breaker"} /\ Init /\ PollInit

BreakerStep == part = "breaker" /\ Next /\ UNCHANGED <<pollVars, part>>
PollStep == part = "poll" /\ PollNext /\ UNCHANGED <<vars, part>>
MCNext == BreakerStep \/ PollStep

\* The fairness of CircuitBreaker and of PollWorkers, each for its own
\* behaviours.
MCFairness ==
    /\ \A p \in Proc :
          /\ WF_vars(part = "breaker" /\ Allow(p))
          /\ SF_vars(part = "breaker" /\ RecordSuccess(p))
          /\ WF_vars(part = "breaker" /\ Return(p))
    /\ WF_vars(part = "breaker" /\ Tick)
    /\ \A w \in Worker :
          /\ WF_pollVars(part = "poll" /\ Work(w))
          /\ SF_pollVars(part = "poll" /\ \E n \in 1 .. MaxQueue : Claim(w, n))
    /\ WF_pollVars(part = "poll" /\ DeliveryEnds)
    /\ WF_pollVars(part = "poll" /\ Returns)

MCSpec == MCInit /\ [][MCNext]_<<vars, pollVars, part>> /\ MCFairness
=============================================================================
