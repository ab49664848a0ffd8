----------------------------- MODULE MCRequests -----------------------------
(***************************************************************************)
(* What a request to the API meets, for TLC: the key cache, the rate       *)
(* limiters, and the MCP transport with the record of used keys.  Each     *)
(* behaviour follows one of them, chosen at its start.                     *)
(***************************************************************************)
EXTENDS KeyCache, RateLimit, Transport

VARIABLE part

\* The parts that stand still are in one state.
MCInit ==
    /\ part \in {"keys", "limits", "transport"}
    /\ Init /\ RateInit /\ TransportInit
    /\ part # "keys" => ago = [k \in Key |-> TTL]
    /\ part # "limits" => limiter = "address"

MCNext ==
    /\ UNCHANGED part
    /\ \/ part = "keys" /\ Next /\ UNCHANGED <<rateVars, transportVars>>
       \/ part = "limits" /\ RateNext /\ UNCHANGED <<vars, transportVars>>
       \/ part = "transport" /\ TransportNext /\ UNCHANGED <<vars, rateVars>>

\* Requests run, and the repository answers or times out.
MCSpec ==
    /\ MCInit
    /\ [][MCNext]_<<part, vars, rateVars, transportVars>>
    /\ \A r \in Req : WF_vars(part = "keys" /\ Get(r))

=============================================================================
