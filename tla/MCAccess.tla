------------------------------ MODULE MCAccess ------------------------------
(***************************************************************************)
(* AdminSessions, Destination, RunHistory and ScheduleText for TLC.  A       *)
(* behaviour is about one subject: sign-in while keys and the policy change  *)
(* and time stands still; the sessions of one key, which may be deleted, as  *)
(* time passes; webhook requests; a reader of the paged lists; or the        *)
(* translation of one schedule.                                             *)
(***************************************************************************)
EXTENDS AdminSessions, Destination, RunHistory, ScheduleText, TLC

VARIABLE subject

PolicySettings ==
    {<< >>,
     <<[ns |-> "a", hosts |-> {"x"}]>>,
     <<[ns |-> "a", hosts |-> {"*"}], [ns |-> "b", hosts |-> {"y"}]>>,
     <<[ns |-> "*", hosts |-> {"x"}], [ns |-> "b", hosts |-> {"y"}]>>,
     <<[ns |-> "*", hosts |-> {"x"}], [ns |-> "b", hosts |-> {"x.y"}]>>,
     <<[ns |-> "a", hosts |-> {"x"}], [ns |-> "a", hosts |-> {"y"}]>>}
AllowlistSettings == {{}, {<<"exact", "n">>}, {<<"suffix", "n">>}, {<<"lit", "n">>}}
Addresses ==
    {<<"plain", "public">>, <<"nat64", "local">>, <<"mapped", "private">>, <<"plain", "node">>,
     <<"mapped", "self">>, <<"plain", "node6">>, <<"zoned", "node6">>}

SendOff ==
    /\ policy = Nil /\ allowlist = {} /\ tailnet = FALSE
    /\ send = [s \in Sender |-> Idle] /\ pool = {}

NoSessions(how, first, grant) ==
    /\ kind = [[k \in Keys |-> "api"] EXCEPT ![1] = how]
    /\ state = [[k \in Keys |-> "unused"] EXCEPT ![1] = first]
    /\ sess = [t \in Tokens |-> NoRow] /\ issued = 0
    /\ req = [r \in Req |-> NoRequest] /\ bootLock = NoReq /\ granted = grant

PagesOff == HistoryInit /\ TextInit

SignInInit == subject = "signin" /\ SessionInit /\ SendOff /\ PagesOff

\* The key of the timed behaviours: an API key or an identity's.
TimedInit ==
    /\ subject = "sessions" /\ SendOff /\ PagesOff
    /\ \E how \in {"api", "identity"} : NoSessions(how, "on", TRUE)

RequestsInit ==
    /\ subject = "webhooks" /\ SendInit
    /\ NoSessions("api", "unused", FALSE) /\ PagesOff

PagesInit ==
    /\ subject \in {"lists", "schedules"} /\ PagesOff
    /\ SendOff /\ NoSessions("api", "unused", FALSE)

MCInit == SignInInit \/ TimedInit \/ RequestsInit \/ PagesInit

SessionsNext ==
    /\ \/ subject = "signin" /\ (Requests \/ Around)
       \/ subject = "sessions" /\ (Requests \/ OtherDeletes(1) \/ Tick) /\ Made' = Made
    /\ UNCHANGED <<subject, sendVars, historyVars, textVars>>

WebhooksNext ==
    subject = "webhooks" /\ SendNext /\ UNCHANGED <<subject, sessionVars, historyVars, textVars>>

ListsNext ==
    subject = "lists" /\ HistoryNext /\ UNCHANGED <<subject, sessionVars, sendVars, textVars>>

SchedulesNext ==
    subject = "schedules" /\ TextNext /\ UNCHANGED <<subject, sessionVars, sendVars, historyVars>>

MCNext == SessionsNext \/ WebhooksNext \/ ListsNext \/ SchedulesNext

MCSpec == MCInit /\ [][MCNext]_<<sessionVars, sendVars, historyVars, textVars, subject>>

Symmetry == Permutations(Req)
=============================================================================
