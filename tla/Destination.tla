----------------------------- MODULE Destination -----------------------------
(***************************************************************************)
(* Where a webhook request may go: the tailnet host policy on every request *)
(* and redirect, the guard on every address dialled, and the connections    *)
(* the transport keeps and reuses between requests of different namespaces. *)
(*                                                                          *)
(* Source: internal/dispatcher/webhook.go, internal/webhookurl.  DNS, the   *)
(* peers' answers and net/http's connection pool are external.              *)
(*                                                                          *)
(* A host is <<kind, value>>.  Kinds "tail", "wide", "odd" and "deep" are    *)
(* names under the tailnet's suffix: one label, one label in a non-ASCII     *)
(* spelling IDNA maps to it, in one IDNA cannot map, and two labels; "name"  *)
(* and "sub" are another hostname and a subdomain of it; "lit" is a literal *)
(* address.  An address is <<form, range>>.                                 *)
(***************************************************************************)
EXTENDS Naturals, Sequences, FiniteSets

CONSTANTS
    Sender,        \* requests in progress at once
    Namespace,
    Label,         \* single labels under the suffix
    Name,          \* other hostnames
    Addr,          \* addresses DNS may answer, a subset of AllAddr
    RawPolicies,   \* values of the policy setting: sequences of [ns, hosts]
    RawAllowlists, \* values of the allowlist setting: sets of <<kind, name>>
    MaxRequests,   \* requests of one Send, redirects included: 10 in the code
    MaxIdleConns   \* idle connections kept: 100 in the code

V4 == {"public", "private", "local", "node", "self", "service"}
AllAddr == ({"plain", "mapped", "nat64"} \X V4) \cup ({"plain", "zoned"} \X {"node6", "private6"})
Host == ({"tail", "wide", "odd", "deep"} \X Label) \cup ({"name", "sub"} \X Name)
        \cup ({"lit"} \X Addr)

ASSUME DestinationAssumption == Addr \subseteq AllAddr /\ {MaxRequests, MaxIdleConns} \subseteq Nat \ {0}

VARIABLES
    policy,      \* the parsed policy, or Nil
    allowlist,   \* the parsed allowlist
    tailnet,     \* the node is up and has a suffix
    send,        \* what each sender is doing
    pool         \* idle connections: [host, addr, via]

sendVars == <<policy, allowlist, tailnet, send, pool>>

Nil == [x \in {} |-> {}]
Refused == [x \in {"refused"} |-> {}]
Idle == [pc |-> "idle"]
-----------------------------------------------------------------------------
(* The settings *)

PolicyHost(h) == h \in Label \cup {"*"}

\* A policy maps the namespaces listed, "*" among them, to hosts; every host is
\* one label or "*", and no namespace is listed twice.
ParseTailnetPolicy(raw) ==
    LET listed == {raw[i].ns : i \in DOMAIN raw}
    IN IF \/ raw = << >>
          \/ Cardinality(listed) < Len(raw)
          \/ \E i \in DOMAIN raw : raw[i].hosts = {} \/ \E h \in raw[i].hosts : ~PolicyHost(h)
         THEN Refused
         ELSE [ns \in listed |-> UNION {raw[i].hosts : i \in {j \in DOMAIN raw : raw[j].ns = ns}}]

Matches(h) ==
    \/ h[1] = "name" /\ (<<"exact", h[2]>> \in allowlist \/ <<"suffix", h[2]>> \in allowlist)
    \/ h[1] = "sub" /\ <<"suffix", h[2]>> \in allowlist
-----------------------------------------------------------------------------
(* The checks *)

Under(h) == h[1] \in {"tail", "wide", "odd", "deep"}

\* The namespace's own entry and the "*" entry count together.
Allows(ns, label) ==
    \E key \in {ns, "*"} \cap DOMAIN policy : policy[key] \cap {label, "*"} # {}

\* Judged as the transport dials it: IDNA first, refused when it cannot be
\* mapped; only a single label can be allowed.
CheckTailnet(ns, h) ==
    tailnet /\ Under(h) => h[1] \in {"tail", "wide"} /\ Allows(ns, h[2])

\* The host the transport dials and pools by.
DialName(h) == IF h[1] = "wide" THEN <<"tail", h[2]>> ELSE h

\* tailnetHost, which only knows ASCII names.
TailnetHost(h) == tailnet /\ h[1] \in {"tail", "odd", "deep"}

Unmap(a) == IF a[1] = "mapped" THEN <<"plain", a[2]>> ELSE a

\* Mutant: a NAT64 form is not unwrapped.
CheckPlainOnly(a, allowPrivate) ==
    /\ a[1] # "zoned"
    /\ Unmap(a)[1] = "plain" => a[2] \notin {"local", "node", "self", "service"}
    /\ a[2] \in {"private", "private6", "node6"} => allowPrivate

\* The guard of the public path: mapped and NAT64 forms count as the IPv4
\* address they carry.
CheckAddr(a, allowPrivate) ==
    /\ a[1] # "zoned"
    /\ a[2] \notin {"local", "node", "self", "service"}
    /\ a[2] \in {"private", "private6", "node6"} => allowPrivate

\* The guard of the tailnet path: a node, not a service and not this node.
CheckTailnetAddr(a) ==
    /\ a[1] # "zoned" /\ Unmap(a)[1] = "plain"
    /\ a[2] \in {"node", "node6"}

\* What job creation refuses of a literal.
Validate(h) == h[1] = "lit" => h[2][1] = "nat64" \/ h[2][2] \notin {"local", "private", "private6", "node6"}
-----------------------------------------------------------------------------
\* What the settings may parse to; an unset policy stays nil, and a setting that
\* is refused keeps the process from starting.
Policies == ({ParseTailnetPolicy(raw) : raw \in RawPolicies} \cup {Nil}) \ {Refused}
ParseAllowlist == {raw \in RawAllowlists : \A e \in raw : e[1] \in {"exact", "suffix"}}

SendInit ==
    /\ policy \in Policies /\ allowlist \in ParseAllowlist /\ tailnet \in BOOLEAN
    /\ send = [s \in Sender |-> Idle] /\ pool = {}

Settings == UNCHANGED <<policy, allowlist, tailnet>>
Becomes(s, r) == send' = [send EXCEPT ![s] = r]

\* Send checks the URL's host before any connection, pooled or new.
Send(s, ns, h) ==
    /\ send[s].pc = "idle"
    /\ CheckTailnet(ns, h)
    /\ Becomes(s, [pc |-> "get", ns |-> ns, host |-> h, made |-> 1])
    /\ UNCHANGED pool /\ Settings

\* The request is under way on connection c.
Carries(s, c) ==
    Becomes(s, [pc |-> "sent", ns |-> send[s].ns, host |-> send[s].host, made |-> send[s].made,
                conn |-> c])

\* A pooled connection to the same host serves the request without a dial.
Reuse(s) ==
    /\ send[s].pc = "get"
    /\ \E c \in pool :
          /\ c.host = DialName(send[s].host)
          /\ pool' = pool \ {c}
          /\ Carries(s, c)
    /\ Settings

\* Every answer has to pass; the addresses dialled are the ones checked.
Checked(s, answers, ok(_)) ==
    /\ \A a \in answers : ok(a)
    /\ Becomes(s, [pc |-> "dial", ns |-> send[s].ns, host |-> send[s].host, made |-> send[s].made,
                   checked |-> {Unmap(a) : a \in answers}])

\* RoutedDialContext: a host under the suffix is resolved by MagicDNS and
\* dialled over the tailnet, ...
TailnetDial(s, answers) ==
    /\ send[s].pc = "get" /\ TailnetHost(DialName(send[s].host))
    /\ Checked(s, answers, CheckTailnetAddr)
    /\ UNCHANGED pool /\ Settings

\* ... any other through the public guard: a literal is its own answer and is
\* never allowlisted.
GuardedDial(s, answers) ==
    LET h == DialName(send[s].host)
    IN /\ send[s].pc = "get" /\ ~TailnetHost(h)
       /\ h[1] = "lit" => answers = {h[2]}
       /\ Checked(s, answers, LAMBDA a : CheckAddr(a, Matches(h)))
       /\ UNCHANGED pool /\ Settings

\* The checked addresses are tried until one answers.
Connects(s) ==
    /\ send[s].pc = "dial"
    /\ \E a \in send[s].checked :
          LET h == DialName(send[s].host)
          IN Carries(s, [host |-> h, addr |-> a,
                         via |-> IF TailnetHost(h) THEN "tailnet" ELSE "public"])
    /\ UNCHANGED pool /\ Settings

\* The response releases the connection, to the pool or for good.
Released(s) ==
    \/ pool' = pool
    \/ Cardinality(pool) < MaxIdleConns /\ pool' = pool \cup {send[s].conn}

Responds(s) ==
    /\ send[s].pc = "sent"
    /\ Becomes(s, Idle)
    /\ Released(s) /\ Settings

\* CheckRedirect: not after MaxRequests requests, and the policy again for the
\* namespace the context carries.
Redirect(s, h) ==
    /\ send[s].pc = "sent"
    /\ send[s].made < MaxRequests
    /\ CheckTailnet(send[s].ns, h)
    /\ Becomes(s, [pc |-> "get", ns |-> send[s].ns, host |-> h, made |-> send[s].made + 1])
    /\ Released(s) /\ Settings

\* Timeout, refused address, failed lookup or dial, refused redirect.
SendFails(s) ==
    /\ send[s].pc # "idle"
    /\ Becomes(s, Idle)
    /\ UNCHANGED pool /\ Settings

\* IdleConnTimeout, or the peer closes.
ConnCloses ==
    /\ \E c \in pool : pool' = pool \ {c}
    /\ UNCHANGED send /\ Settings

\* The process restarts with other settings.
Restart ==
    /\ policy' \in Policies /\ allowlist' \in ParseAllowlist /\ tailnet' \in BOOLEAN
    /\ send' = [s \in Sender |-> Idle] /\ pool' = {}

Answers == {as \in SUBSET Addr : as # {} /\ Cardinality(as) <= 2}

SendNext ==
    \/ \E s \in Sender :
          \/ \E ns \in Namespace, h \in Host : Send(s, ns, h)
          \/ \E h \in Host : Redirect(s, h)
          \/ \E as \in Answers : TailnetDial(s, as) \/ GuardedDial(s, as)
          \/ Reuse(s) \/ Connects(s) \/ Responds(s) \/ SendFails(s)
    \/ ConnCloses \/ Restart

SendSpec == SendInit /\ [][SendNext]_sendVars
-----------------------------------------------------------------------------
\* Types; in particular a Send never makes more requests than its limit.
SendTypeOK ==
    /\ pool \subseteq [host : Host, addr : AllAddr, via : {"tailnet", "public"}]
    /\ \A s \in Sender :
          send[s].pc # "idle" =>
             /\ send[s].pc \in {"get", "dial", "sent"} /\ send[s].ns \in Namespace
             /\ send[s].host \in Host /\ send[s].made \in 1 .. MaxRequests

Sent == {s \in Sender : send[s].pc = "sent"}

\* Every request goes where it may, whatever DNS, redirects and pooled
\* connections do.
\* - No request of a namespace is carried to a tailnet host the policy in force
\*   does not give that namespace: not by a connection another namespace opened,
\*   not after a redirect, not by another spelling of the host (webhook.go: "a
\*   connection dialled for one namespace can carry another namespace's request
\*   without a new dial").
\* - The address it is sent to passed the guard of its own path: over the tailnet
\*   another node, over the public path no blocked address in whatever form, a
\*   private one only under an allowlisted name, and never a literal job creation
\*   would have refused.
\* - A name under the suffix is reached over the tailnet exactly while the node
\*   is up.
DestinationKept ==
    \A s \in Sent :
       LET c == send[s].conn
       IN /\ c.via = "tailnet" =>
                /\ c.host[1] = "tail" /\ c.addr[2] \in {"node", "node6"}
                /\ \E key \in DOMAIN policy \cap {send[s].ns, "*"} :
                      policy[key] \cap {c.host[2], "*"} # {}
          /\ c.via = "public" =>
                /\ c.addr[2] \notin {"local", "node", "self", "service"}
                /\ c.addr[2] \in {"private", "private6", "node6"} => Matches(c.host)
                /\ Validate(send[s].host)
          /\ c.via = "tailnet" <=> tailnet /\ Under(send[s].host)
=============================================================================
