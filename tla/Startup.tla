------------------------------ MODULE Startup -------------------------------
(***************************************************************************)
(* One run of "cronlite serve": reading and validating the environment,    *)
(* opening what the process needs, starting its loops, and the way out,    *)
(* from every early return as well as after a signal.                      *)
(*                                                                         *)
(* A setting is a text; what a duration or a count reads as is looked up   *)
(* in a table, in milliseconds for durations.                              *)
(***************************************************************************)
EXTENDS Integers, FiniteSets

CONSTANTS Groups,     \* sets of settings that are varied together
          MaxInt      \* the largest int

VARIABLES env,         \* Settings -> text
          supported,   \* the binary is built with Tailscale support
          at,          \* where runServe is
          code,        \* the exit code it is returning with
          held,        \* what it has opened and not closed
          running      \* its goroutines

startVars == <<env, supported, at, code, held, running>>
-----------------------------------------------------------------------------
(* Reading the environment.                                                *)

DurationDefaults ==
    [TICK_INTERVAL |-> "30s", DB_OP_TIMEOUT |-> "5s", MIGRATE_LOCK_TIMEOUT |-> "2m",
     RECONCILE_INTERVAL |-> "5m", RECONCILE_THRESHOLD |-> "19m",
     RECONCILE_REQUEUE_THRESHOLD |-> "2m", CIRCUIT_BREAKER_COOLDOWN |-> "2m",
     DB_POLL_INTERVAL |-> "500ms", LEADER_RETRY_INTERVAL |-> "5s",
     LEADER_HEARTBEAT_INTERVAL |-> "2s", ADMIN_SESSION_TTL |-> "30m",
     ADMIN_SESSION_ABSOLUTE_TTL |-> "12h"]

CountDefaults ==
    [DISPATCHER_WORKERS |-> 1, DB_MAX_OPEN_CONNS |-> 25, EVENTBUS_BUFFER_SIZE |-> 100,
     RECONCILE_BATCH_SIZE |-> 100, MAX_FIRES_PER_TICK |-> 1000, RATE_LIMIT |-> 10,
     NAMESPACE_RATE_LIMIT |-> 100]

Switches ==
    {"MIGRATE_ON_START", "METRICS_ENABLED", "RECONCILE_ENABLED", "ADMIN_ENABLED",
     "WEBHOOK_ALLOW_TAILNET", "TS_LISTEN", "TS_DISABLE_PUBLIC_LISTENER", "TS_IDENTITY_LOGIN"}

Names ==
    {"CRONLITE_ENV", "DATABASE_URL", "REDIS_ADDR", "API_KEY", "DISPATCH_MODE",
     "ADMIN_COOKIE_SECURE", "WEBHOOK_ALLOWED_PRIVATE_SUFFIXES", "WEBHOOK_TAILNET_HOSTS",
     "TS_HOSTNAME", "TS_STATE_DIR"}

Settings ==
    DOMAIN DurationDefaults \cup DOMAIN CountDefaults \cup Switches \cup Names
        \cup {"CIRCUIT_BREAKER_THRESHOLD"}

ASSUME StartAssumption == MaxInt \in Nat /\ \A group \in Groups : group \subseteq Settings

\* time.ParseDuration, which gives zero with its error.
Millis(text) ==
    CASE text \in {"bad", "0s"} -> 0
      [] text = "1ms" -> 1          [] text = "500ms" -> 500
      [] text = "2s" -> 2000        [] text = "5s" -> 5000
      [] text = "29s" -> 29000      [] text = "30s" -> 30000
      [] text = "2m" -> 120000      [] text = "5m" -> 300000
      [] text = "16m" -> 960000     [] text = "16m30s" -> 990000
      [] text = "19m" -> 1140000
      [] text = "30m" -> 1800000    [] text = "12h" -> 43200000

\* strconv.ParseUint, zero with its error.
Number(text) ==
    CASE text \in {"bad", "0"} -> 0
      [] text = "1" -> 1  [] text = "2" -> 2  [] text = "9" -> 9

Duration(e, s) == Millis(IF e[s] = "" THEN DurationDefaults[s] ELSE e[s])

\* Mutant: what was read is taken.
CountAsParsed(e, s) == IF e[s] = "" THEN CountDefaults[s] ELSE Number(e[s])

\* A count that is not a positive integer is replaced by the default.
Count(e, s) ==
    IF e[s] # "" /\ Number(e[s]) > 0 THEN Number(e[s]) ELSE CountDefaults[s]

\* An unset threshold is five; one that does not parse leaves zero.
BreakerThreshold(e) ==
    IF e["CIRCUIT_BREAKER_THRESHOLD"] = "" THEN 5 ELSE Number(e["CIRCUIT_BREAKER_THRESHOLD"])

On(e, s) == e[s] = "true"

DispatchMode(e) == IF e["DISPATCH_MODE"] = "" THEN "channel" ELSE e["DISPATCH_MODE"]
Production(e) == e["CRONLITE_ENV"] = "production"

CookieSecure(e) ==
    IF e["ADMIN_COOKIE_SECURE"] = "" THEN Production(e) ELSE On(e, "ADMIN_COOKIE_SECURE")

TailnetEnabled(e) == On(e, "WEBHOOK_ALLOW_TAILNET") \/ On(e, "TS_LISTEN")
-----------------------------------------------------------------------------
(* Validate.                                                               *)

MaxRetryDuration == 990000

MinimumLease(e) == IF e["CRONLITE_ENV"] = "benchmark" THEN 1 ELSE 30000

ValidLeader(e) ==
    DispatchMode(e) = "db" =>
        /\ Count(e, "DB_MAX_OPEN_CONNS") # 1
        /\ \A s \in {"DB_POLL_INTERVAL", "LEADER_RETRY_INTERVAL", "LEADER_HEARTBEAT_INTERVAL"} :
               Duration(e, s) > 0
        /\ Duration(e, "LEADER_HEARTBEAT_INTERVAL") < Duration(e, "LEADER_RETRY_INTERVAL")

ValidTailnet(e, built) ==
    TailnetEnabled(e) =>
        /\ built
        /\ e["TS_STATE_DIR"] # ""
        /\ e["TS_HOSTNAME"] # "bad"
        /\ On(e, "WEBHOOK_ALLOW_TAILNET") => e["WEBHOOK_TAILNET_HOSTS"] \notin {"", "bad"}

\* Identity sign-in asks for the tailnet and the pages behind it.
ValidSignIn(e) ==
    On(e, "TS_IDENTITY_LOGIN") => On(e, "TS_LISTEN") /\ On(e, "ADMIN_ENABLED")

ValidListeners(e) ==
    /\ On(e, "TS_DISABLE_PUBLIC_LISTENER") => On(e, "TS_LISTEN")
    /\ ValidSignIn(e)

ValidReconciler(e) ==
    On(e, "RECONCILE_ENABLED") =>
        /\ Duration(e, "RECONCILE_INTERVAL") > 0
        /\ Duration(e, "RECONCILE_THRESHOLD") >= MaxRetryDuration

ValidAdmin(e) ==
    On(e, "ADMIN_ENABLED") =>
        /\ Duration(e, "ADMIN_SESSION_TTL") > 0
        /\ Duration(e, "ADMIN_SESSION_ABSOLUTE_TTL") >= Duration(e, "ADMIN_SESSION_TTL")

ValidProduction(e) ==
    Production(e) =>
        /\ DispatchMode(e) = "db"
        /\ On(e, "RECONCILE_ENABLED") /\ On(e, "METRICS_ENABLED")
        /\ e["API_KEY"] # ""
        /\ On(e, "ADMIN_ENABLED") => CookieSecure(e)

Validate(e, built) ==
    /\ e["DATABASE_URL"] # ""
    /\ DispatchMode(e) \in {"channel", "db"}
    /\ \A s \in {"TICK_INTERVAL", "DB_OP_TIMEOUT", "MIGRATE_LOCK_TIMEOUT"} : Duration(e, s) > 0
    /\ Count(e, "DISPATCHER_WORKERS") <= MaxInt \div 4
    /\ Duration(e, "RECONCILE_REQUEUE_THRESHOLD") >= MinimumLease(e)
    /\ e["WEBHOOK_ALLOWED_PRIVATE_SUFFIXES"] # "bad"
    /\ ~On(e, "WEBHOOK_ALLOW_TAILNET") => e["WEBHOOK_TAILNET_HOSTS"] = ""
    /\ BreakerThreshold(e) > 0 => Duration(e, "CIRCUIT_BREAKER_COOLDOWN") > 0
    /\ ValidLeader(e) /\ ValidTailnet(e, built) /\ ValidListeners(e)
    /\ ValidReconciler(e) /\ ValidAdmin(e) /\ ValidProduction(e)
-----------------------------------------------------------------------------
(* runServe up to the start of its loops.                                  *)

\* Environments: one that starts, with at most two settings of one group changed.
Plain == [s \in Settings |-> IF s = "DATABASE_URL" THEN "set" ELSE ""]

Strict ==
    [Plain EXCEPT !["CRONLITE_ENV"] = "production", !["DISPATCH_MODE"] = "db",
                  !["RECONCILE_ENABLED"] = "true", !["METRICS_ENABLED"] = "true",
                  !["API_KEY"] = "set", !["ADMIN_ENABLED"] = "true",
                  !["REDIS_ADDR"] = "set", !["MIGRATE_ON_START"] = "true"]

OnTailnet ==
    [Plain EXCEPT !["DISPATCH_MODE"] = "db", !["RECONCILE_ENABLED"] = "true",
                  !["ADMIN_ENABLED"] = "true", !["WEBHOOK_ALLOW_TAILNET"] = "true",
                  !["WEBHOOK_TAILNET_HOSTS"] = "set", !["TS_STATE_DIR"] = "set",
                  !["TS_LISTEN"] = "true", !["TS_IDENTITY_LOGIN"] = "true"]

Texts(s) ==
    CASE s \in DOMAIN DurationDefaults -> {"", "bad", "1ms", "29s", "16m", "16m30s", "12h"}
      [] s \in DOMAIN CountDefaults -> {"", "bad", "1", "9"}
      [] s = "CIRCUIT_BREAKER_THRESHOLD" -> {"", "bad", "2"}
      [] s \in Switches \cup {"ADMIN_COOKIE_SECURE"} -> {"", "true", "bad"}
      [] s = "CRONLITE_ENV" -> {"", "production", "benchmark"}
      [] s = "DISPATCH_MODE" -> {"", "db", "bad"}
      [] s \in Names \ {"ADMIN_COOKIE_SECURE", "CRONLITE_ENV", "DISPATCH_MODE"} ->
             {"", "set", "bad"}

AtLoad == at = "load" /\ code = "none" /\ held = {} /\ running = {}

StartInit ==
    /\ \E base \in {Plain, Strict, OnTailnet}, group \in Groups :
           \E a, b \in group : \E x \in Texts(a), y \in Texts(b) :
               env = [base EXCEPT ![a] = x, ![b] = y]
    /\ supported \in BOOLEAN
    /\ AtLoad

GoTo(next) == at' = next /\ UNCHANGED <<env, supported, code>>

Return(c) == at' = "return" /\ code' = c /\ UNCHANGED <<env, supported>>

LoadAndValidate ==
    /\ at = "load"
    /\ IF Validate(env, supported) THEN GoTo("open") ELSE Return("config")
    /\ UNCHANGED <<held, running>>

OpenDatabase ==
    /\ at = "open"
    /\ \/ GoTo("migrate") /\ held' = held \cup {"db"}
       \/ Return("error") /\ held' \in {held, held \cup {"db"}}    \* Open or Ping fails
    /\ UNCHANGED running

ApplyMigrations ==
    /\ at = "migrate"
    /\ GoTo("probe") \/ (On(env, "MIGRATE_ON_START") /\ Return("error"))
    /\ UNCHANGED <<held, running>>

ProbeExecutionOwnership ==
    /\ at = "probe"
    /\ GoTo("node") \/ Return("config")
    /\ UNCHANGED <<held, running>>

\* The allowlist and, with tailnet delivery, the policy parse: Validate parsed them.
StartNode ==
    /\ at = "node"
    /\ \/ ~TailnetEnabled(env) /\ GoTo("assemble") /\ UNCHANGED held
       \/ TailnetEnabled(env) /\ GoTo("assemble") /\ held' = held \cup {"node"}
       \/ TailnetEnabled(env) /\ Return("error") /\ UNCHANGED held
    /\ UNCHANGED running

NewHandlerAccepts ==
    /\ Duration(env, "ADMIN_SESSION_TTL") > 0 /\ Duration(env, "ADMIN_SESSION_ABSOLUTE_TTL") > 0
    /\ Duration(env, "ADMIN_SESSION_ABSOLUTE_TTL") >= Duration(env, "ADMIN_SESSION_TTL")

\* Sender, bus, scheduler, dispatcher, service and the handlers: nothing here
\* can fail but the admin UI, which checks its session lifetimes again.
Assemble ==
    /\ at = "assemble"
    /\ held' = held \cup {"app", "mcp"} \cup (IF env["REDIS_ADDR"] # "" THEN {"redis"} ELSE {})
    /\ IF On(env, "ADMIN_ENABLED") /\ ~NewHandlerAccepts THEN Return("error") ELSE GoTo("listen")
    /\ UNCHANGED running

Listeners == {"public", "tls"}

Listen ==
    /\ at = "listen"
    /\ \/ On(env, "TS_DISABLE_PUBLIC_LISTENER") /\ GoTo("tls") /\ UNCHANGED held
       \/ /\ ~On(env, "TS_DISABLE_PUBLIC_LISTENER")
          /\ \/ GoTo("tls") /\ held' = held \cup {"public"}
             \/ Return("error") /\ UNCHANGED held
    /\ UNCHANGED running

\* A failure closes the listeners that are open.
ListenTLS ==
    /\ at = "tls"
    /\ IF ~On(env, "TS_LISTEN")
       THEN GoTo("start") /\ UNCHANGED <<held, running>>
       ELSE \/ GoTo("redirect") /\ held' = held \cup {"tls"} /\ running' = running \cup {"warm"}
            \/ Return("error") /\ held' = held \ Listeners /\ UNCHANGED running

ListenHTTP ==
    /\ at = "redirect"
    /\ \/ GoTo("start") /\ held' = held \cup {"redirect"}
       \/ Return("error") /\ held' = held \ Listeners
    /\ UNCHANGED running

\* The goroutines of the servers, the dispatcher and, behind the leader's lock
\* in db mode, the scheduler and the reconciler.
StartLoops ==
    /\ at = "start" /\ GoTo("serving")
    /\ running' = running \cup {"http", "dispatcher"}
           \cup (IF "redirect" \in held THEN {"redirect"} ELSE {})
           \cup (IF DispatchMode(env) = "db" THEN {"elector"} ELSE {"scheduler"})
           \cup (IF On(env, "RECONCILE_ENABLED") THEN {"reconciler"} ELSE {})
    /\ UNCHANGED held
-----------------------------------------------------------------------------
(* Serving, and the way out.                                               *)

RequestArrives ==
    /\ "http" \in running /\ "handlers" \notin running
    /\ running' = running \cup {"handlers"}
    /\ UNCHANGED <<env, supported, at, code, held>>

RequestEnds ==
    /\ "handlers" \in running /\ running' = running \ {"handlers"}
    /\ UNCHANGED <<env, supported, at, code, held>>

CertWarmed ==
    /\ "warm" \in running /\ running' = running \ {"warm"}
    /\ UNCHANGED <<env, supported, at, code, held>>

\* A signal, or a server that fails.
StopServing ==
    /\ at = "serving" /\ at' = "ingress" /\ code' \in {"ok", "error"}
    /\ UNCHANGED <<env, supported, held, running>>

\* A handler that outlasts the shutdown timeout is left behind, its context cancelled.
StopIngress ==
    /\ at = "ingress" /\ GoTo("duties")
    /\ held' = held \ (Listeners \cup {"redirect", "mcp"})
    /\ running' = running \ {"http", "redirect"}

\* The election, which stops the leader's duties; or the scheduler, then the reconciler.
StopDuties ==
    /\ at = "duties"
    /\ running' = IF "scheduler" \in running
                  THEN running \ {"scheduler"} ELSE running \ {"elector", "reconciler"}
    /\ GoTo(IF "scheduler" \in running THEN "duties" ELSE "dispatcher")
    /\ UNCHANGED held

\* Mutant: the node is closed before the drain.
CancelClosesNode ==
    /\ at = "dispatcher" /\ GoTo("drain")
    /\ held' = held \ {"node"} /\ UNCHANGED running

CancelDispatcher ==
    /\ at = "dispatcher" /\ GoTo("drain")
    /\ UNCHANGED <<held, running>>

DispatcherDrained ==
    /\ at = "drain" /\ GoTo("close")
    /\ running' = running \ {"dispatcher"} /\ UNCHANGED held

CloseTailnet ==
    /\ at = "close" /\ GoTo("return")
    /\ held' = held \ {"node"} /\ UNCHANGED running

\* The deferred calls, from the last to the first.
Deferred ==
    /\ at = "return" /\ GoTo("exit")
    /\ held' = held \ {"mcp", "app", "redis", "node", "db"}
    /\ UNCHANGED running

StartNext ==
    \/ LoadAndValidate \/ OpenDatabase \/ ApplyMigrations \/ ProbeExecutionOwnership
    \/ StartNode \/ Assemble \/ Listen \/ ListenTLS \/ ListenHTTP \/ StartLoops
    \/ RequestArrives \/ RequestEnds \/ CertWarmed \/ StopServing \/ StopIngress
    \/ StopDuties \/ CancelDispatcher \/ DispatcherDrained \/ CloseTailnet \/ Deferred

StartSpec == StartInit /\ [][StartNext]_startVars
-----------------------------------------------------------------------------
(* Properties.                                                             *)

Loops == {"http", "redirect", "dispatcher", "elector", "scheduler", "reconciler"}

\* Every variable has its type, and whoever returns has an exit code (runServe).
StartTypeOK ==
    /\ (at # "load" => env \in [Settings -> STRING]) /\ supported \in BOOLEAN
    /\ at \in {"load", "open", "migrate", "probe", "node", "assemble", "listen", "tls", "redirect",
               "start", "serving", "ingress", "duties", "dispatcher", "drain", "close", "return",
               "exit"}
    /\ code \in {"none", "ok", "error", "config"} /\ (at \in {"return", "exit"} => code # "none")
    /\ held \subseteq Listeners \cup {"db", "node", "app", "mcp", "redis", "redirect"}
    /\ running \subseteq Loops \cup {"handlers", "warm"}

Needs(loop) ==
    CASE loop \in {"http", "redirect"} -> {"app", "mcp", "db"}
      [] loop \in {"elector", "scheduler", "reconciler"} -> {"db"}
      [] loop = "dispatcher" ->
             {"db"} \cup (IF On(env, "WEBHOOK_ALLOW_TAILNET") THEN {"node"} ELSE {})

\* Nothing is closed too early or too late, on any way out (runServe's early
\* returns and deferred calls, closeTailnet).  A loop never outlives what it uses:
\* the database is there until the last one has stopped, and the tailnet node
\* until the deliveries in flight are drained.  Whichever step of the start
\* fails, and after a signal, the process returns with nothing left open and no
\* loop running.
ClosedInOrder ==
    /\ \A loop \in running \cap Loops : Needs(loop) \subseteq held
    /\ at = "exit" => held = {} /\ running \cap Loops = {}

\* Settings that validation accepts are settings the loops can run with: no
\* ticker gets an interval that panics, a leader pings before a follower may
\* retry and leaves a connection to others, delivery slots neither overflow nor
\* are none, no rate limit refuses everybody, a lease lasts, and the reconciler
\* never takes up what may still be in its retries; and a process that serves
\* can be reached where it says it can: some listener remains, identity sign-in
\* has the tailnet listener and the admin pages behind it, and tailnet delivery
\* has the node (Load, Validate, validateTailnet, and what each loop does with
\* the settings).
SettingsAreUsable ==
    /\ "scheduler" \in running =>
           Duration(env, "TICK_INTERVAL") > 0 /\ Count(env, "MAX_FIRES_PER_TICK") > 0
    /\ "reconciler" \in running =>
           /\ Duration(env, "RECONCILE_INTERVAL") > 0 /\ Count(env, "RECONCILE_BATCH_SIZE") > 0
           /\ Duration(env, "RECONCILE_THRESHOLD") >= MaxRetryDuration
    /\ "elector" \in running =>
           /\ Duration(env, "TICK_INTERVAL") > 0 /\ Count(env, "MAX_FIRES_PER_TICK") > 0
           /\ Duration(env, "LEADER_HEARTBEAT_INTERVAL") \in 1..Duration(env, "LEADER_RETRY_INTERVAL") - 1
           /\ Duration(env, "DB_POLL_INTERVAL") > 0
           /\ Count(env, "DB_MAX_OPEN_CONNS") > 1
    /\ "http" \in running =>
           Count(env, "RATE_LIMIT") > 0 /\ Count(env, "NAMESPACE_RATE_LIMIT") > 0
    /\ "dispatcher" \in running =>
           /\ 4 * Count(env, "DISPATCHER_WORKERS") \in 1..MaxInt
           /\ Count(env, "EVENTBUS_BUFFER_SIZE") > 0
           /\ Duration(env, "RECONCILE_REQUEUE_THRESHOLD") > 0
           /\ BreakerThreshold(env) > 0 => Duration(env, "CIRCUIT_BREAKER_COOLDOWN") > 0
    /\ at = "serving" =>
           /\ held \cap Listeners # {}
           /\ On(env, "TS_IDENTITY_LOGIN") => {"tls", "node"} \subseteq held /\ On(env, "ADMIN_ENABLED")
           /\ On(env, "WEBHOOK_ALLOW_TAILNET") => "node" \in held /\ env["WEBHOOK_TAILNET_HOSTS"] = "set"
=============================================================================
