--------------------------- MODULE ProcessProofs ----------------------------
(***************************************************************************)
(* A process from its start to its stop, whatever its settings, and, for   *)
(* any number of executions, its deliveries in channel mode.               *)
(***************************************************************************)
EXTENDS Startup, ChannelMode, FiniteSetTheorems, TLAPS

(***************************************************************************)
(* Startup.  Where runServe is says what is open, which loops may run and  *)
(* that the settings were accepted.                                        *)
(***************************************************************************)
Stages ==
    {"load", "open", "migrate", "probe", "node", "assemble", "listen", "tls", "redirect", "start",
     "serving", "ingress", "duties", "dispatcher", "drain", "close", "return", "exit"}
BeforeLoops ==
    {"load", "open", "migrate", "probe", "node", "assemble", "listen", "tls", "redirect", "start"}
Quiet == BeforeLoops \cup {"close", "return", "exit"}
Deaf ==
    {"load", "open", "migrate", "probe", "node", "assemble", "listen",
     "duties", "dispatcher", "drain", "close", "return", "exit"}

\* The environment is one of those that StartInit describes.
EnvOK == \A s \in Settings : env[s] \in Texts(s)

LoopsPlaced ==
    /\ at \in Quiet => running \cap Loops = {}
    /\ at = "duties" => running \cap Loops \subseteq {"elector", "scheduler", "reconciler", "dispatcher"}
    /\ at \in {"dispatcher", "drain"} => running \cap Loops \subseteq {"dispatcher"}
    /\ "elector" \in running => DispatchMode(env) = "db"
    /\ "reconciler" \in running => On(env, "RECONCILE_ENABLED")

HeldPlaced ==
    /\ at \notin {"load", "open", "return", "exit"} => "db" \in held
    /\ at \in {"listen", "tls", "redirect", "start", "serving", "ingress"} => {"app", "mcp"} \subseteq held
    /\ at \in Deaf => held \cap {"public", "tls", "redirect"} = {}
    /\ at \in {"tls", "redirect"} => "redirect" \notin held
    /\ at \in Stages \ {"load", "open", "migrate", "probe", "node", "return", "exit"}
         /\ TailnetEnabled(env) => "node" \in held
    /\ at \in {"tls", "redirect", "start", "serving"} /\ ~On(env, "TS_DISABLE_PUBLIC_LISTENER")
         => "public" \in held
    /\ at = "redirect" \/ (at \in {"start", "serving"} /\ On(env, "TS_LISTEN")) => "tls" \in held
    /\ at = "exit" => held = {}

StartIInv ==
    /\ at \in Stages /\ code \in {"none", "ok", "error", "config"} /\ supported \in BOOLEAN
    /\ held \subseteq Listeners \cup {"db", "node", "app", "mcp", "redis", "redirect"}
    /\ running \subseteq Loops \cup {"handlers", "warm"}
    /\ at \in {"ingress", "duties", "dispatcher", "drain", "close", "return", "exit"} => code # "none"
    /\ EnvOK /\ LoopsPlaced /\ HeldPlaced
    /\ at \notin {"load", "return", "exit"} => Validate(env, supported)

\* The names of the settings, spelled out.
LEMMA SettingNames ==
    /\ DOMAIN DurationDefaults =
         {"TICK_INTERVAL", "DB_OP_TIMEOUT", "MIGRATE_LOCK_TIMEOUT", "RECONCILE_INTERVAL",
          "RECONCILE_THRESHOLD", "RECONCILE_REQUEUE_THRESHOLD", "CIRCUIT_BREAKER_COOLDOWN",
          "DB_POLL_INTERVAL", "LEADER_RETRY_INTERVAL", "LEADER_HEARTBEAT_INTERVAL",
          "ADMIN_SESSION_TTL", "ADMIN_SESSION_ABSOLUTE_TTL"}
    /\ DOMAIN CountDefaults =
         {"DISPATCHER_WORKERS", "DB_MAX_OPEN_CONNS", "EVENTBUS_BUFFER_SIZE",
          "RECONCILE_BATCH_SIZE", "MAX_FIRES_PER_TICK", "RATE_LIMIT", "NAMESPACE_RATE_LIMIT"}
BY DEF DurationDefaults, CountDefaults

\* The environments to start from have texts of each setting.
LEMMA BaseTexts ==
    ASSUME NEW s \in Settings
    PROVE  /\ Plain[s] \in Texts(s) /\ Strict[s] \in Texts(s) /\ OnTailnet[s] \in Texts(s)
<1> USE SettingNames DEF Texts, Settings, Switches, Names
<1>1. Plain[s] \in Texts(s)
  BY Zenon DEF Plain
<1>2. Strict[s] \in Texts(s)
  BY <1>1, ZenonT(40) DEF Plain, Strict
<1>3. OnTailnet[s] \in Texts(s)
  BY <1>1, ZenonT(40) DEF Plain, OnTailnet
<1>4. QED
  BY <1>1, <1>2, <1>3, Zenon

\* The process begins with nothing open (runServe).
LEMMA ProcessStarts == StartInit => StartIInv
<1> SUFFICES ASSUME StartInit PROVE StartIInv
  OBVIOUS
<1>1. EnvOK
  <2>1. PICK base \in {Plain, Strict, OnTailnet}, group \in Groups :
             \E a, b \in group : \E x \in Texts(a), y \in Texts(b) :
               env = [base EXCEPT ![a] = x, ![b] = y]
    BY Zenon DEF StartInit
  <2>2. PICK a \in group, b \in group : \E x \in Texts(a), y \in Texts(b) :
               env = [base EXCEPT ![a] = x, ![b] = y]
    BY <2>1, Zenon
  <2>3. PICK x \in Texts(a), y \in Texts(b) : env = [base EXCEPT ![a] = x, ![b] = y]
    BY <2>2, Zenon
  <2>4. a \in Settings /\ b \in Settings
    BY StartAssumption
  <2>5. DOMAIN base = Settings
    BY Zenon DEF Plain, Strict, OnTailnet
  <2>6. \A s \in Settings : base[s] \in Texts(s)
    BY BaseTexts
  <2>7. QED
    BY <2>3, <2>4, <2>5, <2>6 DEF EnvOK
<1>2. /\ at = "load" /\ code = "none" /\ held = {} /\ running = {} /\ supported \in BOOLEAN
  BY DEF StartInit, AtLoad
<1>3. QED
  BY <1>1, <1>2 DEF StartIInv, LoopsPlaced, HeldPlaced, Stages, Deaf

\* The steps of the start (runServe up to its loops).
LEMMA ProcessOpens ==
    ASSUME StartIInv,
           \/ LoadAndValidate \/ OpenDatabase \/ ApplyMigrations \/ ProbeExecutionOwnership
           \/ StartNode \/ Assemble \/ Listen \/ ListenTLS \/ ListenHTTP
    PROVE  StartIInv'
<1> USE DEF StartIInv, LoopsPlaced, HeldPlaced, Stages, Deaf, Quiet, BeforeLoops, Listeners, Loops,
        GoTo, Return
<1>1. UNCHANGED <<env, supported>>
  BY Zenon DEF LoadAndValidate, OpenDatabase, ApplyMigrations, ProbeExecutionOwnership, StartNode,
     Assemble, Listen, ListenTLS, ListenHTTP
<1>a. (EnvOK <=> EnvOK') /\ (Validate(env, supported) <=> Validate(env, supported)')
  BY <1>1 DEF EnvOK
<1>2. CASE LoadAndValidate
  <2>1. LoopsPlaced'
    BY <1>1, <1>2 DEF LoadAndValidate
  <2>2. HeldPlaced'
    BY <1>1, <1>2 DEF LoadAndValidate
  <2>3. QED
    BY <1>1, <1>a, <1>2, <2>1, <2>2 DEF LoadAndValidate
<1>3. CASE OpenDatabase
  <2>1. LoopsPlaced'
    BY <1>1, <1>3 DEF OpenDatabase
  <2>2. HeldPlaced'
    BY <1>1, <1>3 DEF OpenDatabase
  <2>3. QED
    BY <1>1, <1>a, <1>3, <2>1, <2>2, Zenon DEF OpenDatabase
<1>4. CASE ApplyMigrations
  <2>1. LoopsPlaced'
    BY <1>1, <1>4 DEF ApplyMigrations
  <2>2. HeldPlaced'
    BY <1>1, <1>4 DEF ApplyMigrations
  <2>3. QED
    BY <1>1, <1>a, <1>4, <2>1, <2>2 DEF ApplyMigrations
<1>5. CASE ProbeExecutionOwnership
  <2>1. LoopsPlaced'
    BY <1>1, <1>5 DEF ProbeExecutionOwnership
  <2>2. HeldPlaced'
    BY <1>1, <1>5 DEF ProbeExecutionOwnership
  <2>3. QED
    BY <1>1, <1>a, <1>5, <2>1, <2>2 DEF ProbeExecutionOwnership
<1>6. CASE StartNode
  <2>1. LoopsPlaced'
    BY <1>1, <1>6 DEF StartNode
  <2>2. HeldPlaced'
    BY <1>1, <1>6 DEF StartNode
  <2>3. QED
    BY <1>1, <1>a, <1>6, <2>1, <2>2, Zenon DEF StartNode
<1>7. CASE Assemble
  <2>1. LoopsPlaced'
    BY <1>1, <1>7, Zenon DEF Assemble
  <2>2. HeldPlaced'
    BY <1>1, <1>7, Zenon DEF Assemble
  <2>3. QED
    BY <1>1, <1>a, <1>7, <2>1, <2>2, ZenonT(40) DEF Assemble
<1>8. CASE Listen
  <2>1. LoopsPlaced'
    BY <1>1, <1>8 DEF Listen
  <2>2. HeldPlaced'
    BY <1>1, <1>8 DEF Listen
  <2>3. QED
    BY <1>1, <1>a, <1>8, <2>1, <2>2, Zenon DEF Listen
<1>9. CASE ListenTLS
  <2>1. LoopsPlaced'
    BY <1>1, <1>9 DEF ListenTLS
  <2>2. HeldPlaced'
    BY <1>1, <1>9 DEF ListenTLS
  <2>3. QED
    BY <1>1, <1>a, <1>9, <2>1, <2>2, ZenonT(40) DEF ListenTLS
<1>10. CASE ListenHTTP
  <2>1. LoopsPlaced'
    BY <1>1, <1>10 DEF ListenHTTP
  <2>2. HeldPlaced'
    BY <1>1, <1>10 DEF ListenHTTP
  <2>3. QED
    BY <1>1, <1>a, <1>10, <2>1, <2>2, Zenon DEF ListenHTTP
<1>11. QED
  BY <1>2, <1>3, <1>4, <1>5, <1>6, <1>7, <1>8, <1>9, <1>10, Zenon

\* The loops, the requests and the way out (runServe after its start).
LEMMA ProcessServes ==
    ASSUME StartIInv,
           \/ StartLoops \/ RequestArrives \/ RequestEnds \/ CertWarmed \/ StopServing \/ StopIngress
           \/ StopDuties \/ CancelDispatcher \/ DispatcherDrained \/ CloseTailnet \/ Deferred
    PROVE  StartIInv'
<1> USE DEF StartIInv, LoopsPlaced, HeldPlaced, Stages, Deaf, Quiet, BeforeLoops, Listeners, Loops,
        GoTo
<1>1. UNCHANGED <<env, supported>>
  BY DEF StartLoops, RequestArrives, RequestEnds, CertWarmed, StopServing, StopIngress, StopDuties,
     CancelDispatcher, DispatcherDrained, CloseTailnet, Deferred
<1>a. (EnvOK <=> EnvOK') /\ (Validate(env, supported) <=> Validate(env, supported)')
  BY <1>1 DEF EnvOK
<1>2. CASE StartLoops
  <2>1. LoopsPlaced'
    BY <1>1, <1>2 DEF StartLoops
  <2>2. HeldPlaced'
    BY <1>1, <1>2 DEF StartLoops
  <2>3. QED
    BY <1>1, <1>a, <1>2, <2>1, <2>2 DEF StartLoops
<1>3. CASE RequestArrives
  <2>1. LoopsPlaced'
    BY <1>1, <1>3 DEF RequestArrives
  <2>2. HeldPlaced'
    BY <1>1, <1>3 DEF RequestArrives
  <2>3. QED
    BY <1>1, <1>a, <1>3, <2>1, <2>2 DEF RequestArrives
<1>4. CASE RequestEnds
  <2>1. LoopsPlaced'
    BY <1>1, <1>4 DEF RequestEnds
  <2>2. HeldPlaced'
    BY <1>1, <1>4 DEF RequestEnds
  <2>3. QED
    BY <1>1, <1>a, <1>4, <2>1, <2>2 DEF RequestEnds
<1>5. CASE CertWarmed
  <2>1. LoopsPlaced'
    BY <1>1, <1>5 DEF CertWarmed
  <2>2. HeldPlaced'
    BY <1>1, <1>5 DEF CertWarmed
  <2>3. QED
    BY <1>1, <1>a, <1>5, <2>1, <2>2 DEF CertWarmed
<1>6. CASE StopServing
  <2>1. LoopsPlaced'
    BY <1>1, <1>6 DEF StopServing
  <2>2. HeldPlaced'
    BY <1>1, <1>6 DEF StopServing
  <2>3. QED
    BY <1>1, <1>a, <1>6, <2>1, <2>2 DEF StopServing
<1>7. CASE StopIngress
  <2>1. LoopsPlaced'
    BY <1>1, <1>7 DEF StopIngress
  <2>2. HeldPlaced'
    BY <1>1, <1>7 DEF StopIngress
  <2>3. QED
    BY <1>1, <1>a, <1>7, <2>1, <2>2 DEF StopIngress
<1>8. CASE StopDuties
  <2>1. LoopsPlaced'
    BY <1>1, <1>8 DEF StopDuties
  <2>2. HeldPlaced'
    BY <1>1, <1>8 DEF StopDuties
  <2>3. QED
    BY <1>1, <1>a, <1>8, <2>1, <2>2 DEF StopDuties
<1>9. CASE CancelDispatcher
  <2>1. LoopsPlaced'
    BY <1>1, <1>9 DEF CancelDispatcher
  <2>2. HeldPlaced'
    BY <1>1, <1>9 DEF CancelDispatcher
  <2>3. QED
    BY <1>1, <1>a, <1>9, <2>1, <2>2 DEF CancelDispatcher
<1>10. CASE DispatcherDrained
  <2>1. LoopsPlaced'
    BY <1>1, <1>10 DEF DispatcherDrained
  <2>2. HeldPlaced'
    BY <1>1, <1>10 DEF DispatcherDrained
  <2>3. QED
    BY <1>1, <1>a, <1>10, <2>1, <2>2 DEF DispatcherDrained
<1>11. CASE CloseTailnet
  <2>1. LoopsPlaced'
    BY <1>1, <1>11 DEF CloseTailnet
  <2>2. HeldPlaced'
    BY <1>1, <1>11 DEF CloseTailnet
  <2>3. QED
    BY <1>1, <1>a, <1>11, <2>1, <2>2 DEF CloseTailnet
<1>12. CASE Deferred
  <2>1. LoopsPlaced'
    BY <1>1, <1>12 DEF Deferred
  <2>2. HeldPlaced'
    BY <1>1, <1>12 DEF Deferred
  <2>3. QED
    BY <1>1, <1>a, <1>12, <2>1, <2>2 DEF Deferred
<1>13. QED
  BY <1>2, <1>3, <1>4, <1>5, <1>6, <1>7, <1>8, <1>9, <1>10, <1>11, <1>12, Zenon

\* The inductive invariant holds in every state of the process.
THEOREM StartInvariance == StartSpec => []StartIInv
<1>1. StartIInv /\ [StartNext]_startVars => StartIInv'
  <2> SUFFICES ASSUME StartIInv, [StartNext]_startVars PROVE StartIInv'
    OBVIOUS
  <2>1. CASE StartNext
    BY <2>1, ProcessOpens, ProcessServes DEF StartNext
  <2>2. CASE UNCHANGED startVars
    <3>1. UNCHANGED <<env, supported, at, code, held, running>>
      BY <2>2 DEF startVars
    <3>2. (EnvOK <=> EnvOK') /\ (Validate(env, supported) <=> Validate(env, supported)')
      BY <3>1 DEF EnvOK
    <3>3. LoopsPlaced' /\ HeldPlaced'
      BY <3>1 DEF StartIInv, LoopsPlaced, HeldPlaced
    <3>4. QED
      BY <3>1, <3>2, <3>3 DEF StartIInv
  <2>3. QED
    BY <2>1, <2>2
<1>2. QED
  BY <1>1, ProcessStarts, PTL DEF StartSpec

\* No loop outlives what it uses, and the process ends with nothing open and no
\* loop running, whichever step of the start fails (runServe, closeTailnet).
THEOREM OrderlyEnd == StartSpec => []ClosedInOrder
<1>1. ASSUME StartIInv PROVE ClosedInOrder
  <2> USE <1>1 DEF StartIInv
  <2>1. ASSUME NEW loop \in running \cap Loops PROVE Needs(loop) \subseteq held
    <3>1. at \notin Quiet
      BY <2>1 DEF LoopsPlaced
    <3>2. "db" \in held /\ (TailnetEnabled(env) => "node" \in held)
      BY <3>1 DEF HeldPlaced, Quiet, BeforeLoops, Stages
    <3>3. loop \in {"http", "redirect"} => {"app", "mcp"} \subseteq held
      BY <2>1, <3>1 DEF LoopsPlaced, HeldPlaced, Quiet, BeforeLoops, Stages
    <3>4. QED
      BY <2>1, <3>2, <3>3 DEF Needs, Loops, TailnetEnabled
  <2>2. at = "exit" => held = {} /\ running \cap Loops = {}
    BY DEF LoopsPlaced, HeldPlaced, Quiet
  <2>3. QED
    BY <2>1, <2>2 DEF ClosedInOrder
<1>2. QED
  BY <1>1, StartInvariance, PTL

\* What the durations the loops compare and the counts read as: numbers, and a
\* count is positive.
LEMMA SettingsRead ==
    ASSUME EnvOK
    PROVE  /\ \A s \in {"LEADER_HEARTBEAT_INTERVAL", "LEADER_RETRY_INTERVAL",
                      "RECONCILE_REQUEUE_THRESHOLD"} : Duration(env, s) \in Nat
           /\ \A s \in DOMAIN CountDefaults : Count(env, s) \in Nat \ {0}
<1>1. ASSUME NEW s \in {"LEADER_HEARTBEAT_INTERVAL", "LEADER_RETRY_INTERVAL",
                       "RECONCILE_REQUEUE_THRESHOLD"}
      PROVE Duration(env, s) \in Nat
  <2>1. env[s] \in {"", "bad", "1ms", "29s", "16m", "16m30s", "12h"}
    BY SettingNames, Zenon DEF EnvOK, Texts, Settings, Names, Switches
  <2>2. DurationDefaults[s] \in {"5s", "2m", "2s"}
    BY DEF DurationDefaults
  <2>3. \A t \in {"bad", "1ms", "29s", "16m", "16m30s", "12h", "5s", "2m", "2s"} : Millis(t) \in Nat
    BY DEF Millis
  <2>4. QED
    BY <2>1, <2>2, <2>3, Zenon DEF Duration
<1>2. ASSUME NEW s \in DOMAIN CountDefaults PROVE Count(env, s) \in Nat \ {0}
  <2>1. env[s] \in {"", "bad", "1", "9"}
    BY SettingNames, Zenon DEF EnvOK, Texts, Settings, Names, Switches
  <2>2. CountDefaults[s] \in Nat \ {0}
    BY SettingNames DEF CountDefaults
  <2>3. \A t \in {"bad", "1", "9"} : Number(t) \in Nat
    BY DEF Number
  <2>4. CASE env[s] = ""
    BY <2>2, <2>4, Zenon DEF Count
  <2>5. CASE env[s] # ""
    <3>1. Number(env[s]) \in Nat
      BY <2>1, <2>3, <2>5, Zenon
    <3>2. \/ Count(env, s) = CountDefaults[s]
          \/ Count(env, s) = Number(env[s]) /\ Number(env[s]) > 0
      BY Zenon DEF Count
    <3>3. QED
      BY <2>2, <3>1, <3>2
  <2>6. QED
    BY <2>4, <2>5, Zenon
<1>3. QED
  BY <1>1, <1>2

\* What validation says of the numbers (Validate).
LEMMA ValidNumbers ==
    ASSUME Validate(env, supported)
    PROVE  /\ Duration(env, "TICK_INTERVAL") > 0
           /\ Count(env, "DISPATCHER_WORKERS") <= MaxInt \div 4
           /\ Duration(env, "RECONCILE_REQUEUE_THRESHOLD") >= MinimumLease(env)
           /\ BreakerThreshold(env) > 0 => Duration(env, "CIRCUIT_BREAKER_COOLDOWN") > 0
           /\ On(env, "RECONCILE_ENABLED") =>
                 /\ Duration(env, "RECONCILE_INTERVAL") > 0
                 /\ Duration(env, "RECONCILE_THRESHOLD") >= MaxRetryDuration
           /\ DispatchMode(env) = "db" =>
                 /\ Count(env, "DB_MAX_OPEN_CONNS") # 1 /\ Duration(env, "DB_POLL_INTERVAL") > 0
                 /\ Duration(env, "LEADER_HEARTBEAT_INTERVAL") > 0
                 /\ Duration(env, "LEADER_HEARTBEAT_INTERVAL") < Duration(env, "LEADER_RETRY_INTERVAL")
<1>1. Duration(env, "TICK_INTERVAL") > 0
  BY Zenon DEF Validate
<1>2. ValidReconciler(env) /\ ValidLeader(env)
  BY Zenon DEF Validate
<1>3. BreakerThreshold(env) > 0 => Duration(env, "CIRCUIT_BREAKER_COOLDOWN") > 0
  BY Zenon DEF Validate
<1>4. /\ Count(env, "DISPATCHER_WORKERS") <= MaxInt \div 4
      /\ Duration(env, "RECONCILE_REQUEUE_THRESHOLD") >= MinimumLease(env)
  BY Zenon DEF Validate
<1>5. QED
  BY <1>1, <1>2, <1>3, <1>4 DEF ValidReconciler, ValidLeader

\* Settings that validation accepts are settings the loops can run with
\* (Load, Validate, validateTailnet and the loops).
THEOREM UsableSettings == StartSpec => []SettingsAreUsable
<1>1. ASSUME StartIInv PROVE SettingsAreUsable
  <2> USE <1>1 DEF StartIInv
  <2>1. \A loop \in Loops : loop \in running => Validate(env, supported)
    BY DEF LoopsPlaced, Quiet, BeforeLoops
  <2>2. at = "serving" => Validate(env, supported)
    OBVIOUS
  <2>3. \A s \in {"MAX_FIRES_PER_TICK", "RECONCILE_BATCH_SIZE", "DB_MAX_OPEN_CONNS", "RATE_LIMIT",
                  "NAMESPACE_RATE_LIMIT", "EVENTBUS_BUFFER_SIZE", "DISPATCHER_WORKERS"} :
            Count(env, s) \in Nat \ {0}
    BY SettingsRead, SettingNames
  <2>4. \A s \in {"LEADER_HEARTBEAT_INTERVAL", "LEADER_RETRY_INTERVAL",
                  "RECONCILE_REQUEUE_THRESHOLD"} : Duration(env, s) \in Nat
    BY SettingsRead
  <2>5. "scheduler" \in running =>
           Duration(env, "TICK_INTERVAL") > 0 /\ Count(env, "MAX_FIRES_PER_TICK") > 0
    BY <2>1, <2>3, ValidNumbers DEF Loops
  <2>6. "reconciler" \in running =>
           /\ Duration(env, "RECONCILE_INTERVAL") > 0 /\ Count(env, "RECONCILE_BATCH_SIZE") > 0
           /\ Duration(env, "RECONCILE_THRESHOLD") >= MaxRetryDuration
    <3>1. "reconciler" \in running => Validate(env, supported) /\ On(env, "RECONCILE_ENABLED")
      BY <2>1 DEF Loops, LoopsPlaced
    <3>2. QED
      BY <2>3, <3>1, ValidNumbers
  <2>7. "elector" \in running =>
           /\ Duration(env, "TICK_INTERVAL") > 0 /\ Count(env, "MAX_FIRES_PER_TICK") > 0
           /\ Duration(env, "LEADER_HEARTBEAT_INTERVAL") \in 1..Duration(env, "LEADER_RETRY_INTERVAL") - 1
           /\ Duration(env, "DB_POLL_INTERVAL") > 0
           /\ Count(env, "DB_MAX_OPEN_CONNS") > 1
    <3>1. "elector" \in running => Validate(env, supported) /\ DispatchMode(env) = "db"
      BY <2>1 DEF Loops, LoopsPlaced
    <3>2. QED
      BY <2>3, <2>4, <3>1, ValidNumbers
  <2>8. "http" \in running =>
           Count(env, "RATE_LIMIT") > 0 /\ Count(env, "NAMESPACE_RATE_LIMIT") > 0
    BY <2>3
  <2>9. "dispatcher" \in running =>
           /\ 4 * Count(env, "DISPATCHER_WORKERS") \in 1..MaxInt
           /\ Count(env, "EVENTBUS_BUFFER_SIZE") > 0
           /\ Duration(env, "RECONCILE_REQUEUE_THRESHOLD") > 0
           /\ BreakerThreshold(env) > 0 => Duration(env, "CIRCUIT_BREAKER_COOLDOWN") > 0
    <3>1. "dispatcher" \in running => Validate(env, supported)
      BY <2>1 DEF Loops
    <3>2. "dispatcher" \in running => Duration(env, "RECONCILE_REQUEUE_THRESHOLD") > 0
      BY <2>4, <3>1, ValidNumbers DEF MinimumLease
    <3>3. \A n \in Nat \ {0}, m \in Nat : n <= m \div 4 => 4 * n \in 1..m
      BY SMT
    <3>4. "dispatcher" \in running => 4 * Count(env, "DISPATCHER_WORKERS") \in 1..MaxInt
      BY <2>3, <3>1, <3>3, ValidNumbers, StartAssumption
    <3>5. QED
      BY <2>3, <3>1, <3>2, <3>4, ValidNumbers
  <2>10. at = "serving" =>
           /\ held \cap Listeners # {}
           /\ On(env, "TS_IDENTITY_LOGIN") => {"tls", "node"} \subseteq held /\ On(env, "ADMIN_ENABLED")
           /\ On(env, "WEBHOOK_ALLOW_TAILNET") => "node" \in held /\ env["WEBHOOK_TAILNET_HOSTS"] = "set"
    <3>1. env["WEBHOOK_TAILNET_HOSTS"] \in {"", "set", "bad"}
      BY SettingNames, Zenon DEF EnvOK, Texts, Settings, Names, Switches
    <3>2. QED
      BY <2>2, <3>1, Zenon DEF HeldPlaced, Stages, Listeners, Validate, ValidListeners, ValidSignIn,
         ValidTailnet, TailnetEnabled
  <2>11. QED
    BY <2>5, <2>6, <2>7, <2>8, <2>9, <2>10 DEF SettingsAreUsable
<1>2. QED
  BY <1>1, StartInvariance, PTL

-----------------------------------------------------------------------------
Status == {"none", "emitted", "in_progress", "settled"}
Stage == {"serving", "http", "scheduler", "reconciler", "dispatcher", "exited"}

\* The stages in which runServe has waited for the HTTP server, for the
\* scheduler and for the reconciler.
PastHttp == stage \in {"scheduler", "reconciler", "dispatcher", "exited"}
PastScheduler == stage \in {"reconciler", "dispatcher", "exited"}
PastReconciler == stage \in {"dispatcher", "exited"}

Typed ==
    /\ row \in [Exec -> Status] /\ emitting = [p \in Producer |-> emitting[p]]
    /\ stage \in Stage /\ forced \in BOOLEAN /\ timedOut \in BOOLEAN

\* What each wait of the shutdown has established, and nothing undoes.
Awaited ==
    /\ PastHttp /\ ~forced => HandlersIdle
    /\ PastScheduler => emitting["scheduler"] = NoExec
    /\ rpc # "emit" => emitting["reconciler"] = NoExec
    /\ PastReconciler => rpc = "idle"

\* The dispatcher returns from a drain only, and from an empty bus or a timeout.
Drained ==
    /\ draining \/ dpc = "off" => PastReconciler
    /\ stage = "exited" => dpc = "off"
    /\ dpc = "off" /\ ~forced /\ ~timedOut => queue = <<>>

\* The execution being delivered is in_progress under a live lease.
Owned == dpc = "busy" /\ cur \in Exec => row[cur] = "in_progress" /\ cur \in leased

\* The inductive invariant.
ChannelIInv == Typed /\ Awaited /\ Drained /\ Owned
-----------------------------------------------------------------------------
\* The scheduler and the reconciler are not request handlers.
LEMMA Producers ==
    /\ {"scheduler", "reconciler"} \subseteq Producer /\ Handler \subseteq Producer
    /\ \A h \in Handler : h # "scheduler" /\ h # "reconciler"
    /\ \A p \in Producer : p \in Handler \/ p = "scheduler" \/ p = "reconciler"
  BY ChannelAssumption DEF Producer

\* Once the reconciler has been awaited and HTTP was not forced, nobody is
\* emitting.
LEMMA NobodyEmits ==
    ASSUME Typed, Awaited, PastReconciler, ~forced
    PROVE  handling = {} /\ \A p \in Producer : emitting[p] = NoExec
<1>1. PastHttp /\ PastScheduler
  BY DEF PastHttp, PastScheduler, PastReconciler
<1>2. rpc = "idle"
  BY DEF Awaited
<1>3. emitting["scheduler"] = NoExec /\ emitting["reconciler"] = NoExec
  BY <1>1, <1>2 DEF Awaited
<1>4. QED
  BY <1>1, <1>3, Producers DEF Awaited, HandlersIdle

\* What the shutdown relies on, apart from the rows.
Orderly == Awaited /\ Drained

\* A step that leaves the stages and the dispatcher alone, ends emissions or
\* starts them where nobody waits, and puts on the bus only what was being
\* emitted, keeps the shutdown orderly.
LEMMA EmissionStep ==
    ASSUME ChannelIInv, NEW p \in Producer, NEW x,
           emitting' = [emitting EXCEPT ![p] = x],
           x # NoExec =>
               \/ p = "scheduler" /\ ~PastScheduler
               \/ p = "reconciler" /\ rpc = "emit"
               \/ p \in Handler /\ ~(PastHttp /\ ~forced),
           handling' \subseteq handling,
           queue' # queue => emitting[p] # NoExec,
           UNCHANGED <<rpc, dpc, draining, timedOut, stage, forced>>
    PROVE  Orderly' /\ emitting' = [q \in Producer |-> emitting'[q]]
<1> USE DEF ChannelIInv
<1>1. /\ emitting' = [q \in Producer |-> emitting'[q]] /\ emitting'[p] = x
      /\ \A q \in Producer \ {p} : emitting'[q] = emitting[q]
  BY DEF Typed
<1>2. /\ PastHttp' = PastHttp /\ PastScheduler' = PastScheduler
      /\ PastReconciler' = PastReconciler
  BY DEF PastHttp, PastScheduler, PastReconciler
<1>3. (PastHttp /\ ~forced => HandlersIdle)'
  <2>1. SUFFICES ASSUME PastHttp, ~forced PROVE HandlersIdle'
    BY <1>2
  <2>2. handling = {} /\ \A h \in Handler : emitting[h] = NoExec
    BY <2>1 DEF Awaited, HandlersIdle
  <2>3. \A h \in Handler : emitting'[h] = NoExec
    BY <1>1, <2>1, <2>2, Producers
  <2>4. QED
    BY <2>2, <2>3 DEF HandlersIdle
<1>4. (PastScheduler => emitting["scheduler"] = NoExec)'
  BY <1>1, <1>2, Producers DEF Awaited
<1>5. (rpc # "emit" => emitting["reconciler"] = NoExec)'
  BY <1>1, Producers DEF Awaited
<1>6. (dpc = "off" /\ ~forced /\ ~timedOut => queue = <<>>)'
  <2>1. SUFFICES ASSUME dpc = "off", ~forced, ~timedOut PROVE queue' = <<>>
    OBVIOUS
  <2>2. queue = <<>> /\ emitting[p] = NoExec
    BY <2>1, NobodyEmits DEF Drained
  <2>3. QED
    BY <2>2
<1>7. QED
  BY <1>1, <1>2, <1>3, <1>4, <1>5, <1>6 DEF Orderly, Awaited, Drained

\* The producers' own steps keep the shutdown orderly.
LEMMA ProducerStep ==
    ASSUME ChannelIInv, Produce \/ Emit \/ InsertUnanswered
    PROVE  Orderly' /\ emitting' = [q \in Producer |-> emitting'[q]]
<1> USE DEF ChannelIInv, recon, dispatch, serve
<1>1. CASE Fire
  <2>1. PICK e \in Exec : emitting' = [emitting EXCEPT !["scheduler"] = e]
    BY <1>1, Zenon DEF Fire, Insert
  <2>2. ~PastScheduler
    BY <1>1 DEF Fire, PastScheduler
  <2>3. UNCHANGED <<queue, handling, rpc, dpc, draining, timedOut, stage, forced>>
    BY <1>1 DEF Fire
  <2>4. QED
    BY <2>1, <2>2, <2>3, Producers, EmissionStep, Zenon
<1>2. ASSUME NEW h \in Handler, AcceptRequest(h)
      PROVE  Orderly' /\ emitting' = [q \in Producer |-> emitting'[q]]
  <2>1. UNCHANGED <<queue, emitting, rpc, dpc, draining, timedOut, stage, forced>>
    BY <1>2 DEF AcceptRequest
  <2>2. ~PastHttp
    BY <1>2 DEF AcceptRequest, PastHttp
  <2>3. QED
    BY <2>1, <2>2 DEF Typed, Orderly, Awaited, Drained, PastHttp, PastScheduler, PastReconciler
<1>3. ASSUME NEW h \in Handler, RefuseRequest(h)
      PROVE  Orderly' /\ emitting' = [q \in Producer |-> emitting'[q]]
  <2>1. UNCHANGED <<queue, emitting, rpc, dpc, draining, timedOut, stage, forced>>
    BY <1>3 DEF RefuseRequest
  <2>2. handling # {}
    BY <1>3 DEF RefuseRequest
  <2>3. QED
    BY <2>1, <2>2
    DEF Typed, Orderly, Awaited, Drained, HandlersIdle, PastHttp, PastScheduler, PastReconciler
<1>4. ASSUME NEW h \in Handler, TriggerNow(h)
      PROVE  Orderly' /\ emitting' = [q \in Producer |-> emitting'[q]]
  <2>1. PICK e \in Exec : emitting' = [emitting EXCEPT ![h] = e]
    BY <1>4, Zenon DEF TriggerNow, Insert
  <2>2. ~(PastHttp /\ ~forced)
    BY <1>4 DEF TriggerNow, Awaited, HandlersIdle
  <2>3. handling' \subseteq handling
    BY <1>4 DEF TriggerNow
  <2>4. UNCHANGED <<queue, rpc, dpc, draining, timedOut, stage, forced>>
    BY <1>4 DEF TriggerNow
  <2>5. QED
    BY <2>1, <2>2, <2>3, <2>4, Producers, EmissionStep, Zenon
<1>5. ASSUME NEW p \in Producer, EmitAccepted(p) \/ EmitFails(p)
      PROVE  Orderly' /\ emitting' = [q \in Producer |-> emitting'[q]]
  <2>1. emitting' = [emitting EXCEPT ![p] = NoExec] /\ emitting[p] # NoExec /\ handling' = handling
    BY <1>5 DEF EmitAccepted, EmitFails
  <2>2. UNCHANGED <<rpc, dpc, draining, timedOut, stage, forced>>
    BY <1>5 DEF EmitAccepted, EmitFails
  <2>3. QED
    BY <2>1, <2>2, EmissionStep, Zenon
<1>6. CASE InsertUnanswered
  <2>1. UNCHANGED <<queue, emitting, handling, rpc, dpc, draining, timedOut, stage, forced>>
    BY <1>6 DEF InsertUnanswered
  <2>2. QED
    BY <2>1
    DEF Typed, Orderly, Awaited, Drained, HandlersIdle, PastHttp, PastScheduler, PastReconciler
<1>7. QED
  BY <1>1, <1>2, <1>3, <1>4, <1>5, <1>6 DEF Produce, Emit

\* The reconciler's steps: an orphan is emitted in the middle of a cycle only,
\* and the cycle ends when the emission has.
LEMMA ReconcilerStep ==
    ASSUME ChannelIInv, NEW ok \in BOOLEAN,
           Requeue(ok) \/ FetchOrphans \/ FetchFails \/ ReEmit \/ CycleEnds
    PROVE  Orderly' /\ emitting' = [q \in Producer |-> emitting'[q]]
<1> USE DEF ChannelIInv, dispatch, serve
<1>1. CASE ReEmit
  <2>1. emitting' = [emitting EXCEPT !["reconciler"] = Head(batch)] /\ rpc = "emit"
    BY <1>1 DEF ReEmit
  <2>2. UNCHANGED <<queue, handling, rpc, dpc, draining, timedOut, stage, forced>>
    BY <1>1 DEF ReEmit
  <2>3. QED
    BY <2>1, <2>2, Producers, EmissionStep, Zenon
<1>2. CASE Requeue(ok) \/ FetchOrphans \/ FetchFails \/ CycleEnds
  <2>1. UNCHANGED <<queue, emitting, handling, dpc, draining, timedOut, stage, forced>>
    BY <1>2 DEF Requeue, FetchOrphans, FetchFails, CycleEnds
  <2>2. emitting["reconciler"] = NoExec
    BY <1>2 DEF Requeue, FetchOrphans, FetchFails, CycleEnds, Awaited
  <2>3. PastReconciler => rpc' = "idle"
    BY <1>2 DEF Requeue, FetchOrphans, FetchFails, CycleEnds, ReconcilerUp, PastReconciler
  <2>4. QED
    BY <2>1, <2>2, <2>3
    DEF Typed, Orderly, Awaited, Drained, HandlersIdle, PastHttp, PastScheduler, PastReconciler
<1>3. QED
  BY <1>1, <1>2

\* The dispatcher takes events off the bus, and returns from an empty one or
\* when its drain has timed out.
LEMMA DispatcherStep ==
    ASSUME ChannelIInv,
           Dispatch \/ Abandon \/ ClaimError \/ Drain \/ DrainTimeout
    PROVE  Orderly' /\ emitting' = [q \in Producer |-> emitting'[q]]
<1> USE DEF ChannelIInv, recon, serve, Rest, ToWait
<1>1. UNCHANGED <<emitting, handling, rpc, stage, forced>>
  <2>1. CASE Dispatch
    BY <2>1 DEF Dispatch, Receive, Claim, ClaimNothing, ClaimCancelled, Complete
  <2>2. CASE Abandon \/ ClaimError
    BY <2>2 DEF Abandon, ClaimError
  <2>3. CASE Drain \/ DrainTimeout
    BY <2>3 DEF Drain, BeginDrain, DrainReturns, DrainTimeout
  <2>4. QED
    BY <2>1, <2>2, <2>3
<1>2. Awaited'
  BY <1>1 DEF Awaited, HandlersIdle, PastHttp, PastScheduler, PastReconciler
<1>3. Drained'
  <2>1. CASE Dispatch
    <3>1. stage # "exited" /\ dpc' # "off" /\ draining' = draining
      BY <2>1 DEF Dispatch, Receive, Claim, ClaimNothing, ClaimCancelled, Complete, Up
    <3>2. QED
      BY <1>1, <3>1 DEF Drained, PastReconciler
  <2>2. CASE Abandon \/ ClaimError
    <3>1. stage # "exited" /\ dpc' # "off" /\ draining' = draining
      BY <2>2 DEF Abandon, ClaimError, Up
    <3>2. QED
      BY <1>1, <3>1 DEF Drained, PastReconciler
  <2>3. CASE BeginDrain
    BY <1>1, <2>3 DEF BeginDrain, Drained, PastReconciler
  <2>4. CASE DrainReturns
    BY <1>1, <2>4 DEF DrainReturns, Drained, PastReconciler
  <2>5. CASE DrainTimeout
    BY <1>1, <2>5 DEF DrainTimeout, Drained, PastReconciler
  <2>6. QED
    BY <2>1, <2>2, <2>3, <2>4, <2>5 DEF Drain
<1>4. QED
  BY <1>1, <1>2, <1>3 DEF Typed, Orderly

\* runServe moves to the next stage when what it waits for holds, and a process
\* that ends or starts holds nothing.
LEMMA ServeStep ==
    ASSUME ChannelIInv, Signal \/ Shutdown \/ Crash \/ Restart
    PROVE  /\ Orderly' /\ emitting' = [q \in Producer |-> emitting'[q]]
           /\ stage' \in Stage /\ forced' \in BOOLEAN /\ timedOut' \in BOOLEAN
<1> USE DEF ChannelIInv, recon, dispatch, Advance, PastHttp, PastScheduler, PastReconciler
<1>1. CASE Crash \/ Restart
  <2>1. /\ queue' = <<>> /\ emitting' = [p \in Producer |-> NoExec] /\ handling' = {}
        /\ rpc' = "idle" /\ ~draining' /\ timedOut' = FALSE /\ forced' = FALSE
        /\ \/ stage' = "exited" /\ dpc' = "off"
           \/ stage' = "serving" /\ dpc' = "wait"
    BY <1>1 DEF Crash, Restart, Reset
  <2>2. \A p \in Producer : emitting'[p] = NoExec
    BY <2>1
  <2>3. QED
    BY <2>1, <2>2, Producers, Zenon DEF Orderly, Awaited, Drained, HandlersIdle, Stage
<1>2. ASSUME UNCHANGED <<queue, emitting, handling, recon, dispatch>>
      PROVE  /\ emitting' = [q \in Producer |-> emitting'[q]] /\ timedOut' \in BOOLEAN
             /\ UNCHANGED <<queue, emitting, handling, rpc, dpc, draining, timedOut>>
  BY <1>2 DEF Typed
<1>3. CASE Signal
  BY <1>2, <1>3 DEF Signal, Typed, Orderly, Awaited, Drained, HandlersIdle, Stage
<1>4. CASE HttpStopped
  BY <1>2, <1>4 DEF HttpStopped, Typed, Orderly, Awaited, Drained, HandlersIdle, Stage
<1>5. CASE HttpForced
  BY <1>2, <1>5 DEF HttpForced, Typed, Orderly, Awaited, Drained, HandlersIdle, Stage
<1>6. CASE SchedulerStopped
  BY <1>2, <1>6 DEF SchedulerStopped, Typed, Orderly, Awaited, Drained, HandlersIdle, Stage
<1>7. CASE ReconcilerStopped
  BY <1>2, <1>7 DEF ReconcilerStopped, Typed, Orderly, Awaited, Drained, HandlersIdle, Stage
<1>8. CASE DispatcherStopped
  BY <1>2, <1>8 DEF DispatcherStopped, Typed, Orderly, Awaited, Drained, HandlersIdle, Stage
<1>9. QED
  BY <1>1, <1>3, <1>4, <1>5, <1>6, <1>7, <1>8 DEF Shutdown

\* What a step may do to a row and to the delivery under way.
ClaimStep ==
    \A e \in Exec :
        /\ row[e] = "settled" => row'[e] = "settled"
        /\ row[e] = "in_progress" /\ row'[e] = "emitted" => ~(dpc = "busy" /\ cur = e)
        /\ (dpc # "busy" /\ dpc' = "busy" /\ cur = e) => row[e] = "emitted"

\* What the rows contribute to the invariant, and the claim of ClaimedOnce.
Kept == row' \in [Exec -> Status] /\ Owned' /\ ClaimStep

\* A step that leaves the delivery under way, its lease and its row alone, and
\* takes no row out of a settled state, keeps them.
LEMMA Undisturbed ==
    ASSUME ChannelIInv, row' \in [Exec -> Status],
           dpc' = "busy" => dpc = "busy" /\ cur' = cur,
           \A e \in Exec : row[e] = "settled" => row'[e] = "settled",
           \A e \in Exec : dpc = "busy" /\ cur = e =>
               /\ row'[e] # "emitted"
               /\ dpc' = "busy" => row'[e] = row[e] /\ e \in leased'
    PROVE  Kept
<1>1. Owned'
  BY DEF Owned, ChannelIInv
<1>2. ClaimStep
  BY DEF ClaimStep
<1>3. QED
  BY <1>1, <1>2 DEF Kept

\* The INSERT of a row finds no row in its place.
LEMMA InsertRows ==
    ASSUME ChannelIInv, \E e \in Exec : InsertRow(e), UNCHANGED <<leased, dpc, cur>>
    PROVE  Kept
<1>1. PICK e \in Exec : row[e] = "none" /\ row' = [row EXCEPT ![e] = "emitted"]
  BY Zenon DEF InsertRow
<1>2. row' \in [Exec -> Status]
  BY <1>1 DEF ChannelIInv, Typed, Status
<1>3. \A f \in Exec : row'[f] = IF f = e THEN "emitted" ELSE row[f]
  BY <1>1 DEF ChannelIInv, Typed
<1>4. \A f \in Exec : dpc = "busy" /\ cur = f => row[f] = "in_progress" /\ f \in leased
  BY DEF ChannelIInv, Owned
<1>5. QED
  BY <1>1, <1>2, <1>3, <1>4, Undisturbed

\* Of the dispatcher's steps a claim takes an emitted row, and the end of a
\* delivery settles the row being delivered.
LEMMA DispatcherRows ==
    ASSUME ChannelIInv, Dispatch \/ Abandon \/ ClaimError \/ Drain \/ DrainTimeout
    PROVE  Kept
<1> USE DEF ChannelIInv
<1>1. ASSUME TakeRow(cur), row[cur] = "emitted", dpc # "busy"
      PROVE  /\ row' \in [Exec -> Status]
             /\ \A e \in Exec : e # cur => row'[e] = row[e]
             /\ cur \in Exec => row'[cur] = "in_progress" /\ cur \in leased'
  BY <1>1, Zenon DEF TakeRow, Typed, Status
<1>2. ASSUME Settle(cur)
      PROVE  /\ row' \in [Exec -> Status]
             /\ \A e \in Exec : e # cur => row'[e] = row[e]
             /\ cur \in Exec => row'[cur] = "settled"
  BY <1>2, Zenon DEF Settle, Typed, Status
<1>3. CASE Claim
  <2>1. /\ TakeRow(cur) /\ row[cur] = "emitted" /\ dpc = "got" /\ dpc' = "busy" /\ cur' = cur
    BY <1>3 DEF Claim
  <2>2. Owned' /\ ClaimStep
    BY <1>1, <2>1 DEF Owned, ClaimStep
  <2>3. QED
    BY <1>1, <2>1, <2>2 DEF Kept
<1>4. CASE ClaimError
  <2>1. dpc = "got" /\ dpc' = "wait"
    BY <1>4 DEF ClaimError, ToWait
  <2>2. /\ row' \in [Exec -> Status]
        /\ \A e \in Exec : row[e] = "settled" => row'[e] = "settled"
    BY <1>1, <1>4, <2>1 DEF ClaimError, rows, Typed
  <2>3. QED
    BY <2>1, <2>2, Undisturbed
<1>5. CASE Complete \/ Abandon
  <2>1. dpc = "busy" /\ dpc' = "wait"
    BY <1>5 DEF Complete, Abandon, ToWait
  <2>2. row' = row \/ Settle(cur)
    BY <1>5 DEF Complete, Abandon, rows
  <2>3. \A e \in Exec : cur = e => row[e] = "in_progress"
    BY <2>1 DEF Owned
  <2>4. /\ row' \in [Exec -> Status]
        /\ \A e \in Exec : row[e] = "settled" => row'[e] = "settled"
        /\ \A e \in Exec : cur = e => row'[e] # "emitted"
    BY <1>2, <2>2, <2>3 DEF Typed
  <2>5. QED
    BY <2>1, <2>4, Undisturbed
<1>6. CASE Receive \/ ClaimNothing \/ ClaimCancelled \/ Drain \/ DrainTimeout
  <2>1. row' = row /\ leased' = leased
    BY <1>6 DEF Receive, ClaimNothing, ClaimCancelled, Drain, BeginDrain, DrainReturns,
                DrainTimeout, rows
  <2>2. dpc' = "busy" => dpc = "busy" /\ cur' = cur
    BY <1>6 DEF Receive, ClaimNothing, ClaimCancelled, ToWait, Drain, BeginDrain, DrainReturns,
                DrainTimeout
  <2>3. \A e \in Exec : dpc = "busy" /\ cur = e => row[e] = "in_progress" /\ e \in leased
    BY DEF Owned
  <2>4. row' \in [Exec -> Status]
    BY <2>1 DEF Typed
  <2>5. QED
    BY <2>1, <2>2, <2>3, <2>4, Undisturbed
<1>7. QED
  BY <1>3, <1>4, <1>5, <1>6 DEF Dispatch

\* The reconciler takes back only rows without a live lease, which the delivery
\* under way is not.
LEMMA RequeueRows ==
    ASSUME ChannelIInv, NEW ok \in BOOLEAN, Requeue(ok)
    PROVE  Kept
<1>1. PICK n \in SUBSET Stale :
        row' = IF ok THEN [e \in Exec |-> IF e \in n THEN "emitted" ELSE row[e]] ELSE row
  BY DEF Requeue
<1>2. dpc' = dpc /\ cur' = cur /\ leased' = leased
  BY DEF Requeue, dispatch
<1>3. /\ row' \in [Exec -> Status]
      /\ \A e \in Exec : row'[e] = row[e] \/ (row[e] = "in_progress" /\ e \notin leased)
  BY <1>1 DEF Stale, ChannelIInv, Typed, Status
<1>4. \A e \in Exec : dpc = "busy" /\ cur = e => row[e] = "in_progress" /\ e \in leased
  BY DEF ChannelIInv, Owned
<1>5. QED
  BY <1>2, <1>3, <1>4, Undisturbed

\* Every step keeps the rows' part of the invariant.
LEMMA RowStep ==
    ASSUME ChannelIInv, [Next]_vars
    PROVE  Kept
<1> USE DEF ChannelIInv
<1>1. \A e \in Exec : dpc = "busy" /\ cur = e => row[e] = "in_progress" /\ e \in leased
  BY DEF Owned
<1>2. ASSUME UNCHANGED row, dpc' = "busy" => dpc = "busy" /\ cur' = cur,
             \A e \in Exec : dpc = "busy" /\ cur = e /\ dpc' = "busy" => e \in leased'
      PROVE  Kept
  <2>1. row' \in [Exec -> Status]
    BY <1>2 DEF Typed
  <2>2. QED
    BY <1>1, <1>2, <2>1, Undisturbed
<1>3. CASE Produce
  <2>1. UNCHANGED <<leased, dpc, cur>>
    BY <1>3 DEF Produce, Fire, AcceptRequest, TriggerNow, RefuseRequest, rows, dispatch
  <2>2. (\E e \in Exec : InsertRow(e)) \/ UNCHANGED row
    BY <1>3 DEF Produce, Fire, AcceptRequest, TriggerNow, RefuseRequest, Insert, rows
  <2>3. QED
    BY <1>1, <1>2, <2>1, <2>2, InsertRows
<1>4. CASE InsertUnanswered
  BY <1>4, InsertRows DEF InsertUnanswered, dispatch
<1>5. CASE Emit \/ FetchOrphans \/ ReEmit \/ CycleEnds \/ FetchFails
  <2>1. UNCHANGED <<row, leased, dpc, cur>>
    BY <1>5 DEF Emit, EmitAccepted, EmitFails, FetchOrphans, ReEmit, CycleEnds, FetchFails,
                rows, dispatch
  <2>2. QED
    BY <1>1, <1>2, <2>1
<1>6. ASSUME NEW ok \in BOOLEAN, Requeue(ok) PROVE Kept
  BY <1>6, RequeueRows
<1>7. CASE Dispatch \/ Abandon \/ ClaimError \/ Drain \/ DrainTimeout
  BY <1>7, DispatcherRows
<1>8. CASE Signal \/ Shutdown
  <2>1. UNCHANGED <<row, leased, dpc, cur>>
    BY <1>8 DEF Signal, Shutdown, HttpStopped, HttpForced, SchedulerStopped, ReconcilerStopped,
                DispatcherStopped, Advance, rows, dispatch
  <2>2. QED
    BY <1>1, <1>2, <2>1
<1>9. CASE Crash \/ Restart
  BY <1>2, <1>9 DEF Crash, Restart, Reset, rows
<1>10. CASE Time
  <2>1. UNCHANGED <<row, dpc, cur>>
    BY <1>10 DEF Time, Age, LeaseExpires, dispatch
  <2>2. \A e \in Exec : dpc = "busy" /\ cur = e => e \in leased'
    BY <1>1, <1>10 DEF Time, Age, LeaseExpires
  <2>3. QED
    BY <1>2, <2>1, <2>2
<1>11. CASE UNCHANGED vars
  <2>1. UNCHANGED <<row, leased, dpc, cur>>
    BY <1>11 DEF vars, rows, dispatch
  <2>2. QED
    BY <1>1, <1>2, <2>1
<1>12. QED
  BY <1>3, <1>4, <1>5, <1>6, <1>7, <1>8, <1>9, <1>10, <1>11, Zenon DEF Next, Reconcile, DatabaseFault

\* Every step keeps the shutdown orderly.
LEMMA OrderStep ==
    ASSUME ChannelIInv, [Next]_vars
    PROVE  /\ Orderly' /\ emitting' = [q \in Producer |-> emitting'[q]]
           /\ stage' \in Stage /\ forced' \in BOOLEAN /\ timedOut' \in BOOLEAN
<1> DEFINE Whole == Orderly' /\ emitting' = [q \in Producer |-> emitting'[q]]
           Served == stage' \in Stage /\ forced' \in BOOLEAN /\ timedOut' \in BOOLEAN
<1>1. ASSUME UNCHANGED <<stage, forced, timedOut>> PROVE Served
  BY <1>1 DEF ChannelIInv, Typed
<1>2. CASE Produce \/ Emit \/ InsertUnanswered
  <2>1. UNCHANGED <<stage, forced, timedOut>>
    BY <1>2 DEF Produce, Fire, AcceptRequest, TriggerNow, RefuseRequest, Emit, EmitAccepted,
                EmitFails, InsertUnanswered, dispatch, serve
  <2>2. QED
    BY <1>1, <1>2, <2>1, ProducerStep
<1>3. ASSUME NEW ok \in BOOLEAN,
             Requeue(ok) \/ FetchOrphans \/ FetchFails \/ ReEmit \/ CycleEnds
      PROVE  Whole /\ Served
  <2>1. UNCHANGED <<stage, forced, timedOut>>
    BY <1>3 DEF Requeue, FetchOrphans, FetchFails, ReEmit, CycleEnds, dispatch, serve
  <2>2. QED
    BY <1>1, <1>3, <2>1, ReconcilerStep
<1>4. CASE Dispatch \/ Abandon \/ ClaimError \/ Drain \/ DrainTimeout
  <2>1. UNCHANGED <<stage, forced>> /\ (timedOut' = timedOut \/ timedOut' = TRUE)
    BY <1>4 DEF Dispatch, Receive, Claim, ClaimNothing, ClaimCancelled, Complete, Abandon,
                ClaimError, Drain, BeginDrain, DrainReturns, DrainTimeout, ToWait, Rest, serve
  <2>2. Served
    BY <2>1, Zenon DEF ChannelIInv, Typed
  <2>3. QED
    BY <1>4, <2>2, DispatcherStep
<1>5. CASE Signal \/ Shutdown \/ Crash \/ Restart
  BY <1>5, ServeStep
<1>6. CASE Time \/ UNCHANGED vars
  <2>1. UNCHANGED <<queue, emitting, handling, rpc, dpc, draining, timedOut, stage, forced>>
    BY <1>6 DEF Time, Age, LeaseExpires, vars, recon, dispatch, serve
  <2>2. Whole
    BY <2>1 DEF ChannelIInv, Typed, Orderly, Awaited, Drained, HandlersIdle, PastHttp,
                PastScheduler, PastReconciler
  <2>3. QED
    BY <1>1, <2>1, <2>2
<1>7. QED
  BY <1>2, <1>3, <1>4, <1>5, <1>6, Zenon DEF Next, Reconcile, DatabaseFault

\* A new deployment has no rows, and its process holds nothing.
LEMMA ChannelStart == Init => ChannelIInv
<1> SUFFICES ASSUME Init PROVE ChannelIInv
  OBVIOUS
<1>1. \A p \in Producer : emitting[p] = NoExec
  BY DEF Init
<1>2. Typed
  BY Zenon DEF Init, Typed, Status, Stage
<1>3. Awaited
  BY <1>1, Producers DEF Init, Awaited, HandlersIdle, PastHttp, PastScheduler, PastReconciler
<1>4. Drained /\ Owned
  BY DEF Init, Drained, Owned, PastReconciler
<1>5. QED
  BY <1>2, <1>3, <1>4 DEF ChannelIInv

\* The inductive invariant holds in every state: each wait of runServe keeps
\* what it waited for, and the delivery under way holds its lease.
THEOREM ChannelInvariance == Spec => []ChannelIInv
<1>1. ASSUME ChannelIInv, [Next]_vars PROVE ChannelIInv'
  BY <1>1, RowStep, OrderStep DEF ChannelIInv, Typed, Kept, Orderly
<1>2. QED
  BY <1>1, ChannelStart, PTL DEF Spec

\* A process that stops within its budgets leaves no event on the bus and no
\* producer in the middle of one, whatever the interleaving of its producers,
\* its reconciler and its dispatcher (runServe, Dispatcher.drain).
THEOREM ExitDrains == Spec => []GracefulExitDrains
<1>1. ChannelIInv => GracefulExitDrains
  <2>1. SUFFICES ASSUME ChannelIInv, stage = "exited", ~forced, ~timedOut
                 PROVE  queue = <<>> /\ \A p \in Producer : emitting[p] = NoExec
    BY DEF GracefulExitDrains
  <2>2. QED
    BY <2>1, NobodyEmits DEF ChannelIInv, Drained, PastReconciler
<1>2. QED
  BY <1>1, ChannelInvariance, PTL

\* However many copies of an execution the bus holds, a claim takes a row that is
\* emitted, no settled row leaves that state, and the row being delivered is not
\* taken back (queryClaimExecution, runCycle).
THEOREM OneClaim == Spec => ClaimedOnce
<1>1. ChannelIInv /\ [Next]_vars => [ClaimStep]_vars
  BY RowStep DEF Kept
<1>2. QED
  BY <1>1, ChannelInvariance, PTL DEF Spec, ClaimedOnce, ClaimStep

-----------------------------------------------------------------------------
(* Types, and what a page of orphans is.                                   *)

\* The rows of a set have distinct places, and every place is taken.
LEMMA Places ==
    ASSUME NEW S \in SUBSET Exec
    PROVE  /\ Cardinality(S) \in Nat
           /\ \A e, g \in S : e < g => Place(S, e) < Place(S, g)
           /\ \A k \in 1..Cardinality(S) : \E e \in S : Place(S, e) = k
<1> DEFINE Upto(e) == {f \in S : f <= e}
           c == Cardinality(S)
           place == [e \in S |-> Place(S, e)]
<1>1. S \subseteq Nat /\ IsFiniteSet(S)
  <2>1. IsFiniteSet(Exec) /\ Exec \subseteq Nat
    BY ChannelAssumption, FS_Interval DEF Exec
  <2>2. QED
    BY <2>1, FS_Subset, Zenon
<1>2. c \in Nat
  BY <1>1, FS_CardinalityType
<1>3. ASSUME NEW e \in S PROVE IsFiniteSet(Upto(e)) /\ Place(S, e) \in 1..c /\ Place(S, e) \in Nat
  <2>1. Upto(e) \in SUBSET S /\ e \in Upto(e)
    BY <1>1
  <2>2. IsFiniteSet(Upto(e)) /\ Cardinality(Upto(e)) <= c
    BY <1>1, <2>1, FS_Subset
  <2>3. Cardinality(Upto(e)) \in Nat /\ Cardinality(Upto(e)) # 0
    BY <2>1, <2>2, FS_CardinalityType, FS_EmptySet
  <2>4. QED
    BY <1>2, <2>2, <2>3 DEF Place
<1>4. ASSUME NEW e \in S, NEW g \in S, e < g PROVE Place(S, e) < Place(S, g)
  <2>1. Upto(e) \in SUBSET Upto(g) /\ Upto(e) # Upto(g)
    <3>1. \A f \in S : f \in Nat
      BY <1>1
    <3>2. \A f \in S : f <= e => f <= g
      BY <1>4, <3>1
    <3>3. g <= g /\ ~(g <= e)
      BY <1>4, <3>1
    <3>4. g \in Upto(g) /\ g \notin Upto(e)
      BY <3>3
    <3>5. QED
      BY <3>2, <3>4
  <2>2. Cardinality(Upto(e)) <= Cardinality(Upto(g)) /\ Cardinality(Upto(e)) # Cardinality(Upto(g))
    BY <1>3, <2>1, FS_Subset
  <2>3. Place(S, e) \in Nat /\ Place(S, g) \in Nat
    BY <1>3, Zenon
  <2>4. QED
    BY <2>2, <2>3 DEF Place
<1>5. place \in Injection(S, 1..c)
  <2>1. place \in [S -> 1..c]
    BY <1>3, Zenon
  <2>2. ASSUME NEW e \in S, NEW g \in S, place[e] = place[g] PROVE e = g
    <3>1. Place(S, e) = Place(S, g) /\ Place(S, e) \in Nat
      BY <1>3, <2>2, Zenon
    <3>2. ~(e < g) /\ ~(g < e)
      BY <1>4, <3>1
    <3>3. QED
      BY <1>1, <3>2
  <2>3. QED
    BY <2>1, <2>2 DEF Injection, IsInjective
<1>6. place \in Surjection(S, 1..c)
  <2>1. IsFiniteSet(1..c) /\ Cardinality(1..c) = c
    BY <1>2, FS_Interval
  <2>2. QED
    BY <1>5, <2>1, FS_Injection
<1>7. \A k \in 1..c : \E e \in S : Place(S, e) = k
  BY <1>6, Zenon DEF Surjection
<1>8. QED
  BY <1>2, <1>4, <1>7

\* A page is the first rows of the set in their order, none of them twice
\* (queryGetOrphanedExecutions).
LEMMA OldestIs ==
    ASSUME NEW S \in SUBSET Exec, NEW n \in Nat
    PROVE  /\ Oldest(S, n) \in Seq(S) /\ Len(Oldest(S, n)) <= n
           /\ Len(Oldest(S, n)) = IF Cardinality(S) < n THEN Cardinality(S) ELSE n
           /\ \A i \in 1..Len(Oldest(S, n)) : Place(S, Oldest(S, n)[i]) = i
<1> DEFINE m == IF Cardinality(S) < n THEN Cardinality(S) ELSE n
           Pick(k) == CHOOSE e \in S : Place(S, e) = k
<1>1. m \in Nat /\ m <= n /\ m <= Cardinality(S) /\ Cardinality(S) \in Nat
  BY Places
<1>2. ASSUME NEW k \in 1..m PROVE Pick(k) \in S /\ Place(S, Pick(k)) = k
  <2>1. k \in 1..Cardinality(S)
    BY <1>1
  <2>2. QED
    BY <2>1, Places
<1>3. Oldest(S, n) = [k \in 1..m |-> Pick(k)]
  BY DEF Oldest
<1> HIDE DEF m, Pick
<1>4. /\ Oldest(S, n) \in Seq(S) /\ Len(Oldest(S, n)) = m
      /\ \A i \in 1..m : Oldest(S, n)[i] = Pick(i)
  BY <1>1, <1>2, <1>3
<1>5. QED
  BY <1>1, <1>2, <1>4 DEF m

\* The types the invariant above does without: of what is on its way to the
\* dispatcher, of the dispatcher, and of the leases.
Moving ==
    /\ queue \in Seq(Exec) /\ Len(queue) <= Buffer
    /\ emitting \in [Producer -> Exec \cup {NoExec}] /\ handling \subseteq Handler
    /\ rpc \in {"idle", "fetch", "emit"} /\ batch \in Seq(Exec) /\ Len(batch) <= BatchSize

Taken ==
    /\ dpc \in {"wait", "got", "busy", "off"} /\ draining \in BOOLEAN
    /\ cur \in Exec \cup {NoExec} /\ (dpc \in {"got", "busy"} => cur \in Exec)

Leases == leased \subseteq {e \in Exec : row[e] = "in_progress"} /\ due \subseteq Exec

\* What is emitted, waits on the bus or in a page is an execution, and the bus
\* stays within its capacity.
LEMMA MovingStep ==
    ASSUME Moving, [Next]_vars
    PROVE  Moving'
<1> USE DEF recon
<1>1. Buffer \in Nat /\ BatchSize \in Nat
  BY ChannelAssumption
<1>2. ASSUME UNCHANGED <<queue, emitting, handling, rpc, batch>> PROVE Moving'
  BY <1>2 DEF Moving
<1>3. ASSUME NEW p \in Producer, NEW e \in Exec \cup {NoExec},
             emitting' = [emitting EXCEPT ![p] = e], handling' \subseteq handling,
             queue' \in Seq(Exec), Len(queue') <= Buffer, UNCHANGED <<rpc, batch>>
      PROVE  Moving'
  BY <1>3 DEF Moving
<1>4. CASE Fire
  <2>1. PICK e \in Exec : emitting' = [emitting EXCEPT !["scheduler"] = e]
    BY <1>4, Zenon DEF Fire, Insert
  <2>2. UNCHANGED <<queue, handling, rpc, batch>>
    BY <1>4 DEF Fire
  <2>3. QED
    BY <1>3, <2>1, <2>2, Producers DEF Moving
<1>5. ASSUME NEW h \in Handler, AcceptRequest(h) \/ RefuseRequest(h) PROVE Moving'
  BY <1>5 DEF AcceptRequest, RefuseRequest, Moving
<1>6. ASSUME NEW h \in Handler, TriggerNow(h) PROVE Moving'
  <2>1. PICK e \in Exec : emitting' = [emitting EXCEPT ![h] = e]
    BY <1>6, Zenon DEF TriggerNow, Insert
  <2>2. UNCHANGED <<queue, rpc, batch>> /\ handling' \subseteq handling
    BY <1>6 DEF TriggerNow
  <2>3. QED
    BY <1>3, <2>1, <2>2, Producers DEF Moving
<1>7. ASSUME NEW p \in Producer, EmitAccepted(p) PROVE Moving'
  <2>1. /\ queue' = Append(queue, emitting[p]) /\ emitting' = [emitting EXCEPT ![p] = NoExec]
        /\ UNCHANGED <<handling, rpc, batch>>
    BY <1>7 DEF EmitAccepted
  <2>2. emitting[p] \in Exec /\ Len(queue) < Buffer /\ queue \in Seq(Exec)
    BY <1>7 DEF EmitAccepted, Moving
  <2>3. queue' \in Seq(Exec) /\ Len(queue') <= Buffer
    BY <1>1, <2>1, <2>2
  <2>4. QED
    BY <1>3, <2>1, <2>3, Zenon
<1>8. ASSUME NEW p \in Producer, EmitFails(p) PROVE Moving'
  <2>1. emitting' = [emitting EXCEPT ![p] = NoExec] /\ UNCHANGED <<queue, handling, rpc, batch>>
    BY <1>8 DEF EmitFails
  <2>2. QED
    BY <1>3, <2>1 DEF Moving
<1>9. ASSUME NEW ok \in BOOLEAN, Requeue(ok) PROVE Moving'
  BY <1>9 DEF Requeue, Moving
<1>10. CASE FetchOrphans
  <2>1. Orphans \in SUBSET Exec
    BY DEF Orphans
  <2>2. batch' \in Seq(Exec) /\ Len(batch') <= BatchSize
    <3>1. batch' \in Seq(Orphans) /\ Len(batch') <= BatchSize
      BY <1>1, <1>10, <2>1, OldestIs DEF FetchOrphans
    <3>2. QED
      BY <2>1, <3>1
  <2>3. rpc' \in {"idle", "emit"} /\ UNCHANGED <<queue, emitting, handling>>
    BY <1>10 DEF FetchOrphans
  <2>4. QED
    BY <2>2, <2>3 DEF Moving
<1>11. CASE FetchFails
  BY <1>11 DEF FetchFails, Moving
<1>12. CASE ReEmit
  <2>1. /\ emitting' = [emitting EXCEPT !["reconciler"] = Head(batch)] /\ batch' = Tail(batch)
        /\ batch # <<>> /\ batch \in Seq(Exec) /\ Len(batch) <= BatchSize
        /\ UNCHANGED <<queue, handling, rpc>>
    BY <1>12 DEF ReEmit, Moving
  <2>2. Head(batch) \in Exec /\ batch' \in Seq(Exec) /\ Len(batch') <= BatchSize
    BY <1>1, <2>1
  <2>3. emitting' \in [Producer -> Exec \cup {NoExec}]
    BY <2>1, <2>2, Zenon DEF Moving
  <2>4. QED
    BY <2>1, <2>2, <2>3 DEF Moving
<1>13. CASE CycleEnds
  BY <1>1, <1>13 DEF CycleEnds, Moving
<1>14. CASE Receive
  <2>1. queue' = Tail(queue) /\ queue # <<>> /\ queue \in Seq(Exec) /\ Len(queue) <= Buffer
    BY <1>14 DEF Receive, Moving
  <2>2. queue' \in Seq(Exec) /\ Len(queue') <= Buffer
    BY <1>1, <2>1
  <2>3. QED
    BY <1>14, <2>2 DEF Receive, Moving
<1>15. CASE Crash \/ Restart
  <2>1. /\ queue' = <<>> /\ emitting' = [p \in Producer |-> NoExec] /\ handling' = {}
        /\ rpc' = "idle" /\ batch' = <<>>
    BY <1>15 DEF Crash, Restart, Reset
  <2>2. QED
    BY <1>1, <2>1 DEF Moving
<1>16. CASE Claim \/ ClaimNothing \/ ClaimCancelled \/ Complete \/ Abandon \/ ClaimError
  BY <1>2, <1>16 DEF Claim, ClaimNothing, ClaimCancelled, Complete, Abandon, ClaimError, Rest
<1>17. CASE Drain \/ DrainTimeout \/ Signal \/ Shutdown \/ Time \/ InsertUnanswered \/ UNCHANGED vars
  <2>1. UNCHANGED <<queue, emitting, handling, recon>>
    <3>1. CASE Drain \/ DrainTimeout
      BY <3>1 DEF Drain, BeginDrain, DrainReturns, DrainTimeout
    <3>2. CASE Signal \/ Shutdown
      BY <3>2 DEF Signal, Shutdown, HttpStopped, HttpForced, SchedulerStopped, ReconcilerStopped,
                  DispatcherStopped, Advance
    <3>3. CASE Time \/ InsertUnanswered \/ UNCHANGED vars
      BY <3>3 DEF Time, Age, LeaseExpires, InsertUnanswered, vars
    <3>4. QED
      BY <1>17, <3>1, <3>2, <3>3
  <2>2. QED
    BY <1>2, <2>1
<1>18. QED
  BY <1>4, <1>5, <1>6, <1>7, <1>8, <1>9, <1>10, <1>11, <1>12, <1>13, <1>14, <1>15, <1>16, <1>17, Zenon
  DEF Next, Produce, Emit, Reconcile, Dispatch, DatabaseFault

\* The dispatcher has taken an execution, or has none, and a lease is held on a
\* row that is in progress.
LEMMA TakenStep ==
    ASSUME ChannelIInv, Moving, Taken, Leases, [Next]_vars
    PROVE  Taken' /\ Leases'
<1> USE DEF dispatch, rows
<1>1. ASSUME UNCHANGED <<dpc, cur, draining>> PROVE Taken'
  BY <1>1 DEF Taken
<1>2. ASSUME UNCHANGED <<row, leased, due>> PROVE Leases'
  BY <1>2 DEF Leases
<1>3. ASSUME cur \in Exec, row[cur] = "emitted", TakeRow(cur) PROVE Leases'
  BY <1>3 DEF TakeRow, Leases, ChannelIInv, Typed
<1>4. ASSUME cur \in Exec, Settle(cur) PROVE Leases'
  BY <1>4 DEF Settle, Leases, ChannelIInv, Typed
<1>5. ASSUME \E e \in Exec : InsertRow(e), UNCHANGED <<leased, due>> PROVE Leases'
  BY <1>5 DEF InsertRow, Leases, ChannelIInv, Typed
<1>6. CASE Produce \/ InsertUnanswered
  <2>1. UNCHANGED <<dpc, cur, draining, leased, due>>
    BY <1>6 DEF Produce, Fire, AcceptRequest, TriggerNow, RefuseRequest, InsertUnanswered
  <2>2. (\E e \in Exec : InsertRow(e)) \/ UNCHANGED row
    BY <1>6 DEF Produce, Fire, AcceptRequest, TriggerNow, RefuseRequest, InsertUnanswered, Insert
  <2>3. QED
    BY <1>1, <1>2, <1>5, <2>1, <2>2
<1>7. ASSUME NEW ok \in BOOLEAN, Requeue(ok) PROVE Taken' /\ Leases'
  <2>1. PICK n \in SUBSET Stale :
          row' = IF ok THEN [e \in Exec |-> IF e \in n THEN "emitted" ELSE row[e]] ELSE row
    BY <1>7 DEF Requeue
  <2>2. \A e \in leased : e \in Exec => row'[e] = row[e]
    BY <2>1 DEF Stale, ChannelIInv, Typed
  <2>3. UNCHANGED <<dpc, cur, draining, leased, due>>
    BY <1>7 DEF Requeue
  <2>4. QED
    BY <1>1, <2>2, <2>3 DEF Leases
<1>8. CASE Receive
  <2>1. dpc' = "got" /\ cur' = Head(queue) /\ draining' = draining /\ UNCHANGED <<row, leased, due>>
    BY <1>8 DEF Receive
  <2>2. Head(queue) \in Exec
    BY <1>8 DEF Receive, Moving
  <2>3. QED
    BY <1>2, <2>1, <2>2 DEF Taken
<1>9. CASE Claim
  <2>1. /\ cur \in Exec /\ row[cur] = "emitted" /\ TakeRow(cur)
        /\ dpc' = "busy" /\ UNCHANGED <<cur, draining>>
    BY <1>9 DEF Claim, Taken
  <2>2. QED
    BY <1>3, <2>1 DEF Taken
<1>10. CASE ClaimNothing \/ ClaimCancelled \/ ClaimError
  <2>1. cur \in Exec /\ dpc' = "wait" /\ cur' = NoExec /\ UNCHANGED draining
    BY <1>10 DEF ClaimNothing, ClaimCancelled, ClaimError, ToWait, Taken
  <2>2. UNCHANGED <<row, leased, due>> \/ (row[cur] = "emitted" /\ TakeRow(cur))
    BY <1>10 DEF ClaimNothing, ClaimCancelled, ClaimError
  <2>3. QED
    BY <1>2, <1>3, <2>1, <2>2 DEF Taken
<1>11. CASE Complete \/ Abandon
  <2>1. cur \in Exec /\ dpc' = "wait" /\ cur' = NoExec /\ UNCHANGED draining
    BY <1>11 DEF Complete, Abandon, ToWait, Taken
  <2>2. UNCHANGED <<row, leased, due>> \/ Settle(cur)
    BY <1>11 DEF Complete, Abandon
  <2>3. QED
    BY <1>2, <1>4, <2>1, <2>2 DEF Taken
<1>12. CASE Drain \/ DrainTimeout
  <2>1. UNCHANGED <<row, leased, due>>
    BY <1>12 DEF Drain, BeginDrain, DrainReturns, DrainTimeout
  <2>2. Taken'
    BY <1>12, Zenon DEF Drain, BeginDrain, DrainReturns, DrainTimeout, Taken
  <2>3. QED
    BY <1>2, <2>1, <2>2
<1>13. CASE Crash \/ Restart
  <2>1. UNCHANGED <<row, leased, due>>
    BY <1>13 DEF Crash, Restart, Reset
  <2>2. Taken'
    BY <1>13, Zenon DEF Crash, Restart, Reset, Taken
  <2>3. QED
    BY <1>2, <2>1, <2>2
<1>14. CASE Time
  <2>1. UNCHANGED <<row, dpc, cur, draining>> /\ leased' \subseteq leased
    BY <1>14 DEF Time, Age, LeaseExpires
  <2>2. due' \subseteq due \cup Exec
    BY <1>14 DEF Time, Age, LeaseExpires
  <2>3. QED
    BY <1>1, <2>1, <2>2 DEF Leases
<1>15. CASE Emit \/ FetchOrphans \/ FetchFails \/ ReEmit \/ CycleEnds
  <2>1. UNCHANGED <<row, leased, due, dpc, cur, draining>>
    BY <1>15 DEF Emit, EmitAccepted, EmitFails, FetchOrphans, FetchFails, ReEmit, CycleEnds
  <2>2. QED
    BY <1>1, <1>2, <2>1
<1>16. CASE Signal \/ Shutdown \/ UNCHANGED vars
  <2>1. UNCHANGED <<row, leased, due, dpc, cur, draining>>
    BY <1>16 DEF Signal, Shutdown, HttpStopped, HttpForced, SchedulerStopped, ReconcilerStopped,
                 DispatcherStopped, Advance, vars
  <2>2. QED
    BY <1>1, <1>2, <2>1
<1>17. QED
  BY <1>6, <1>7, <1>8, <1>9, <1>10, <1>11, <1>12, <1>13, <1>14, <1>15, <1>16, Zenon
  DEF Next, Reconcile, Dispatch, DatabaseFault

\* Every variable keeps its type: the bus holds executions and never more of them
\* than its capacity, and only a row in progress is under a lease (EventBus).
THEOREM ChannelTypes == Spec => []TypeOK
<1>1. Init => Moving /\ Taken /\ Leases
  <2>1. ASSUME Init PROVE Moving
    <3>1. queue = <<>> /\ batch = <<>> /\ Buffer \in Nat /\ BatchSize \in Nat
      BY <2>1, ChannelAssumption DEF Init
    <3>2. /\ queue \in Seq(Exec) /\ Len(queue) <= Buffer
          /\ batch \in Seq(Exec) /\ Len(batch) <= BatchSize
      BY <3>1
    <3>3. QED
      BY <2>1, <3>2 DEF Init, Moving
  <2>2. ASSUME Init PROVE Taken /\ Leases
    BY <2>2, Zenon DEF Init, Taken, Leases
  <2>3. QED
    BY <2>1, <2>2
<1>2. ChannelIInv /\ Moving /\ Taken /\ Leases /\ [Next]_vars => (Moving /\ Taken /\ Leases)'
  BY MovingStep, TakenStep
<1>3. ChannelIInv /\ Moving /\ Taken /\ Leases => TypeOK
  BY DEF ChannelIInv, Typed, Moving, Taken, Leases, TypeOK, Status, Stage
<1>4. QED
  BY <1>1, <1>2, <1>3, ChannelInvariance, PTL DEF Spec
=============================================================================
