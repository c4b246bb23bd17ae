------------------------------ MODULE Bootstrap ------------------------------
(***************************************************************************)
(* DefaultInvolution: from the options to a server that may be started,    *)
(* and what an application may do with it before Start: register another   *)
(* backend, add a route, initialize it again.                              *)
(*                                                                         *)
(* A block of the configuration is named after its field in GlobalConfig;  *)
(* its value is where it came from: "none", "local" (the file of --config) *)
(* or "central" (consul).  A source is the set of blocks it has, and the   *)
(* auth_type in its authorization block.                                   *)
(***************************************************************************)
EXTENDS Integers, Sequences, FiniteSets, Functions

CONSTANTS Names,      \* the factories given to DefaultInvolution
          Late,       \* names an application registers afterwards
          Files,      \* what the local file may hold; no file is an empty one
          Centrals,   \* what consul may hold
          MaxCalls    \* bound on the application's calls

VARIABLES opts,       \* the flags, the two sources and how a loaded block is written
          step,       \* where DefaultInvolution is, or how it ended
          config,     \* GlobalConfig
          context,    \* the BackendContext: [blocks, consul]
          auth,       \* the Authorization: [kind, keys, settings]
          signer,     \* the transport block the Transport was made from
          todo,       \* the factories the loop has not reached
          clients,    \* clients[name][what]: how many are open
          backends,   \* the server's map
          middleware, \* gin's handlers so far
          routes,     \* routes[r]: the handlers in front of route r
          schema,     \* the backends in the document schema
          calls       \* the application's calls
vars == <<opts, step, config, context, auth, signer, todo, clients, backends,
          middleware, routes, schema, calls>>

Block == {"authorization", "xorm", "redis", "transport"}
Source == {"none", "local", "central"}
Client == {"xorm", "redis"}
Flags == {"consul", "ui", "newrelic", "trace", "cors"}
NoAuth == [kind |-> "none", keys |-> "none", settings |-> "none"]
Over == {"failed", "panicked"}

\* clients also counts those of the tokens, under a name of their own.
ASSUME NamesAssumption == IsFiniteSet(Names) /\ "tokens" \notin Names \cup Late
\* "jwt" is also what an absent auth_type means, "redis" what any other means.
ASSUME SourcesAssumption ==
    \A s \in Files \cup Centrals : s.has \subseteq Block /\ s.kind \in {"jwt", "redis"}
ASSUME CallsAssumption == MaxCalls \in Nat

Init ==
    /\ opts \in [file : Files, central : Centrals, flags : SUBSET Flags, inPlace : BOOLEAN]
    /\ step = "config"
    /\ config = [b \in Block |-> "none"]
    /\ context = [blocks |-> config, consul |-> FALSE]
    /\ auth = NoAuth /\ signer = "none"
    /\ todo = Names
    /\ clients = [n \in Names \cup Late \cup {"tokens"} |-> [c \in Client |-> 0]]
    /\ backends = << >> /\ middleware = << >> /\ routes = << >>
    /\ schema = {} /\ calls = 0

Goto(s) == step' = s
Asked(flag) == flag \in opts.flags

-----------------------------------------------------------------------------
\* NewLogger, and initializeLocalConfig.
LoadLocal ==
    /\ step = "config"
    /\ \/ Goto("failed") /\ UNCHANGED config
       \/ /\ config' = [b \in Block |-> IF b \in opts.file.has THEN "local" ELSE "none"]
          /\ Goto("authorize")
    /\ UNCHANGED <<opts, context, auth, signer, todo, clients, backends, middleware, routes, schema, calls>>

\* initializeAuthorization reads the local configuration through pointers that
\* are nil for a missing block.
Authorize ==
    /\ step = "authorize"
    /\ LET kind == opts.file.kind
           nilBlock == \/ config.authorization = "none"
                       \/ kind = "redis" /\ config.redis = "none"
           used == IF kind = "jwt" THEN "authorization" ELSE "redis"
       IN  \/ /\ nilBlock /\ Goto("panicked")
              /\ UNCHANGED <<auth, clients, context>>
           \/ /\ ~nilBlock /\ Goto("failed")
              /\ UNCHANGED <<auth, clients, context>>
           \/ /\ ~nilBlock /\ Goto("consul")
              /\ auth' = [kind |-> kind, keys |-> config[used], settings |-> config.authorization]
              /\ clients' = IF kind = "redis" THEN [clients EXCEPT !["tokens"].redis = 1] ELSE clients
              /\ context' = [blocks |-> config, consul |-> FALSE]
    /\ UNCHANGED <<opts, config, signer, todo, backends, middleware, routes, schema, calls>>

LoadedWhole(blocks) == [b \in opts.central.has |-> "central"]

Loaded(blocks) ==
    [b \in Block |-> IF b \in opts.central.has THEN "central" ELSE blocks[b]]

\* A decoder that writes into the block a pointer already points to is seen
\* through the pointers the context and the authorization hold.
SeenThrough(b, held) ==
    IF opts.inPlace /\ held # "none" /\ b \in opts.central.has THEN "central" ELSE held

KeptContext == [context EXCEPT !.blocks = [b \in Block |-> SeenThrough(b, @[b])]]

\* initializeConsul and initCentralConfig.
LoadCentral ==
    /\ step = "consul"
    /\ \/ ~Asked("consul") /\ Goto("server") /\ UNCHANGED <<config, context, auth>>
       \/ Asked("consul") /\ Goto("failed") /\ UNCHANGED <<config, context, auth>>
       \/ /\ Asked("consul") /\ Goto("server")
          /\ config' = Loaded(config)
          /\ context' = KeptContext
          /\ auth' = [auth EXCEPT !.settings = SeenThrough("authorization", @)]
    /\ UNCHANGED <<opts, signer, todo, clients, backends, middleware, routes, schema, calls>>

Flag(flag, handler) == IF Asked(flag) THEN <<handler>> ELSE << >>

MakeServerOfContext ==
    /\ step = "server" /\ Goto("register")
    /\ signer' = context.blocks.transport
    /\ middleware' = Flag("cors", "cors")
    /\ UNCHANGED <<opts, config, context, auth, todo, clients, backends, routes, schema, calls>>

\* NewServer, RegisterAuthorization.
MakeServer ==
    /\ step = "server" /\ Goto("register")
    /\ signer' = config.transport
    /\ middleware' = Flag("cors", "cors")
    /\ UNCHANGED <<opts, config, context, auth, todo, clients, backends, routes, schema, calls>>

-----------------------------------------------------------------------------
(* RegisterBackend *)

Outcome(result, opened) == [result |-> result, opened |-> opened]

OutcomesUnchecked(name) ==
    {Outcome("refused", {}), Outcome("panicked", {})}
    \cup (IF context.blocks.xorm = "none" THEN {}
          ELSE {Outcome("refused", {"xorm"})}
               \cup IF context.blocks.redis = "none" THEN {Outcome("panicked", {"xorm"})}
                    ELSE {Outcome("registered", Client), Outcome("panicked", Client)})

\* The name is taken; the factory, the check of the endpoints or the engine
\* fails; redis fails, and the engine stays; or all is well.  With no block the
\* client's constructor gets nil and returns an error or panics.  The factory
\* and InitializeFunc are the application's and may panic, the latter when both
\* clients are open.
Outcomes(name) ==
    IF name \in DOMAIN backends THEN {Outcome("refused", {})}
    ELSE {Outcome("refused", {}), Outcome("panicked", {})}
         \cup (IF context.blocks.xorm = "none" THEN {}
               ELSE {Outcome("refused", {"xorm"})}
                    \cup IF context.blocks.redis = "none" THEN {Outcome("panicked", {"xorm"})}
                         ELSE {Outcome("registered", Client), Outcome("panicked", Client)})

\* InitializeFunc may fail, and nobody learns of it.
Backend(started) ==
    [xorm |-> context.blocks.xorm, redis |-> context.blocks.redis, tokens |-> auth.kind,
     balancer |-> context.consul, started |-> started]

Registration(name, o) ==
    /\ clients' = [clients EXCEPT ![name] = [c \in Client |-> @[c] + IF c \in o.opened THEN 1 ELSE 0]]
    /\ IF o.result = "registered"
       THEN \E started \in BOOLEAN :
               backends' = [n \in DOMAIN backends \cup {name} |->
                               IF n = name THEN Backend(started) ELSE backends[n]]
       ELSE UNCHANGED backends

RegisterWhatCan ==
    /\ step = "register"
    /\ IF todo = {}
       THEN Goto("initialize") /\ UNCHANGED <<todo, clients, backends>>
       ELSE \E name \in todo : \E o \in Outcomes(name) :
               /\ Registration(name, o)
               /\ todo' = todo \ {name}
               /\ Goto(IF o.result = "panicked" THEN "panicked" ELSE "register")
    /\ UNCHANGED <<opts, config, context, auth, signer, middleware, routes, schema, calls>>

\* The loop over the map of factories, in any order.
RegisterBackend ==
    /\ step = "register"
    /\ IF todo = {}
       THEN Goto("initialize") /\ UNCHANGED <<todo, clients, backends>>
       ELSE \E name \in todo : \E o \in Outcomes(name) :
               /\ Registration(name, o)
               /\ todo' = todo \ {name}
               /\ Goto(CASE o.result = "registered" -> "register"
                         [] o.result = "refused" -> "failed"
                         [] o.result = "panicked" -> "panicked")
    /\ UNCHANGED <<opts, config, context, auth, signer, middleware, routes, schema, calls>>

-----------------------------------------------------------------------------
(* Initialize *)


\* New Relic's handler, or nil when it refuses the application: then every
\* request panics there.
NewrelicHandler == {"newrelic", "nil"}

\* initContext, and the logger initBackendAPIServer puts in front.
Handlers == \E newrelic \in NewrelicHandler :
    middleware' = middleware \o <<"tracer">> \o Flag("newrelic", newrelic)
                             \o Flag("trace", "logger")

\* gin panics at a route it has, and a route keeps the handlers of its moment.
RoutedEarly(new) ==
    IF new \cap DOMAIN routes # {} THEN Goto("panicked") /\ UNCHANGED <<routes, schema>>
    ELSE /\ Goto("ready")
         /\ routes' = [r \in DOMAIN routes \cup new |->
                          IF r \in new THEN middleware ELSE routes[r]]
         /\ schema' = IF Asked("ui") THEN DOMAIN backends ELSE {}

Routed(new) ==
    IF new \cap DOMAIN routes # {} THEN Goto("panicked") /\ UNCHANGED <<routes, schema>>
    ELSE /\ Goto("ready")
         /\ routes' = [r \in DOMAIN routes \cup new |->
                          IF r \in new THEN middleware' ELSE routes[r]]
         /\ schema' = IF Asked("ui") THEN DOMAIN backends ELSE {}

InitializeServer ==
    /\ Handlers
    /\ Routed({"api"} \cup IF Asked("ui") THEN {"schemas", "docs"} ELSE {})
    /\ UNCHANGED <<opts, config, context, auth, signer, todo, clients, backends>>

Initialize == step = "initialize" /\ InitializeServer /\ UNCHANGED calls

-----------------------------------------------------------------------------
(* The application, before Start *)

Calls == step = "ready" /\ calls < MaxCalls /\ calls' = calls + 1

InitializeAgain == Calls /\ InitializeServer

RegisterLater ==
    /\ Calls
    /\ \E name \in Names \cup Late : \E o \in Outcomes(name) :
          /\ Registration(name, o)
          /\ IF o.result = "panicked" THEN Goto("panicked") ELSE UNCHANGED step
    /\ UNCHANGED <<opts, config, context, auth, signer, todo, middleware, routes, schema>>

AddHandle ==
    /\ Calls
    /\ IF "custom" \in DOMAIN routes THEN Goto("panicked") /\ UNCHANGED routes
       ELSE /\ routes' = [r \in DOMAIN routes \cup {"custom"} |->
                             IF r = "custom" THEN middleware ELSE routes[r]]
            /\ UNCHANGED step
    /\ UNCHANGED <<opts, config, context, auth, signer, todo, clients, backends, middleware, schema>>

Ended == step \in Over \cup {"ready"} /\ UNCHANGED vars

Next ==
    \/ LoadLocal \/ Authorize \/ LoadCentral \/ MakeServer \/ RegisterBackend \/ Initialize
    \/ InitializeAgain \/ RegisterLater \/ AddHandle
    \/ Ended

Spec == Init /\ [][Next]_vars

-----------------------------------------------------------------------------
\* The state has its type, and an authorization exists once it was made.
TypeOK ==
    /\ config \in [Block -> Source] /\ context \in [blocks : [Block -> Source], consul : BOOLEAN]
    /\ auth # NoAuth => auth.kind \in {"jwt", "redis"} /\ auth.keys \in Source \ {"none"}
    /\ todo \subseteq Names /\ DOMAIN backends \subseteq Names \cup Late
    /\ schema \subseteq DOMAIN backends /\ calls \in 0..MaxCalls

\* No route exists before every factory has become a backend with both its
\* clients and the authorization: whoever reaches the API finds all of them.
RoutedWhenComplete ==
    routes # << >> =>
        /\ Names \subseteq DOMAIN backends /\ auth # NoAuth
        /\ \A n \in DOMAIN backends :
              backends[n].tokens = auth.kind /\ "none" \notin {backends[n].xorm, backends[n].redis}
        /\ "schemas" \in DOMAIN routes => Names \subseteq schema

\* Every route, an application's own too, is behind the handler that gives the
\* request its trace ID (without one HandleRequest refuses it), which only that
\* of CORS precedes, behind New Relic's and the logger's if they were asked for,
\* and behind each once.
RoutesBehindTracer ==
    \A r \in DOMAIN routes :
        LET chain == routes[r]
        IN  /\ \E i \in DOMAIN chain : chain[i] = "tracer" /\ \A j \in 1..(i - 1) : chain[j] = "cors"
            /\ Cardinality(Range(chain)) = Len(chain)
            /\ Asked("trace") <=> "logger" \in Range(chain)
            /\ Asked("newrelic") <=> NewrelicHandler \cap Range(chain) # {}

\* Whoever reaches a route finds what belongs in front of it and behind it.
RoutesComplete == RoutedWhenComplete /\ RoutesBehindTracer

\* A backend's two clients are opened once, whoever registers it and however
\* often.  Nothing closes what a failure leaves: every failed registration one
\* engine at most, and only a panic of InitializeFunc a redis client.  A start
\* that fails so leaves both clients of each backend before the one that failed,
\* and those of that one name besides.
ClientsAccounted ==
    /\ \A n \in Names \cup Late :
          /\ n \in DOMAIN backends => clients[n].redis = 1
          /\ clients[n].redis \in 0..1 /\ clients[n].xorm - clients[n].redis \in 0..(calls + 1)
    /\ LET left(c) == {n \in (Names \cup Late) \ DOMAIN backends : clients[n][c] > 0}
       IN  /\ Cardinality(left("redis")) <= IF step = "panicked" THEN 1 ELSE 0
           /\ calls = 0 =>
                 /\ \A n \in DOMAIN backends : clients[n].xorm = 1
                 /\ Cardinality(left("xorm")) <= IF step \in Over THEN 1 ELSE 0

\* Startup reads two configurations, and the parts it makes agree where they
\* have to: the server checks tokens by the settings the backends are given,
\* every backend, a late one too, has that kind of tokens and opened its clients
\* by the same blocks, and the transport signs by the block that handlers are
\* shown (HandlerParams.Config).  A block the backends were given is another
\* than the handlers are shown only if consul has it.
PartsAgree ==
    /\ auth # NoAuth => auth.settings = context.blocks.authorization
    /\ \A n \in DOMAIN backends :
          /\ backends[n].tokens = auth.kind
          /\ backends[n].xorm = context.blocks.xorm /\ backends[n].redis = context.blocks.redis
    /\ step \in {"register", "initialize", "ready"} =>
          /\ signer = config.transport
          /\ \A b \in Block : \/ context.blocks[b] = config[b]
                              \/ Asked("consul") /\ b \in opts.central.has

\* README.md:5 promises micro-service calls behind a circuit breaker where the
\* service uses consul: a backend then has a load-balancing client.
BalancerWithConsul ==
    step = "ready" /\ Asked("consul") => \A n \in DOMAIN backends : backends[n].balancer
===============================================================================
