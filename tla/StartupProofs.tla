----------------------------- MODULE StartupProofs -----------------------------
(***************************************************************************)
(* Theorems about the parts that MCStartup puts side by side: Bootstrap,   *)
(* for any factories, files, flags and calls of the application; Token and *)
(* Documents, for any configurations, authorizations, endpoints and types. *)
(*                                                                         *)
(* The properties of Bootstrap are about a finished service; they hold     *)
(* because of the order of DefaultInvolution. IInv says, step by step,     *)
(* what exists by then: which blocks were loaded and from where (Sources), *)
(* which factories are backends (Progress), what is open for each          *)
(* (Opened), and what the handlers in front of a route are (Handled).      *)
(***************************************************************************)
EXTENDS MCStartup, FiniteSetTheorems, SequenceTheorems, WellFoundedInduction, TLAPS

Before == {"config", "authorize", "consul", "server"}
Steps  == Before \cup {"register", "initialize", "ready"} \cup Over

Typed ==
    /\ opts \in [file : Files, central : Centrals, flags : SUBSET Flags, inPlace : BOOLEAN]
    /\ step \in Steps
    /\ config \in [Block -> Source] /\ context \in [blocks : [Block -> Source], consul : BOOLEAN]
    /\ auth \in [kind : {"none", "jwt", "redis"}, keys : Source, settings : Source]
    /\ todo \subseteq Names /\ DOMAIN backends \subseteq Names \cup Late
    /\ clients \in [Names \cup Late \cup {"tokens"} -> [Client -> Nat]]
    /\ schema \subseteq DOMAIN backends /\ calls \in 0..MaxCalls

\* What the steps leave to be done.
Progress ==
    /\ step \in {"config", "authorize"} => auth = NoAuth
    /\ step \in {"consul", "server", "register", "initialize", "ready"} => auth # NoAuth
    /\ step \in Before => todo = Names /\ DOMAIN backends = {}
    /\ step = "register" => DOMAIN backends = Names \ todo
    /\ step \in {"initialize", "ready"} => Names \subseteq DOMAIN backends
    /\ step \in Before \cup {"register", "initialize"} => routes = << >> /\ calls = 0
    /\ step = "ready" => "api" \in DOMAIN routes
    /\ routes # << >> => Names \subseteq DOMAIN backends /\ auth # NoAuth
    /\ "schemas" \in DOMAIN routes => Names \subseteq schema

\* Where the blocks that are in use come from.
FromFile == [b \in Block |-> IF b \in opts.file.has THEN "local" ELSE "none"]

\* What the context holds differs from the configuration where consul has it.
OnlyConsulDivides ==
    \A b \in Block : context.blocks[b] = config[b] \/ (Asked("consul") /\ b \in opts.central.has)

Sources ==
    /\ step \in {"authorize", "consul"} => config = FromFile
    /\ step = "consul" => context.blocks = config
    /\ step \in {"server", "register", "initialize", "ready"} => OnlyConsulDivides
    /\ step \in {"register", "initialize", "ready"} => signer = config.transport
    /\ auth # NoAuth =>
          /\ auth.kind = opts.file.kind /\ auth.keys = "local"
          /\ auth.settings = context.blocks.authorization

\* What a backend was made with.
Made ==
    \A n \in DOMAIN backends :
        /\ backends[n].tokens = auth.kind /\ "none" \notin {backends[n].xorm, backends[n].redis}
        /\ backends[n].xorm = context.blocks.xorm /\ backends[n].redis = context.blocks.redis

\* How many clients a name may have that no backend uses: those of the one
\* registration a panic ended, the engines of the calls that failed, and, before
\* the application may call, those of the one factory that ended the startup.
Opened ==
    /\ \A n \in Names \cup Late :
          /\ clients[n].redis \in 0..1 /\ (n \in DOMAIN backends => clients[n].redis = 1)
          /\ clients[n].redis <= clients[n].xorm
          /\ clients[n].xorm <= clients[n].redis + calls + (IF step \in Over THEN 1 ELSE 0)
    /\ step # "panicked" => \A n \in (Names \cup Late) \ DOMAIN backends : clients[n].redis = 0
    /\ \E m \in Names \cup Late \cup {"tokens"} :
          \A n \in (Names \cup Late) \ DOMAIN backends : n # m => clients[n].redis = 0
    /\ calls = 0 =>
          /\ \A n \in DOMAIN backends : clients[n].xorm = 1
          /\ \E m \in Names \cup {"tokens"} :
                \A n \in (Names \cup Late) \ DOMAIN backends : n # m => clients[n].xorm = 0

\* The handlers in front of every route there can be.
Chains ==
    {Flag("cors", "cors") \o <<"tracer">> \o Flag("newrelic", newrelic) \o Flag("trace", "logger") :
        newrelic \in NewrelicHandler}

Handled ==
    /\ step \in {"register", "initialize"} => middleware = Flag("cors", "cors")
    /\ step = "ready" => middleware \in Chains
    /\ \A r \in DOMAIN routes : routes[r] \in Chains

IInv == Typed /\ Progress /\ Sources /\ Made /\ Opened /\ Handled

-----------------------------------------------------------------------------
(* The initial states satisfy the invariant, and every step keeps it. *)

\* Before anything is loaded nothing exists.
LEMMA InitIInv == Init => IInv
<1> SUFFICES ASSUME Init PROVE IInv
  OBVIOUS
<1> USE SourcesAssumption, CallsAssumption, NamesAssumption
<1>1. Typed
  <2>1. opts \in [file : Files, central : Centrals, flags : SUBSET Flags, inPlace : BOOLEAN]
    BY DEF Init
  <2>2. step \in Steps /\ config \in [Block -> Source] /\ todo \subseteq Names
    BY DEF Init, Steps, Before, Source
  <2>3. context \in [blocks : [Block -> Source], consul : BOOLEAN]
    BY <2>2 DEF Init
  <2>4. auth \in [kind : {"none", "jwt", "redis"}, keys : Source, settings : Source]
    BY DEF Init, NoAuth, Source
  <2>5. clients \in [Names \cup Late \cup {"tokens"} -> [Client -> Nat]]
    BY DEF Init
  <2>6. DOMAIN backends = {} /\ schema = {} /\ calls \in 0..MaxCalls
    BY DEF Init
  <2> QED BY <2>1, <2>2, <2>3, <2>4, <2>5, <2>6 DEF Typed
<1>2. Progress
  BY DEF Init, Progress, Typed, Before, Over, NoAuth
<1>3. Sources
  BY DEF Init, Sources, OnlyConsulDivides, FromFile, Asked, Progress, Typed, NoAuth, Block
<1>4. Made
  BY DEF Init, Made, Progress, Before, Typed
<1>5. Opened
  BY DEF Init, Opened, Typed, Client, Over, Progress, Before
<1>6. Handled
  BY DEF Init, Handled, Chains, Flag, Asked, Progress, Before, Typed
<1> QED BY <1>1, <1>2, <1>3, <1>4, <1>5, <1>6 DEF IInv

\* No step at all.
LEMMA QuietKept == IInv /\ UNCHANGED vars => IInv'
<1> SUFFICES ASSUME IInv, UNCHANGED vars PROVE IInv'
  OBVIOUS
<1> USE SourcesAssumption, CallsAssumption, NamesAssumption DEF IInv
<1>1. Typed'
  BY DEF vars, Typed, Steps, Before, Over, Source, Block, Client
<1>2. Progress'
  BY DEF vars, Progress, Typed, Before, Over, NoAuth
<1>3. Sources'
  BY DEF vars, Sources, OnlyConsulDivides, FromFile, Asked, Progress, Typed, NoAuth, Block
<1>4. Made'
  BY DEF vars, Made, Progress, Before, Typed
<1>5. Opened'
  BY DEF vars, Opened, Typed, Client, Over, Progress, Before
<1>6. Handled'
  <2>1. Chains' = Chains
    BY DEF Chains, Flag, Asked, vars
  <2> QED BY <2>1 DEF Handled, Flag, Asked, vars
<1> QED BY <1>1, <1>2, <1>3, <1>4, <1>5, <1>6

\* Only the local file has been read.
LEMMA LoadLocalKept == IInv /\ LoadLocal => IInv'
<1> SUFFICES ASSUME IInv, LoadLocal PROVE IInv'
  OBVIOUS
<1> USE SourcesAssumption, CallsAssumption, NamesAssumption DEF IInv
<1>1. Typed'
  BY DEF LoadLocal, Goto, Typed, Steps, Before, Over, Source, Block, Client
<1>2. Progress'
  BY DEF LoadLocal, Goto, Progress, Typed, Before, Over, NoAuth
<1>3. Sources'
  BY DEF LoadLocal, Goto, Sources, OnlyConsulDivides, FromFile, Asked, Progress, Typed, NoAuth, Block
<1>4. Made'
  BY DEF LoadLocal, Goto, Made, Progress, Before, Typed
<1>5. Opened'
  BY DEF LoadLocal, Goto, Opened, Typed, Client, Over, Progress, Before
<1>6. Handled'
  BY DEF LoadLocal, Goto, Handled, Chains, Flag, Asked, Progress, Before, Typed
<1> QED BY <1>1, <1>2, <1>3, <1>4, <1>5, <1>6

\* The authorization is made from the blocks of the file.
LEMMA AuthorizeKept == IInv /\ Authorize => IInv'
<1> SUFFICES ASSUME IInv, Authorize PROVE IInv'
  OBVIOUS
<1> USE SourcesAssumption, CallsAssumption, NamesAssumption DEF IInv
<1>1. Typed'
  <2>1. step' \in Steps
    BY DEF Authorize, Goto, Steps, Before, Over
  <2>2. auth' \in [kind : {"none", "jwt", "redis"}, keys : Source, settings : Source]
    BY DEF Authorize, Typed, Block
  <2>3. clients' \in [Names \cup Late \cup {"tokens"} -> [Client -> Nat]]
    BY DEF Authorize, Typed, Client
  <2>4. context' = context \/ context' = [blocks |-> config, consul |-> FALSE]
    BY DEF Authorize
  <2>5. context' \in [blocks : [Block -> Source], consul : BOOLEAN]
    <3>1. config \in [Block -> Source] /\ context \in [blocks : [Block -> Source], consul : BOOLEAN]
      BY DEF Typed
    <3>2. [blocks |-> config, consul |-> FALSE] \in [blocks : [Block -> Source], consul : BOOLEAN]
      BY <3>1
    <3> QED BY <2>4, <3>1, <3>2
  <2> QED BY <2>1, <2>2, <2>3, <2>5 DEF Authorize, Typed
<1>2. Progress'
  BY DEF Authorize, Goto, Source, Client, Progress, Typed, Before, Over, NoAuth
<1>3. Sources'
  BY DEF Authorize, Goto, Source, Client, Sources, OnlyConsulDivides, FromFile, Asked, Progress, Typed, NoAuth, Block
<1>4. Made'
  BY DEF Authorize, Goto, Source, Client, Made, Progress, Before, Typed
<1>5. Opened'
  <2>1. \A n \in Names \cup Late : clients'[n] = clients[n]
    BY DEF Authorize, Typed
  <2>2. calls' = 0 /\ calls = 0 /\ DOMAIN backends' = {} /\ DOMAIN backends = {} /\ step \notin Over
    BY DEF Authorize, Progress, Before, Over
  <2>3. \A n \in Names \cup Late : clients'[n].redis = 0 /\ clients'[n].xorm = 0
    BY <2>1, <2>2 DEF Opened, Typed, Client, Over
  <2>4. "tokens" \in Names \cup {"tokens"} /\ "tokens" \in Names \cup Late \cup {"tokens"}
    OBVIOUS
  <2> QED BY <2>2, <2>3, <2>4 DEF Opened
<1>6. Handled'
  BY DEF Authorize, Goto, Source, Client, Handled, Chains, Flag, Asked, Progress, Before, Typed
<1> QED BY <1>1, <1>2, <1>3, <1>4, <1>5, <1>6

\* What consul has reaches the configuration and, in place, what points into it.
LEMMA LoadCentralKept == IInv /\ LoadCentral => IInv'
<1> SUFFICES ASSUME IInv, LoadCentral PROVE IInv'
  OBVIOUS
<1> USE SourcesAssumption, CallsAssumption, NamesAssumption DEF IInv
<1>1. Typed'
  BY DEF LoadCentral, Goto, Loaded, SeenThrough, KeptContext, Asked, Typed, Steps, Before, Over, Source, Block, Client
<1>2. Progress'
  BY DEF LoadCentral, Goto, Loaded, SeenThrough, KeptContext, Asked, Progress, Typed, Before, Over, NoAuth
<1>3. Sources'
  BY DEF LoadCentral, Goto, Loaded, SeenThrough, KeptContext, Asked, Sources, OnlyConsulDivides, FromFile, Asked, Progress, Typed, NoAuth, Block
<1>4. Made'
  BY DEF LoadCentral, Goto, Loaded, SeenThrough, KeptContext, Asked, Made, Progress, Before, Typed
<1>5. Opened'
  BY DEF LoadCentral, Goto, Loaded, SeenThrough, KeptContext, Asked, Opened, Typed, Client, Over, Progress, Before
<1>6. Handled'
  BY DEF LoadCentral, Goto, Loaded, SeenThrough, KeptContext, Asked, Handled, Chains, Flag, Asked, Progress, Before, Typed
<1> QED BY <1>1, <1>2, <1>3, <1>4, <1>5, <1>6

\* The signer is the transport block then in force.
LEMMA MakeServerKept == IInv /\ MakeServer => IInv'
<1> SUFFICES ASSUME IInv, MakeServer PROVE IInv'
  OBVIOUS
<1> USE SourcesAssumption, CallsAssumption, NamesAssumption DEF IInv
<1>1. Typed'
  BY DEF MakeServer, Goto, Typed, Steps, Before, Over, Source, Block, Client
<1>2. Progress'
  BY DEF MakeServer, Goto, Progress, Typed, Before, Over, NoAuth
<1>3. Sources'
  BY DEF MakeServer, Goto, Sources, OnlyConsulDivides, FromFile, Asked, Progress, Typed, NoAuth, Block
<1>4. Made'
  BY DEF MakeServer, Goto, Made, Progress, Before, Typed
<1>5. Opened'
  BY DEF MakeServer, Goto, Opened, Typed, Client, Over, Progress, Before
<1>6. Handled'
  BY DEF MakeServer, Goto, Handled, Chains, Flag, Asked, Progress, Before, Typed
<1> QED BY <1>1, <1>2, <1>3, <1>4, <1>5, <1>6

\* What RegisterBackend may end in: a backend has both clients, from blocks
\* that are there, a refusal opens an engine at most, and redis comes after it.
LEMMA OutcomesAre ==
    ASSUME NEW name, NEW o \in Outcomes(name)
    PROVE  /\ o.result \in {"registered", "refused", "panicked"}
           /\ o.result = "registered" =>
                 /\ name \notin DOMAIN backends /\ o.opened = Client
                 /\ context.blocks.xorm # "none" /\ context.blocks.redis # "none"
           /\ o.result = "refused" => o.opened \subseteq {"xorm"}
           /\ o.opened \subseteq Client /\ ("redis" \in o.opened => "xorm" \in o.opened)
  BY DEF Outcomes, Outcome, Client

\* Only the clients of the name are counted.
LEMMA ClientsAre ==
    ASSUME Typed, NEW name \in Names \cup Late, NEW o \in Outcomes(name), Registration(name, o)
    PROVE  /\ clients' \in [Names \cup Late \cup {"tokens"} -> [Client -> Nat]]
           /\ \A n \in Names \cup Late : n # name => clients'[n] = clients[n]
           /\ clients'[name].xorm = clients[name].xorm + (IF "xorm" \in o.opened THEN 1 ELSE 0)
           /\ clients'[name].redis = clients[name].redis + (IF "redis" \in o.opened THEN 1 ELSE 0)
<1> DEFINE Count(c) == IF c \in o.opened THEN 1 ELSE 0
           New == [c \in Client |-> clients[name][c] + Count(c)]
<1>1. clients' = [clients EXCEPT ![name] = New]
  BY DEF Registration
<1>2. clients[name] \in [Client -> Nat] /\ name \in DOMAIN clients
  BY DEF Typed
<1>3. New \in [Client -> Nat]
  BY <1>2
<1>4. New.xorm = clients[name].xorm + Count("xorm") /\ New.redis = clients[name].redis + Count("redis")
  BY DEF Client
<1> HIDE DEF New
<1> QED BY <1>1, <1>2, <1>3, <1>4 DEF Typed

\* A registration adds the one backend, made from what the context holds.
LEMMA BackendsAre ==
    ASSUME NEW name, NEW o \in Outcomes(name), Registration(name, o)
    PROVE  /\ o.result # "registered" => backends' = backends
           /\ o.result = "registered" =>
                 /\ DOMAIN backends' = DOMAIN backends \cup {name}
                 /\ \A n \in DOMAIN backends : backends'[n] = backends[n]
                 /\ backends'[name].xorm = context.blocks.xorm
                 /\ backends'[name].redis = context.blocks.redis
                 /\ backends'[name].tokens = auth.kind
<1>1. CASE o.result # "registered"
  BY <1>1 DEF Registration
<1>2. CASE o.result = "registered"
  <2>1. PICK started \in BOOLEAN :
            backends' = [n \in DOMAIN backends \cup {name} |->
                            IF n = name THEN Backend(started) ELSE backends[n]]
    BY <1>2 DEF Registration
  <2>2. name \notin DOMAIN backends
    BY <1>2, OutcomesAre
  <2> QED BY <1>2, <2>1, <2>2 DEF Backend
<1> QED BY <1>1, <1>2

\* What a registration that may still go on leaves open: nobody but the name,
\* and that only after a panic, has a redis client and no backend.
Counted(name, result) ==
    /\ \A n \in Names \cup Late :
          /\ clients'[n].redis \in 0..1 /\ clients'[n].xorm \in Nat
          /\ n \in DOMAIN backends' => clients'[n].redis = 1
          /\ clients'[n].redis <= clients'[n].xorm
    /\ \A n \in (Names \cup Late) \ DOMAIN backends' :
          n # name \/ result # "panicked" => clients'[n].redis = 0

\* Whoever registers a backend keeps what is known of backends and of clients:
\* this half of the two actions that do is the same.
LEMMA RegistrationKept ==
    ASSUME IInv, NEW name \in Names \cup Late, NEW o \in Outcomes(name), Registration(name, o),
           UNCHANGED <<opts, context, auth>>, auth # NoAuth, step # "panicked"
    PROVE  /\ Made'
           /\ DOMAIN backends \subseteq DOMAIN backends' /\ DOMAIN backends' \subseteq Names \cup Late
           /\ Counted(name, o.result)
<1> USE DEF IInv
<1>a. /\ o.result \in {"registered", "refused", "panicked"}
      /\ o.result = "registered" =>
            /\ name \notin DOMAIN backends /\ o.opened = Client
            /\ context.blocks.xorm # "none" /\ context.blocks.redis # "none"
      /\ o.result = "refused" => o.opened \subseteq {"xorm"}
      /\ o.opened \subseteq Client /\ ("redis" \in o.opened => "xorm" \in o.opened)
  BY OutcomesAre
<1>b. /\ o.result # "registered" => backends' = backends
      /\ o.result = "registered" =>
            /\ DOMAIN backends' = DOMAIN backends \cup {name}
            /\ \A n \in DOMAIN backends : backends'[n] = backends[n]
            /\ backends'[name].xorm = context.blocks.xorm
            /\ backends'[name].redis = context.blocks.redis
            /\ backends'[name].tokens = auth.kind
  BY BackendsAre
<1>c. /\ \A n \in Names \cup Late : n # name => clients'[n] = clients[n]
      /\ clients'[name].xorm = clients[name].xorm + (IF "xorm" \in o.opened THEN 1 ELSE 0)
      /\ clients'[name].redis = clients[name].redis + (IF "redis" \in o.opened THEN 1 ELSE 0)
  BY ClientsAre
<1>d. name \in DOMAIN backends => o.opened = {}
  BY DEF Outcomes, Outcome
<1>1. Made'
  <2>1. CASE o.result # "registered"
    BY <2>1, <1>b DEF Made
  <2>2. CASE o.result = "registered"
    <3>1. ASSUME NEW n \in DOMAIN backends'
          PROVE  /\ backends'[n].tokens = auth.kind /\ "none" \notin {backends'[n].xorm, backends'[n].redis}
                 /\ backends'[n].xorm = context.blocks.xorm /\ backends'[n].redis = context.blocks.redis
      BY <2>2, <1>a, <1>b DEF Made
    <3> QED BY <3>1 DEF Made
  <2> QED BY <2>1, <2>2
<1>2. DOMAIN backends \subseteq DOMAIN backends' /\ DOMAIN backends' \subseteq Names \cup Late
  BY <1>b DEF Typed
<1>3. ASSUME NEW n \in Names \cup Late
      PROVE  /\ clients'[n].redis \in 0..1 /\ clients'[n].xorm \in Nat
             /\ n \in DOMAIN backends' => clients'[n].redis = 1
             /\ clients'[n].redis <= clients'[n].xorm
             /\ n \notin DOMAIN backends' /\ (n # name \/ o.result # "panicked") => clients'[n].redis = 0
  <2>1. /\ clients[n].redis \in 0..1 /\ clients[n].xorm \in Nat
        /\ n \in DOMAIN backends => clients[n].redis = 1
        /\ n \notin DOMAIN backends => clients[n].redis = 0
        /\ clients[n].redis <= clients[n].xorm
    BY DEF Opened, Typed, Client
  <2>2. CASE n # name
    <3>1. clients'[n] = clients[n] /\ (n \in DOMAIN backends' <=> n \in DOMAIN backends)
      BY <2>2, <1>b, <1>c
    <3> QED BY <2>1, <3>1
  <2>3. CASE n = name /\ o.result = "registered"
    BY <2>1, <2>3, <1>a, <1>b, <1>c DEF Client
  <2>4. CASE n = name /\ o.result # "registered"
    BY <2>1, <2>4, <1>a, <1>b, <1>c, <1>d
  <2> QED BY <2>2, <2>3, <2>4
<1>4. Counted(name, o.result)
  BY <1>3 DEF Counted
<1> QED BY <1>1, <1>2, <1>4

\* The loop makes a backend of one factory, or startup ends there.
LEMMA RegisterBackendKept == IInv /\ RegisterBackend => IInv'
<1> SUFFICES ASSUME IInv, RegisterBackend PROVE IInv'
  OBVIOUS
<1> USE SourcesAssumption, CallsAssumption, NamesAssumption DEF IInv
<1>0. /\ step = "register" /\ auth # NoAuth /\ routes = << >> /\ calls = 0
      /\ DOMAIN backends = Names \ todo
      /\ UNCHANGED <<opts, config, context, auth, signer, middleware, routes, schema, calls>>
  BY DEF RegisterBackend, Progress, Before
<1>1. CASE todo = {}
  <2>1. step' = "initialize" /\ UNCHANGED <<todo, clients, backends>>
    BY <1>1 DEF RegisterBackend, Goto
  <2>2. Typed'
    BY <1>0, <2>1 DEF Typed, Steps
  <2>3. Progress'
    BY <1>0, <1>1, <2>1 DEF Progress, Before
  <2>4. Sources' /\ Made'
    BY <1>0, <2>1 DEF Sources, Made, OnlyConsulDivides, Asked
  <2>5. Opened'
    BY <1>0, <2>1 DEF Opened, Over
  <2>6. Handled'
    BY <1>0, <2>1 DEF Handled, Chains, Flag, Asked
  <2> QED BY <2>2, <2>3, <2>4, <2>5, <2>6
<1>2. CASE todo # {}
  <2>0. PICK name \in todo : \E o \in Outcomes(name) :
            /\ Registration(name, o)
            /\ todo' = todo \ {name}
            /\ step' = CASE o.result = "registered" -> "register"
                         [] o.result = "refused" -> "failed"
                         [] o.result = "panicked" -> "panicked"
    BY <1>2 DEF RegisterBackend, Goto
  <2>1. PICK o \in Outcomes(name) :
            /\ Registration(name, o)
            /\ todo' = todo \ {name}
            /\ step' = CASE o.result = "registered" -> "register"
                         [] o.result = "refused" -> "failed"
                         [] o.result = "panicked" -> "panicked"
    BY <2>0
  <2>2. name \in Names /\ name \notin DOMAIN backends
    BY <1>0, <2>1 DEF Typed
  <2>3. /\ o.result \in {"registered", "refused", "panicked"}
        /\ o.result = "registered" => o.opened = Client
        /\ "redis" \in o.opened => "xorm" \in o.opened
    BY OutcomesAre
  <2>4. /\ o.result = "registered" => step' = "register"
        /\ o.result # "registered" => step' \in Over
        /\ o.result = "panicked" <=> step' = "panicked"
    BY <2>1, <2>3 DEF Over
  <2>5. /\ o.result # "registered" => backends' = backends
        /\ o.result = "registered" => DOMAIN backends' = DOMAIN backends \cup {name}
    BY <2>1, BackendsAre
  <2>6. /\ Made'
        /\ DOMAIN backends \subseteq DOMAIN backends' /\ DOMAIN backends' \subseteq Names \cup Late
        /\ Counted(name, o.result)
    <3>1. UNCHANGED <<opts, context, auth>>
      BY <1>0
    <3> QED BY <1>0, <2>1, <2>2, <3>1, RegistrationKept
  <2>7. /\ clients' \in [Names \cup Late \cup {"tokens"} -> [Client -> Nat]]
        /\ \A n \in Names \cup Late : n # name => clients'[n] = clients[n]
        /\ clients'[name].xorm = clients[name].xorm + (IF "xorm" \in o.opened THEN 1 ELSE 0)
        /\ clients'[name].redis = clients[name].redis + (IF "redis" \in o.opened THEN 1 ELSE 0)
    BY <2>1, <2>2, ClientsAre
  <2>8. Typed'
    BY <1>0, <2>1, <2>4, <2>6, <2>7 DEF Typed, Steps
  <2>9. Progress'
    BY <1>0, <2>1, <2>2, <2>4, <2>5, <2>6 DEF Progress, Before, Over
  <2>10. Sources'
    BY <1>0, <2>4 DEF Sources, OnlyConsulDivides, Asked, Over
  <2>11. Opened'
    <3>1. \A n \in Names \cup Late :
              /\ clients[n].xorm = clients[n].redis /\ clients[n].redis \in 0..1
              /\ clients[n].redis = (IF n \in DOMAIN backends THEN 1 ELSE 0)
      BY <1>0 DEF Opened, Over, Typed, Client
    <3>2. /\ \A n \in Names \cup Late :
              /\ clients'[n].redis \in 0..1 /\ clients'[n].xorm \in Nat
              /\ n \in DOMAIN backends' => clients'[n].redis = 1
              /\ clients'[n].redis <= clients'[n].xorm
          /\ \A n \in (Names \cup Late) \ DOMAIN backends' :
              n # name \/ o.result # "panicked" => clients'[n].redis = 0
      BY <2>6 DEF Counted
    <3>3. ASSUME NEW n \in Names \cup Late
          PROVE  /\ clients'[n].xorm <= clients'[n].redis + calls' + (IF step' \in Over THEN 1 ELSE 0)
                 /\ n \in DOMAIN backends' => clients'[n].xorm = 1
                 /\ n \notin DOMAIN backends' /\ n # name => clients'[n].xorm = 0
      <4>1. CASE n # name
        <5>1. clients'[n] = clients[n] /\ (n \in DOMAIN backends' <=> n \in DOMAIN backends)
          BY <2>5, <2>7, <4>1
        <5> QED BY <1>0, <3>1, <4>1, <5>1
      <4>2. CASE n = name /\ o.result = "registered"
        BY <1>0, <2>2, <2>3, <2>7, <3>1, <4>2 DEF Client
      <4>3. CASE n = name /\ o.result # "registered"
        BY <1>0, <2>2, <2>3, <2>4, <2>5, <2>7, <3>1, <4>3
      <4> QED BY <4>1, <4>2, <4>3
    <3>4. \A n \in DOMAIN backends' : clients'[n].xorm = 1
      BY <2>6, <3>3
    <3>5. step' # "panicked" => \A n \in (Names \cup Late) \ DOMAIN backends' : clients'[n].redis = 0
      BY <2>4, <3>2
    <3>6. \E m \in Names \cup Late \cup {"tokens"} :
             \A n \in (Names \cup Late) \ DOMAIN backends' : n # m => clients'[n].redis = 0
      BY <2>2, <3>2
    <3>7. \E m \in Names \cup {"tokens"} :
             \A n \in (Names \cup Late) \ DOMAIN backends' : n # m => clients'[n].xorm = 0
      BY <2>2, <3>3
    <3> QED BY <3>2, <3>3, <3>4, <3>5, <3>6, <3>7 DEF Opened
  <2>12. Handled'
    <3>1. Chains' = Chains /\ DOMAIN routes = {}
      BY <1>0 DEF Chains, Flag, Asked
    <3> QED BY <1>0, <2>4, <3>1 DEF Handled, Flag, Asked, Over
  <2> QED BY <2>6, <2>8, <2>9, <2>10, <2>11, <2>12
<1> QED BY <1>1, <1>2

\* The first Initialize finds no route and puts all of its own behind the
\* handlers it has just made.
LEMMA InitializeKept == IInv /\ Initialize => IInv'
<1> SUFFICES ASSUME IInv, Initialize PROVE IInv'
  OBVIOUS
<1> USE SourcesAssumption, CallsAssumption, NamesAssumption DEF IInv
<1> DEFINE new == {"api"} \cup IF Asked("ui") THEN {"schemas", "docs"} ELSE {}
<1>1. /\ step = "initialize" /\ auth # NoAuth /\ routes = << >> /\ calls = 0
      /\ Names \subseteq DOMAIN backends /\ middleware = Flag("cors", "cors")
  BY DEF Initialize, Progress, Handled, Before
<1>2. UNCHANGED <<opts, config, context, auth, signer, todo, clients, backends, calls>>
  BY DEF Initialize, InitializeServer
<1>3. DOMAIN routes = {}
  BY <1>1
<1>4. /\ step' = "ready"
      /\ routes' = [r \in new |-> middleware']
      /\ schema' = IF Asked("ui") THEN DOMAIN backends ELSE {}
  <2>1. Routed(new)
    BY DEF Initialize, InitializeServer
  <2>2. new \cap DOMAIN routes = {}
    BY <1>3
  <2> HIDE DEF new
  <2>3. [r \in DOMAIN routes \cup new |-> IF r \in new THEN middleware' ELSE routes[r]]
            = [r \in new |-> middleware']
    BY <1>3
  <2> QED BY <2>1, <2>2, <2>3 DEF Routed, Goto
<1>5. middleware' \in Chains
  BY <1>1 DEF Initialize, InitializeServer, Handlers, Chains
<1>6. Typed'
  BY <1>2, <1>4 DEF Typed, Steps
<1>7. Progress'
  <2>1. "schemas" \in DOMAIN routes' => schema' = DOMAIN backends
    BY <1>4
  <2>2. "api" \in DOMAIN routes'
    BY <1>4
  <2> QED BY <1>1, <1>2, <1>4, <2>1, <2>2 DEF Progress, Before
<1>8. Sources' /\ Made'
  BY <1>1, <1>2, <1>4 DEF Sources, Made, OnlyConsulDivides, Asked
<1>9. Opened'
  BY <1>1, <1>2, <1>4 DEF Opened, Over
<1>10. Handled'
  <2>1. Chains' = Chains
    BY <1>2 DEF Chains, Flag, Asked
  <2> QED BY <1>4, <1>5, <2>1 DEF Handled
<1> QED BY <1>6, <1>7, <1>8, <1>9, <1>10

\* A second one finds the route of the first, and gin panics.
LEMMA InitializeAgainKept == IInv /\ InitializeAgain => IInv'
<1> SUFFICES ASSUME IInv, InitializeAgain PROVE IInv'
  OBVIOUS
<1> USE SourcesAssumption, CallsAssumption, NamesAssumption DEF IInv
<1>1. /\ step = "ready" /\ auth # NoAuth /\ "api" \in DOMAIN routes /\ calls < MaxCalls
      /\ calls' = calls + 1
  BY DEF InitializeAgain, Calls, Progress
<1>2. UNCHANGED <<opts, config, context, auth, signer, todo, clients, backends>>
  BY DEF InitializeAgain, InitializeServer
<1>3. step' = "panicked" /\ UNCHANGED <<routes, schema>>
  BY <1>1 DEF InitializeAgain, InitializeServer, Routed, Goto
<1>4. Typed'
  BY <1>1, <1>2, <1>3 DEF Typed, Steps, Over
<1>5. Progress'
  BY <1>1, <1>2, <1>3 DEF Progress, Before
<1>6. Sources' /\ Made'
  BY <1>1, <1>2, <1>3 DEF Sources, Made, OnlyConsulDivides, Asked
<1>7. Opened'
  BY <1>1, <1>2, <1>3 DEF Opened, Over, Typed, Client
<1>8. Handled'
  <2>1. Chains' = Chains
    BY <1>2 DEF Chains, Flag, Asked
  <2> QED BY <1>3, <2>1 DEF Handled
<1> QED BY <1>4, <1>5, <1>6, <1>7, <1>8

\* The application's own registration is like one of the loop, once the routes
\* are there.
LEMMA RegisterLaterKept == IInv /\ RegisterLater => IInv'
<1> SUFFICES ASSUME IInv, RegisterLater PROVE IInv'
  OBVIOUS
<1> USE SourcesAssumption, CallsAssumption, NamesAssumption DEF IInv
<1>1. /\ step = "ready" /\ auth # NoAuth /\ "api" \in DOMAIN routes /\ calls < MaxCalls
      /\ calls' = calls + 1 /\ Names \subseteq DOMAIN backends
      /\ UNCHANGED <<opts, config, context, auth, signer, todo, middleware, routes, schema>>
  BY DEF RegisterLater, Calls, Progress
<1>2. PICK name \in Names \cup Late : \E o \in Outcomes(name) :
          Registration(name, o) /\ IF o.result = "panicked" THEN Goto("panicked") ELSE UNCHANGED step
  BY DEF RegisterLater
<1>3. PICK o \in Outcomes(name) :
          Registration(name, o) /\ IF o.result = "panicked" THEN Goto("panicked") ELSE UNCHANGED step
  BY <1>2
<1>4. step' \in {"ready", "panicked"}
  BY <1>1, <1>3 DEF Goto
<1>5. /\ o.result \in {"registered", "refused", "panicked"}
      /\ o.result = "panicked" <=> step' = "panicked"
  BY <1>1, <1>3, OutcomesAre DEF Goto
<1>6. /\ Made'
      /\ DOMAIN backends \subseteq DOMAIN backends' /\ DOMAIN backends' \subseteq Names \cup Late
      /\ Counted(name, o.result)
  <2>1. UNCHANGED <<opts, context, auth>>
    BY <1>1
  <2> QED BY <1>1, <1>3, <2>1, RegistrationKept
<1>7. /\ clients' \in [Names \cup Late \cup {"tokens"} -> [Client -> Nat]]
      /\ \A n \in Names \cup Late : n # name => clients'[n] = clients[n]
      /\ clients'[name].xorm = clients[name].xorm + (IF "xorm" \in o.opened THEN 1 ELSE 0)
      /\ clients'[name].redis = clients[name].redis + (IF "redis" \in o.opened THEN 1 ELSE 0)
  BY <1>3, ClientsAre
<1>8. Typed'
  BY <1>1, <1>4, <1>6, <1>7 DEF Typed, Steps, Over
<1>9. Progress'
  BY <1>1, <1>4, <1>6 DEF Progress, Before
<1>10. Sources'
  BY <1>1, <1>4 DEF Sources, OnlyConsulDivides, Asked
<1>11. Opened'
  <2>1. calls \in Nat /\ \A n \in Names \cup Late :
            /\ clients[n].xorm \in Nat /\ clients[n].redis \in Nat
            /\ clients[n].xorm <= clients[n].redis + calls
    BY <1>1 DEF Opened, Over, Typed, Client
  <2>2. \A n \in Names \cup Late : clients'[n].xorm <= clients'[n].redis + calls'
    <3>1. clients'[name].xorm <= clients'[name].redis + calls'
      BY <1>1, <1>7, <2>1
    <3>2. ASSUME NEW n \in Names \cup Late, n # name PROVE clients'[n].xorm <= clients'[n].redis + calls'
      BY <1>1, <1>7, <2>1, <3>2
    <3> QED BY <3>1, <3>2
  <2>3. /\ \A n \in Names \cup Late :
            /\ clients'[n].redis \in 0..1 /\ clients'[n].xorm \in Nat
            /\ n \in DOMAIN backends' => clients'[n].redis = 1
            /\ clients'[n].redis <= clients'[n].xorm
        /\ \A n \in (Names \cup Late) \ DOMAIN backends' :
            n # name \/ o.result # "panicked" => clients'[n].redis = 0
    BY <1>6 DEF Counted
  <2>4. calls' # 0 /\ calls' \in Nat
    BY <1>1, <2>1
  <2>5. ASSUME NEW n \in Names \cup Late
        PROVE  clients'[n].xorm <= clients'[n].redis + calls' + (IF step' \in Over THEN 1 ELSE 0)
    BY <2>2, <2>3, <2>4
  <2>6. step' # "panicked" => \A n \in (Names \cup Late) \ DOMAIN backends' : clients'[n].redis = 0
    BY <1>5, <2>3
  <2>7. \E m \in Names \cup Late \cup {"tokens"} :
           \A n \in (Names \cup Late) \ DOMAIN backends' : n # m => clients'[n].redis = 0
    BY <2>3
  <2> QED BY <2>3, <2>4, <2>5, <2>6, <2>7 DEF Opened
<1>12. Handled'
  <2>1. Chains' = Chains
    BY <1>1 DEF Chains, Flag, Asked
  <2> QED BY <1>1, <1>4, <2>1 DEF Handled
<1> QED BY <1>6, <1>8, <1>9, <1>10, <1>11, <1>12

\* A route of the application stands behind the same handlers.
LEMMA AddHandleKept == IInv /\ AddHandle => IInv'
<1> SUFFICES ASSUME IInv, AddHandle PROVE IInv'
  OBVIOUS
<1> USE SourcesAssumption, CallsAssumption, NamesAssumption DEF IInv
<1>1. /\ step = "ready" /\ auth # NoAuth /\ "api" \in DOMAIN routes /\ calls < MaxCalls
      /\ calls' = calls + 1 /\ Names \subseteq DOMAIN backends
      /\ middleware \in Chains
      /\ UNCHANGED <<opts, config, context, auth, signer, todo, clients, backends, middleware, schema>>
  BY DEF AddHandle, Calls, Progress, Handled
<1>2. step' \in {"ready", "panicked"}
  BY <1>1 DEF AddHandle, Goto
<1>3. /\ DOMAIN routes \subseteq DOMAIN routes' /\ DOMAIN routes' \subseteq DOMAIN routes \cup {"custom"}
      /\ \A r \in DOMAIN routes' : routes'[r] \in Chains
  BY <1>1 DEF AddHandle, Handled
<1>4. Typed'
  BY <1>1, <1>2 DEF Typed, Steps, Over
<1>5. Progress'
  BY <1>1, <1>2, <1>3 DEF Progress, Before
<1>6. Sources' /\ Made'
  BY <1>1, <1>2 DEF Sources, Made, OnlyConsulDivides, Asked
<1>7. Opened'
  BY <1>1, <1>2 DEF Opened, Over, Typed, Client
<1>8. Handled'
  <2>1. Chains' = Chains
    BY <1>1 DEF Chains, Flag, Asked
  <2> QED BY <1>1, <1>2, <1>3, <2>1 DEF Handled
<1> QED BY <1>4, <1>5, <1>6, <1>7, <1>8

\* The invariant holds whatever the file, consul and the flags hold, in
\* whatever order the factories are taken, and whatever the application does.
THEOREM Invariance == Spec => []IInv
<1>1. IInv /\ [Next]_vars => IInv'
  BY LoadLocalKept, AuthorizeKept, LoadCentralKept, MakeServerKept, RegisterBackendKept,
     InitializeKept, InitializeAgainKept, RegisterLaterKept, AddHandleKept, QuietKept
     DEF Next, Ended
<1> QED BY InitIInv, <1>1, PTL DEF Spec

-----------------------------------------------------------------------------
(* The handlers in front of a route. *)

Handler == {"cors", "tracer", "newrelic", "nil", "logger"}

\* A sequence of handlers that has none twice.
Once(s) == s \in Seq(Handler) /\ IsFiniteSet(Range(s)) /\ Cardinality(Range(s)) = Len(s)

\* Two such sequences that share no handler are one together.
LEMMA Joined ==
    ASSUME NEW s, NEW t, Once(s), Once(t), Range(s) \cap Range(t) = {}
    PROVE  Once(s \o t) /\ Range(s \o t) = Range(s) \cup Range(t)
<1>1. s \o t \in Seq(Handler) /\ Len(s \o t) = Len(s) + Len(t)
  BY ConcatProperties DEF Once
<1>2. Range(s \o t) = Range(s) \cup Range(t)
  BY RangeConcatenation DEF Once
<1>3. /\ IsFiniteSet(Range(s) \cup Range(t))
      /\ Cardinality(Range(s) \cup Range(t)) = Cardinality(Range(s)) + Cardinality(Range(t)) - Cardinality({})
  <2> DEFINE S == Range(s)  T == Range(t)
  <2>1. IsFiniteSet(S) /\ IsFiniteSet(T) /\ S \cap T = {}
    BY DEF Once
  <2> HIDE DEF S, T
  <2>2. IsFiniteSet(S \cup T) /\ Cardinality(S \cup T) = Cardinality(S) + Cardinality(T) - Cardinality({})
    BY <2>1, FS_Union
  <2> QED BY <2>2 DEF S, T
<1>4. Cardinality({}) = 0 /\ Len(s) \in Nat /\ Len(t) \in Nat
  BY FS_EmptySet, LenProperties DEF Once
<1> QED BY <1>1, <1>2, <1>3, <1>4 DEF Once

\* One handler, and a handler if it was asked for.
LEMMA FlagOnce ==
    ASSUME NEW flag, NEW h \in Handler
    PROVE  /\ Once(<<h>>) /\ Range(<<h>>) = {h}
           /\ Once(Flag(flag, h)) /\ Range(Flag(flag, h)) = IF Asked(flag) THEN {h} ELSE {}
<1>1. Once(<<h>>) /\ Range(<<h>>) = {h}
  <2>1. <<h>> \in Seq(Handler) /\ Len(<<h>>) = 1
    OBVIOUS
  <2>2. Range(<<h>>) = {h}
    <3>1. Range(<<h>>) = {<<h>>[i] : i \in 1..Len(<<h>>)}
      BY <2>1, RangeEquality
    <3> QED BY <3>1
  <2>3. IsFiniteSet({h}) /\ Cardinality({h}) = 1
    BY FS_Singleton
  <2> QED BY <2>1, <2>2, <2>3 DEF Once
<1>2. Once(<< >>) /\ Range(<< >>) = {}
  <2>1. << >> \in Seq(Handler) /\ Len(<< >>) = 0
    OBVIOUS
  <2>2. Range(<< >>) = {}
    BY DEF Range
  <2> QED BY <2>1, <2>2, FS_EmptySet DEF Once
<1> QED BY <1>1, <1>2 DEF Flag

\* What RoutesBehindTracer asks of a route holds of every chain there can be.
LEMMA ChainsBehindTracer ==
    ASSUME NEW chain \in Chains
    PROVE  /\ \E i \in DOMAIN chain : chain[i] = "tracer" /\ \A j \in 1..(i - 1) : chain[j] = "cors"
           /\ Cardinality(Range(chain)) = Len(chain)
           /\ Asked("trace") <=> "logger" \in Range(chain)
           /\ Asked("newrelic") <=> NewrelicHandler \cap Range(chain) # {}
<1>1. PICK newrelic \in NewrelicHandler :
          chain = Flag("cors", "cors") \o <<"tracer">> \o Flag("newrelic", newrelic) \o Flag("trace", "logger")
  BY DEF Chains
<1> DEFINE A == Flag("cors", "cors")
           B == A \o <<"tracer">>
           N == Flag("newrelic", newrelic)
           C == B \o N
           L == Flag("trace", "logger")
<1>2. newrelic \in {"newrelic", "nil"} /\ newrelic \in Handler
  BY DEF NewrelicHandler, Handler
<1>3. Once(A) /\ Range(A) = IF Asked("cors") THEN {"cors"} ELSE {}
  BY FlagOnce DEF Handler
<1>4. Once(<<"tracer">>) /\ Range(<<"tracer">>) = {"tracer"}
  BY FlagOnce DEF Handler
<1>5. Once(N) /\ Range(N) = IF Asked("newrelic") THEN {newrelic} ELSE {}
  BY <1>2, FlagOnce
<1>6. Once(L) /\ Range(L) = IF Asked("trace") THEN {"logger"} ELSE {}
  BY FlagOnce DEF Handler
<1>7. (A = << >> \/ A = <<"cors">>) /\ chain = C \o L
  BY <1>1 DEF Flag
<1> HIDE DEF A, N, L
<1>8. Once(B) /\ Range(B) = Range(A) \cup {"tracer"}
  BY <1>3, <1>4, Joined
<1> HIDE DEF B
<1>9. Once(C) /\ Range(C) = Range(B) \cup Range(N)
  BY <1>2, <1>3, <1>5, <1>8, Joined
<1> HIDE DEF C
<1>10. Once(chain) /\ Range(chain) = Range(C) \cup Range(L)
  <2>1. Range(C) \cap Range(L) = {}
    BY <1>2, <1>3, <1>5, <1>6, <1>8, <1>9
  <2> QED BY <1>6, <1>7, <1>9, <2>1, Joined
<1>11. \E i \in DOMAIN chain : chain[i] = "tracer" /\ \A j \in 1..(i - 1) : chain[j] = "cors"
  <2>1. /\ Len(B) \in Nat /\ Len(C) = Len(B) + Len(N) /\ Len(chain) = Len(C) + Len(L)
        /\ Len(N) \in Nat /\ Len(L) \in Nat /\ DOMAIN chain = 1..Len(chain)
        /\ \A j \in 1..Len(B) : C[j] = B[j] /\ chain[j] = C[j]
    <3>1. /\ Len(B) \in Nat /\ Len(C) \in Nat /\ Len(N) \in Nat /\ Len(L) \in Nat
          /\ DOMAIN chain = 1..Len(chain)
      BY <1>5, <1>6, <1>8, <1>9, <1>10, LenProperties DEF Once
    <3>2. /\ Len(C) = Len(B) + Len(N)
          /\ \A j \in 1..(Len(B) + Len(N)) : C[j] = IF j <= Len(B) THEN B[j] ELSE N[j - Len(B)]
      BY <1>5, <1>8, ConcatProperties DEF Once, C
    <3>3. /\ Len(chain) = Len(C) + Len(L)
          /\ \A j \in 1..(Len(C) + Len(L)) : chain[j] = IF j <= Len(C) THEN C[j] ELSE L[j - Len(C)]
      BY <1>6, <1>7, <1>9, ConcatProperties DEF Once
    <3> QED BY <3>1, <3>2, <3>3
  <2>2. \/ Len(B) = 1 /\ B[1] = "tracer"
        \/ Len(B) = 2 /\ B[1] = "cors" /\ B[2] = "tracer"
    BY <1>7 DEF B
  <2>3. CASE Len(B) = 1 /\ B[1] = "tracer"
    BY <2>1, <2>3
  <2>4. CASE Len(B) = 2 /\ B[1] = "cors" /\ B[2] = "tracer"
    <3>1. 2 \in DOMAIN chain /\ chain[2] = "tracer" /\ \A j \in 1..(2 - 1) : chain[j] = "cors"
      BY <2>1, <2>4
    <3> QED BY <3>1
  <2> QED BY <2>2, <2>3, <2>4
<1>12. Cardinality(Range(chain)) = Len(chain)
  BY <1>10 DEF Once
<1>13. Range(chain) = Range(A) \cup {"tracer"} \cup Range(N) \cup Range(L)
  BY <1>8, <1>9, <1>10
<1>14. Asked("trace") <=> "logger" \in Range(chain)
  BY <1>2, <1>3, <1>5, <1>6, <1>13
<1>15. Asked("newrelic") <=> NewrelicHandler \cap Range(chain) # {}
  BY <1>2, <1>3, <1>5, <1>6, <1>13 DEF NewrelicHandler
<1> QED BY <1>11, <1>12, <1>14, <1>15

-----------------------------------------------------------------------------
(* The properties the run checks. *)

\* The state keeps its type: an authorization that was made is of a kind there
\* is, with keys from somewhere.
THEOREM TypeCorrect == Spec => []TypeOK
<1>1. IInv => TypeOK
  BY SourcesAssumption DEF IInv, Typed, Sources, TypeOK, Source
<1> QED BY Invariance, <1>1, PTL

\* Whoever reaches a route finds every factory a backend with its clients and
\* the authorization behind it, and the tracer in front of it.
THEOREM Complete == Spec => []RoutesComplete
<1>1. IInv => RoutedWhenComplete
  BY DEF IInv, Progress, Made, RoutedWhenComplete
<1>2. IInv => RoutesBehindTracer
  BY ChainsBehindTracer DEF IInv, Handled, RoutesBehindTracer
<1> QED BY Invariance, <1>1, <1>2, PTL DEF RoutesComplete

\* A backend has one redis client, a redis client without a backend is left by a
\* panic of InitializeFunc alone, and a failed start leaves both clients of each
\* backend it had registered and those of one name more: nothing closes them.
THEOREM ClientsCounted == Spec => []ClientsAccounted
<1>1. ASSUME IInv PROVE ClientsAccounted
  <2> DEFINE left(c) == {n \in (Names \cup Late) \ DOMAIN backends : clients[n][c] > 0}
  <2>1. /\ calls \in Nat
        /\ \A n \in Names \cup Late :
              /\ clients[n].xorm \in Nat /\ clients[n].redis \in 0..1
              /\ n \in DOMAIN backends => clients[n].redis = 1
              /\ clients[n].redis <= clients[n].xorm
              /\ clients[n].xorm <= clients[n].redis + calls + (IF step \in Over THEN 1 ELSE 0)
        /\ step # "panicked" => \A n \in (Names \cup Late) \ DOMAIN backends : clients[n].redis = 0
        /\ calls = 0 => \A n \in DOMAIN backends : clients[n].xorm = 1
    BY <1>1, CallsAssumption DEF IInv, Typed, Opened, Client
  <2>2. \A n \in Names \cup Late :
           /\ n \in DOMAIN backends => clients[n].redis = 1
           /\ clients[n].redis \in 0..1 /\ clients[n].xorm - clients[n].redis \in 0..(calls + 1)
    BY <2>1
  <2>3. \A m : Cardinality({}) = 0 /\ IsFiniteSet({m}) /\ Cardinality({m}) = 1
    BY FS_EmptySet, FS_Singleton
  <2>4. ASSUME NEW c, NEW m, left(c) \subseteq {m} PROVE Cardinality(left(c)) <= 1
    <3> HIDE DEF left
    <3> QED BY <2>3, <2>4, FS_Subset
  <2>5. Cardinality(left("redis")) <= IF step = "panicked" THEN 1 ELSE 0
    <3>1. CASE step # "panicked"
      <4>1. left("redis") = {}
        BY <2>1, <3>1
      <4> QED BY <2>3, <3>1, <4>1
    <3>2. CASE step = "panicked"
      <4>1. PICK m \in Names \cup Late \cup {"tokens"} :
               \A n \in (Names \cup Late) \ DOMAIN backends : n # m => clients[n].redis = 0
        BY <1>1 DEF IInv, Opened
      <4>2. left("redis") \subseteq {m}
        BY <4>1
      <4> QED BY <2>4, <3>2, <4>2
    <3> QED BY <3>1, <3>2
  <2>6. ASSUME calls = 0 PROVE Cardinality(left("xorm")) <= IF step \in Over THEN 1 ELSE 0
    <3>1. CASE step \notin Over
      <4>1. step # "panicked"
        BY <3>1 DEF Over
      <4>2. left("xorm") = {}
        BY <2>1, <2>6, <3>1, <4>1
      <4> QED BY <2>3, <3>1, <4>2
    <3>2. CASE step \in Over
      <4>1. PICK m \in Names \cup {"tokens"} :
               \A n \in (Names \cup Late) \ DOMAIN backends : n # m => clients[n].xorm = 0
        BY <1>1, <2>6 DEF IInv, Opened
      <4>2. left("xorm") \subseteq {m}
        BY <4>1
      <4> QED BY <2>4, <3>2, <4>2
    <3> QED BY <3>1, <3>2
  <2> QED BY <2>1, <2>2, <2>5, <2>6 DEF ClientsAccounted
<1> QED BY Invariance, <1>1, PTL

\* What startup makes of its two configurations agrees where it has to: the
\* server's and the backends' token settings, the backends among themselves, the
\* transport and what handlers are shown; the rest differs by consul alone.
THEOREM PartsInAgreement == Spec => []PartsAgree
<1>1. IInv => PartsAgree
  BY DEF IInv, Sources, Made, OnlyConsulDivides, PartsAgree
<1> QED BY Invariance, <1>1, PTL

-----------------------------------------------------------------------------
(* Tokens: what is in a token says, for good, what it was made for. *)

\* The end a token has, by the handler that made it.
EndsAsMade(token) ==
    IF conf.kind = "jwt"
    THEN token.ends = IF token.timeout > 0
                      THEN {Tokens!SecondsFloor(token.at + Tokens!Duration(token.timeout * Second))}
                      ELSE {}
    ELSE token.timeout >= Resolution => token.ends = {token.at + token.timeout}

TokenMade(token) ==
    /\ token.at \in Nat /\ token.timeout \in Int
    /\ "principal" \in DOMAIN token.auth /\ token.claims = Tokens!Encoded(token.auth)
    /\ EndsAsMade(token)

TokenInv ==
    /\ conf \in Confs /\ now \in Nat
    /\ \A token \in issued : TokenMade(token)

\* No token has been issued.
LEMMA InitTokenInv == Tokens!Init => TokenInv
  BY DEF Tokens!Init, TokenInv

\* A new token is made by the handler of the configuration, and a restart keeps
\* that handler.
LEMMA NextTokenInv == TokenInv /\ [Tokens!Next]_(Tokens!vars) => TokenInv'
<1> SUFFICES ASSUME TokenInv, [Tokens!Next]_(Tokens!vars) PROVE TokenInv'
  OBVIOUS
<1> USE UnitsAssumption, ConfsAssumption, AuthsAssumption
<1>1. ASSUME NEW token, conf'.kind = conf.kind, TokenMade(token) PROVE TokenMade(token)'
  BY <1>1 DEF TokenMade, EndsAsMade, Tokens!Encoded, Tokens!SecondsFloor, Tokens!Duration
<1>2. ASSUME NEW token, TokenMade(token), issued' = issued \cup {token}, UNCHANGED <<conf, now>>
      PROVE  TokenInv'
  BY <1>1, <1>2 DEF TokenInv
<1>3. CASE Tokens!GenerateJwt
  <2>1. PICK a \in Auths : issued' = issued \cup {Tokens!Token(a, Tokens!JwtEnds)}
    BY <1>3 DEF Tokens!GenerateJwt
  <2> DEFINE token == Tokens!Token(a, Tokens!JwtEnds)
  <2>2. /\ token.at = now /\ token.timeout = conf.timeout /\ token.auth = a
        /\ token.claims = Tokens!Encoded(a) /\ token.ends = Tokens!JwtEnds
    BY DEF Tokens!Token
  <2> HIDE DEF token
  <2>3. TokenMade(token)
    BY <1>3, <2>2 DEF TokenMade, EndsAsMade, TokenInv, Tokens!GenerateJwt, Tokens!JwtEnds
  <2> QED BY <1>2, <1>3, <2>1, <2>3 DEF token, Tokens!GenerateJwt
<1>4. CASE Tokens!GenerateRedis
  <2>1. PICK a \in Auths :
        \E ends \in IF conf.timeout < Resolution THEN {{}, {now}} ELSE {{now + conf.timeout}} :
            issued' = issued \cup {Tokens!Token(a, ends)}
    BY <1>4 DEF Tokens!GenerateRedis
  <2>2. PICK ends \in IF conf.timeout < Resolution THEN {{}, {now}} ELSE {{now + conf.timeout}} :
            issued' = issued \cup {Tokens!Token(a, ends)}
    BY <2>1
  <2> DEFINE token == Tokens!Token(a, ends)
  <2>3. /\ token.at = now /\ token.timeout = conf.timeout /\ token.auth = a
        /\ token.claims = Tokens!Encoded(a) /\ token.ends = ends
    BY DEF Tokens!Token
  <2> HIDE DEF token
  <2>4. TokenMade(token)
    BY <1>4, <2>2, <2>3 DEF TokenMade, EndsAsMade, TokenInv, Tokens!GenerateRedis
  <2> QED BY <1>2, <1>4, <2>2, <2>4 DEF token, Tokens!GenerateRedis
<1>5. CASE Tokens!Tick
  BY <1>1, <1>5 DEF Tokens!Tick, TokenInv
<1>6. CASE Tokens!Restart
  BY <1>1, <1>6 DEF Tokens!Restart, TokenInv
<1>7. CASE Tokens!Evict
  BY <1>1, <1>7 DEF Tokens!Evict, TokenInv
<1>8. CASE UNCHANGED Tokens!vars
  BY <1>1, <1>8 DEF Tokens!vars, TokenInv
<1> QED BY <1>3, <1>4, <1>5, <1>6, <1>7, <1>8 DEF Tokens!Next

\* What is in a token that was issued stays what it was made for, across restarts and
\* evictions: token_jwt.go, token_redis.go.
THEOREM TokenInvariance == Tokens!Spec => []TokenInv
  BY InitTokenInv, NextTokenInv, PTL DEF Tokens!Spec

\* A token says who it was made for, and a JWT only to a service that has the
\* opposite half of each key it was made with.
THEOREM TokensSayTrue == Tokens!Spec => []TokensTrue
<1>1. ASSUME TokenInv PROVE Tokens!ParsedAsIssued
  <2> SUFFICES ASSUME NEW token \in issued, NEW form \in {"whole", "split"},
                      NEW a \in Tokens!Authentication(token, form)
               PROVE  /\ a = [token.auth EXCEPT !.principal = a.principal]
                      /\ a.principal = IF token.auth.principal = "integer" THEN "float"
                                       ELSE token.auth.principal
    BY DEF Tokens!ParsedAsIssued
  <2>1. a = Tokens!Encoded(token.auth) /\ "principal" \in DOMAIN token.auth
    BY <1>1 DEF TokenInv, TokenMade, Tokens!Authentication, Tokens!ParseJwt, Tokens!ParseRedis
  <2> QED BY <2>1 DEF Tokens!Encoded
<1>2. Tokens!RefusedUnderOtherKeys
  BY DEF Tokens!RefusedUnderOtherKeys, Tokens!Authentication, Tokens!ParseJwt, Tokens!ParseRedis,
         Tokens!Verified
<1>3. TokenInv => TokensTrue
  BY <1>1, <1>2 DEF TokensTrue, Tokens!TokensTrue
<1> QED BY TokenInvariance, <1>3, PTL

\* A remainder below the divisor is the number itself.
LEMMA SmallModulo == ASSUME NEW m \in Nat, NEW k \in Nat, m < k PROVE m % k = m
  OBVIOUS

\* A duration that is not too long does not wrap.
LEMMA DurationKept == ASSUME NEW n \in 0..(Half - 1) PROVE Tokens!Duration(n) = n
<1>1. n + Half \in Nat /\ 2 * Half \in Nat /\ n + Half < 2 * Half
  BY UnitsAssumption
<1>2. (n + Half) % (2 * Half) = n + Half
  BY <1>1, SmallModulo
<1> QED BY <1>2, UnitsAssumption DEF Tokens!Duration

\* Cutting off to whole seconds takes less than a second.
LEMMA FloorWithinSecond ==
    ASSUME NEW t \in Nat
    PROVE  Tokens!SecondsFloor(t) \in (t - Second + 1)..t
<1>1. t % Second \in 0..(Second - 1)
  BY UnitsAssumption
<1> QED BY <1>1, UnitsAssumption DEF Tokens!SecondsFloor

\* A token is taken until its end, less what JWT cuts off, and not after it.
THEOREM TokensLiveAsLong == Tokens!Spec => []AcceptedInTime
<1> USE UnitsAssumption
<1>1. ASSUME TokenInv, NEW token \in issued, conf.kind = "jwt"
      PROVE  LET life == token.timeout * Second
                 kept == token.pub = token.pri /\ conf.pub = token.pub /\ conf.pri = token.pri
                 end == token.at + life
             IN  IF life = 0 THEN kept => Tokens!Authentication(token, "whole") # {}
                 ELSE life \in 1..(Half - 1) =>
                      /\ kept /\ now <= end - Second => Tokens!Authentication(token, "whole") # {}
                      /\ now >= end => Tokens!Authentication(token, "whole") = {}
  <2> DEFINE life == token.timeout * Second
             end == token.at + life
             kept == token.pub = token.pri /\ conf.pub = token.pub /\ conf.pri = token.pri
             taken == Tokens!Authentication(token, "whole")
  <2>1. /\ token.at \in Nat /\ token.timeout \in Int /\ now \in Nat
        /\ token.ends = IF token.timeout > 0
                        THEN {Tokens!SecondsFloor(token.at + Tokens!Duration(life))} ELSE {}
    BY <1>1 DEF TokenInv, TokenMade, EndsAsMade
  <2>2. /\ kept /\ Tokens!InTime(token) => taken # {}
        /\ ~Tokens!InTime(token) => taken = {}
    BY <1>1 DEF Tokens!Authentication, Tokens!ParseJwt, Tokens!Verified
  <2>3. /\ life \in Int
        /\ life = 0 => token.timeout = 0
        /\ life > 0 => token.timeout > 0
    BY <2>1
  <2>4. CASE life = 0
    BY <2>1, <2>2, <2>3, <2>4 DEF Tokens!InTime
  <2>5. CASE life \in 1..(Half - 1)
    <3> HIDE DEF life, taken
    <3>1. token.ends = {Tokens!SecondsFloor(end)} /\ end \in Nat
      <4>1. Tokens!Duration(life) = life
        BY <2>5, DurationKept
      <4> QED BY <2>1, <2>3, <2>5, <4>1
    <3>2. Tokens!SecondsFloor(end) \in (end - Second + 1)..end
      BY <3>1, FloorWithinSecond
    <3> HIDE DEF end, kept
    <3>3. Tokens!InTime(token) <=> now < Tokens!SecondsFloor(end)
      BY <3>1 DEF Tokens!InTime
    <3>4. /\ kept /\ now <= end - Second => taken # {}
          /\ now >= end => taken = {}
      BY <2>1, <2>2, <3>1, <3>2, <3>3
    <3> QED BY <2>3, <2>5, <3>4 DEF life, end, kept, taken
  <2> HIDE DEF life
  <2> QED BY <2>4, <2>5 DEF life
<1>2. ASSUME TokenInv, NEW token \in issued, conf.kind # "jwt"
      PROVE  LET end == token.at + token.timeout
             IN  token.timeout \in Resolution..(Half - 1) =>
                      /\ token \in store /\ now <= end - 1 => Tokens!Authentication(token, "whole") # {}
                      /\ now >= end => Tokens!Authentication(token, "whole") = {}
  <2>1. /\ token.at \in Nat /\ token.timeout \in Int /\ now \in Nat
        /\ token.timeout >= Resolution => token.ends = {token.at + token.timeout}
    BY <1>2 DEF TokenInv, TokenMade, EndsAsMade
  <2> QED BY <1>2, <2>1 DEF Tokens!Authentication, Tokens!ParseRedis, Tokens!InTime
<1>3. ASSUME TokenInv PROVE AcceptedInTime
  <2>1. ASSUME NEW token \in issued, conf.kind # "jwt" PROVE token.timeout * 1 = token.timeout
    BY <1>3 DEF TokenInv, TokenMade
  <2> QED BY <1>1, <1>2, <1>3, <2>1 DEF AcceptedInTime, Tokens!AcceptedInTime
<1> QED BY TokenInvariance, <1>3, PTL

-----------------------------------------------------------------------------
(* Documents: built once, from the endpoints of that moment. *)

\* An endpoint whose own description, or that of an operation, is missing.
Wanting(e) ==
    \/ ~e.described
    \/ \E o \in DOMAIN e.operations : ~e.operations[o].described

\* The documents are of all endpoints, or there are none because a description
\* was missing, or because the stack overflowed.
DocInv ==
    /\ types \in Graphs
    /\ endpoints \in Seq(Endpoints) /\ first \in Seq(Endpoints)
    /\ ~once => documents = << >> /\ first = << >> /\ asked = 0
    /\ down => /\ documents = << >> /\ asked = 0
               /\ \E i \in DOMAIN first : "overflow" \in Docs!Stops(first[i])
    /\ once /\ ~down =>
          \/ documents = << >> /\ \E i \in DOMAIN first : Wanting(first[i])
          \/ /\ documents = [i \in DOMAIN first |-> Docs!Document(first[i])]
             /\ \A i \in DOMAIN first : Docs!Stops(first[i]) = {}

\* No document has been asked for.
LEMMA InitDocInv == Docs!Init => DocInv
<1> SUFFICES ASSUME Docs!Init PROVE DocInv
  OBVIOUS
<1>1. endpoints \in Seq(Endpoints)
  <2>1. PICK n \in 0..MaxEndpoints : endpoints \in [1..n -> Endpoints]
    BY DEF Docs!Init
  <2> QED BY <2>1, EndpointsAssumption
<1> QED BY <1>1 DEF Docs!Init, DocInv

\* A set of places in a sequence has a first one.
LEMMA FirstIsThere ==
    ASSUME NEW S, NEW s \in Seq(S), NEW P \in SUBSET (DOMAIN s), P # {}
    PROVE  (CHOOSE i \in P : \A j \in P : i <= j) \in P
<1>1. P \subseteq Nat
  OBVIOUS
<1>2. PICK i \in P : \A j \in P : <<j, i>> \notin OpToRel(<, Nat)
  BY <1>1, NatLessThanWellFounded, WFMin
<1>3. \A j \in P : ~(j < i)
  BY <1>1, <1>2 DEF OpToRel
<1>4. \A j \in P : i <= j
  BY <1>1, <1>3
<1> QED BY <1>4

\* What stops the building at an endpoint is a missing description, or an
\* overflow; nothing does if all is described and every type ends.
LEMMA StopsAre ==
    ASSUME NEW e
    PROVE  /\ "error" \in Docs!Stops(e) => Wanting(e)
           /\ \A stop \in Docs!Stops(e) : stop \in {"error", "overflow"}
           /\ Docs!Stops(e) = {} =>
                 /\ ~Wanting(e)
                 /\ \A o \in DOMAIN e.operations, i \in 1..2 : ~Docs!Fields(e.operations[o].shapes[i]).overflow
<1>1. CASE ~e.described
  BY <1>1 DEF Docs!Stops, Wanting
<1>2. CASE e.described
  <2>1. \A stop : stop \in Docs!Stops(e) <=>
            \E o \in DOMAIN e.operations : stop \in Docs!OperationStops(e.operations[o])
    BY <1>2 DEF Docs!Stops
  <2>2. \A o \in DOMAIN e.operations :
            /\ \A stop \in Docs!OperationStops(e.operations[o]) : stop \in {"error", "overflow"}
            /\ "error" \in Docs!OperationStops(e.operations[o]) => ~e.operations[o].described
            /\ Docs!OperationStops(e.operations[o]) = {} =>
                  /\ e.operations[o].described
                  /\ \A i \in 1..2 : ~Docs!Fields(e.operations[o].shapes[i]).overflow
    BY DEF Docs!OperationStops
  <2> QED BY <1>2, <2>1, <2>2 DEF Wanting
<1> QED BY <1>1, <1>2

\* What the types make of an endpoint stays, as the types do.
LEMMA TypesStay ==
    ASSUME types' = types, NEW e
    PROVE  Docs!Stops(e)' = Docs!Stops(e) /\ Docs!Document(e)' = Docs!Document(e)
  BY DEF Docs!Stops, Docs!OperationStops, Docs!Document, Docs!Fields, Docs!IsStruct

\* Nothing changes what was built, and it is built from the endpoints there are.
LEMMA NextDocInv == DocInv /\ [Docs!Next]_(Docs!vars) => DocInv'
<1> SUFFICES ASSUME DocInv, [Docs!Next]_(Docs!vars) PROVE DocInv'
  OBVIOUS
<1>1. ASSUME types' = types, UNCHANGED <<once, documents, first, down>>, endpoints' \in Seq(Endpoints),
             asked' = asked \/ (once /\ ~down)
      PROVE  DocInv'
  BY <1>1, TypesStay DEF DocInv, Wanting
<1>2. CASE Docs!Ask /\ Docs!Build
  <2> DEFINE stopping == {i \in DOMAIN endpoints : Docs!Stops(endpoints[i]) # {}}
             at == CHOOSE i \in stopping : \A j \in stopping : i <= j
  <2>1. /\ ~once /\ once' = TRUE /\ first' = endpoints /\ ~down /\ documents = << >> /\ asked = 0
        /\ endpoints' = endpoints /\ types' = types /\ endpoints \in Seq(Endpoints)
        /\ asked' = IF down' THEN asked ELSE asked + 1
    BY <1>2 DEF Docs!Ask, Docs!Build, DocInv
  <2>2. CASE stopping = {}
    <3>1. documents' = [i \in DOMAIN endpoints |-> Docs!Document(endpoints[i])] /\ down' = down
      BY <1>2, <2>2 DEF Docs!Build
    <3>2. \A i \in DOMAIN endpoints : Docs!Stops(endpoints[i]) = {}
      BY <2>2
    <3>3. /\ [i \in DOMAIN first |-> Docs!Document(first[i])]' = documents'
          /\ \A i \in DOMAIN first' : Docs!Stops(first[i])' = {}
      BY <2>1, <3>1, <3>2, TypesStay
    <3> QED BY <2>1, <3>1, <3>3 DEF DocInv
  <2>3. CASE stopping # {}
    <3>1. documents' = documents /\ down' \in {stop = "overflow" : stop \in Docs!Stops(endpoints[at])}
      BY <1>2, <2>3 DEF Docs!Build
    <3>2. at \in DOMAIN endpoints
      <4>1. stopping \in SUBSET (DOMAIN endpoints)
        OBVIOUS
      <4> HIDE DEF stopping
      <4>2. at \in stopping
        BY <2>1, <2>3, <4>1, FirstIsThere
      <4> QED BY <4>1, <4>2
    <3> HIDE DEF at
    <3>3. ~down' => Wanting(endpoints[at])
      BY <3>1, StopsAre
    <3>4. down' \in BOOLEAN /\ (down' => "overflow" \in Docs!Stops(endpoints[at]))
      BY <3>1
    <3>5. /\ down' => \E i \in DOMAIN first' : "overflow" \in Docs!Stops(first[i])'
          /\ ~down' => \E i \in DOMAIN first' : Wanting(first'[i])
      BY <2>1, <3>2, <3>3, <3>4, TypesStay
    <3>6. types' \in Graphs /\ documents' = << >> /\ (down' => asked' = 0) /\ once'
      BY <2>1, <3>1 DEF DocInv
    <3> QED BY <2>1, <3>5, <3>6 DEF DocInv, Wanting
  <2> QED BY <2>2, <2>3
<1>3. CASE Docs!Ask /\ once /\ UNCHANGED <<once, documents, first, down>>
  BY <1>1, <1>3 DEF Docs!Ask, DocInv
<1>4. CASE Docs!Change
  <2>1. endpoints' \in Seq(Endpoints)
    <3>1. PICK i \in 1..MaxEndpoints, e \in Endpoints :
              /\ i <= Len(endpoints) + 1
              /\ endpoints' = [j \in DOMAIN endpoints \cup {i} |-> IF j = i THEN e ELSE endpoints[j]]
      BY <1>4 DEF Docs!Change
    <3> DEFINE n == IF i = Len(endpoints) + 1 THEN i ELSE Len(endpoints)
    <3>2. DOMAIN endpoints \cup {i} = 1..n /\ n \in Nat
      BY <3>1, EndpointsAssumption DEF DocInv
    <3>3. endpoints' \in [1..n -> Endpoints]
      BY <3>1, <3>2 DEF DocInv
    <3> QED BY <3>2, <3>3
  <2> QED BY <1>1, <1>4, <2>1 DEF Docs!Change
<1>5. CASE UNCHANGED Docs!vars
  BY <1>1, <1>5 DEF Docs!vars, DocInv
<1> QED BY <1>2, <1>3, <1>4, <1>5 DEF Docs!Next, Docs!Ask, Docs!Gone

\* The once has the documents of all endpoints of that moment, or none: document.go.
THEOREM DocInvariance == Docs!Spec => []DocInv
  BY InitDocInv, NextDocInv, PTL DEF Docs!Spec

\* A caller gets the documents of all endpoints or none, and none exactly when
\* a description was missing; no document is one of a type without an end.
THEOREM DocumentsWhole == Docs!Spec => []AllOrNothing
<1>1. ASSUME DocInv PROVE AllOrNothing
  <2>1. CASE ~once \/ down
    BY <1>1, <2>1 DEF DocInv, AllOrNothing, Docs!AllOrNothing
  <2>2. CASE once /\ ~down /\ documents = << >> /\ \E i \in DOMAIN first : Wanting(first[i])
    BY <1>1, <2>2 DEF DocInv, Wanting, AllOrNothing, Docs!AllOrNothing
  <2>3. CASE /\ documents = [i \in DOMAIN first |-> Docs!Document(first[i])]
             /\ \A i \in DOMAIN first : Docs!Stops(first[i]) = {}
    <3>1. first \in Seq(Endpoints) /\ Len(documents) = Len(first) /\ DOMAIN documents = DOMAIN first
      BY <1>1, <2>3 DEF DocInv
    <3>2. \A i \in DOMAIN first : ~Wanting(first[i])
      BY <2>3, StopsAre
    <3>3. ASSUME NEW i \in DOMAIN documents
          PROVE  /\ DOMAIN documents[i] = DOMAIN first[i].operations
                 /\ \A o \in DOMAIN documents[i], k \in 1..2 : ~documents[i][o][k].overflow
      BY <2>3, <3>1, StopsAre DEF Docs!Document
    <3> QED BY <3>1, <3>2, <3>3 DEF Wanting, AllOrNothing, Docs!AllOrNothing
  <2> QED BY <1>1, <2>1, <2>2, <2>3 DEF DocInv
<1> QED BY DocInvariance, <1>1, PTL


(* Types: the description of a struct ends where its fields do. *)

\* Induction up to n, over the numbers in a set.
LEMMA UpTo ==
    ASSUME NEW n \in Nat, NEW G, 0 \in G,
           \A k \in 0..n : k \in G /\ k + 1 <= n => k + 1 \in G
    PROVE  0..n \subseteq G
<1> DEFINE left == {k \in 0..n : k \notin G}
<1> SUFFICES ASSUME left # {} PROVE FALSE
  OBVIOUS
<1>1. left \subseteq Nat
  OBVIOUS
<1>2. PICK k \in left : \A j \in left : <<j, k>> \notin OpToRel(<, Nat)
  <2> HIDE DEF left
  <2> QED BY <1>1, NatLessThanWellFounded, WFMin
<1>3. \A j \in left : ~(j < k)
  BY <1>1, <1>2 DEF OpToRel
<1>4. k \in 0..n /\ k \notin G
  BY <1>2
<1>5. k # 0
  BY <1>4
<1>6. k - 1 \in 0..n /\ k - 1 < k /\ (k - 1) + 1 = k /\ (k - 1) + 1 <= n
  BY <1>4, <1>5
<1>7. k - 1 \in G
  BY <1>3, <1>6
<1>8. (k - 1) + 1 \in G
  BY <1>6, <1>7
<1> QED BY <1>4, <1>6, <1>8

\* A stack with room for more frames describes what the calls on the smaller
\* one return: the recursion of getFields has its solution.
LEMMA FramesAre ==
    ASSUME NEW graph, Docs!Depth \in Nat
    PROVE  /\ Docs!Framed(graph)[0] = Docs!NoFrame
           /\ \A k \in 1..Docs!Depth :
                 Docs!Framed(graph)[k] = Docs!FieldsOf(graph, Docs!Framed(graph)[k - 1])
<1> DEFINE none == Docs!NoFrame
           Frame(below) == Docs!FieldsOf(graph, below)
           Solves(doc, n) == doc = [k \in 0..n |-> IF k = 0 THEN none ELSE Frame(doc[k - 1])]
           n == Docs!Depth
           G == {m \in 0..n : \E doc : Solves(doc, m)}
<1>0. n \in Nat
  OBVIOUS
<1>1. Docs!Framed(graph) = CHOOSE doc : Solves(doc, n)
  BY DEF Docs!Framed
<1> HIDE DEF none, Frame, n
<1>2. 0 \in G
  <2>1. Solves([k \in 0..0 |-> none], 0)
    OBVIOUS
  <2> HIDE DEF Solves
  <2>2. \E doc : Solves(doc, 0)
    BY <2>1
  <2> QED BY <1>0, <2>2
<1>3. ASSUME NEW m \in 0..n, m \in G, m + 1 <= n PROVE m + 1 \in G
  <2>1. PICK doc : Solves(doc, m)
    BY <1>3
  <2> DEFINE longer == [k \in 0..(m + 1) |-> IF k = m + 1 THEN Frame(doc[m]) ELSE doc[k]]
  <2>2. ASSUME NEW k \in 0..(m + 1) PROVE longer[k] = IF k = 0 THEN none ELSE Frame(longer[k - 1])
    <3>1. CASE k = m + 1
      BY <1>0, <1>3, <3>1
    <3>2. CASE k \in 0..m
      BY <1>0, <1>3, <2>1, <3>2
    <3> QED BY <1>0, <1>3, <3>1, <3>2
  <2>3. Solves(longer, m + 1)
    <3> HIDE DEF longer
    <3>1. longer = [k \in 0..(m + 1) |-> longer[k]]
      BY DEF longer
    <3> QED BY <2>2, <3>1
  <2> HIDE DEF longer
  <2> QED BY <1>0, <1>3, <2>3
<1>4. n \in G
  <2> HIDE DEF G
  <2> QED BY <1>0, <1>2, <1>3, UpTo
<1>5. Solves(Docs!Framed(graph), n)
  BY <1>1, <1>4
<1> DEFINE doc == Docs!Framed(graph)
<1> HIDE DEF doc
<1>6. doc[0] = none /\ \A k \in 1..n : doc[k] = Frame(doc[k - 1])
  BY <1>0, <1>5 DEF doc
<1> QED BY <1>6 DEF doc, none, Frame, n

\* What is left of a sequence after its first t elements.
LEMMA RestIs ==
    ASSUME NEW S, NEW s \in Seq(S), NEW t \in 0..Len(s)
    PROVE  /\ SubSeq(s, t + 1, Len(s)) \in Seq(S)
           /\ Len(SubSeq(s, t + 1, Len(s))) = Len(s) - t
<1> DEFINE m == Len(s) - t
           rest_ == [i \in 1..m |-> s[i + t]]
<1>1. m \in Nat /\ Len(s) \in Nat
  OBVIOUS
<1>2. \A i \in 1..m : i + t \in 1..Len(s)
  OBVIOUS
<1>3. rest_ \in [1..m -> S]
  BY <1>2
<1>4. rest_ \in Seq(S) /\ Len(rest_) = m
  <2> HIDE DEF m, rest_
  <2> QED BY <1>1, <1>3
<1>5. SubSeq(s, t + 1, Len(s)) = rest_
  OBVIOUS
<1> QED BY <1>4, <1>5

\* getType goes to the end exactly if at most the innermost wrapping is a pointer.
LEMMA TypeGoes ==
    ASSUME NEW f \in [wrap : Seq(Wrapping), base : STRING]
    PROVE  /\ Docs!Type(f).base = f.base
           /\ Docs!Type(f).wrap \in Seq(Wrapping)
           /\ Docs!Type(f).wrap = << >> <=> Docs!LeadsTo(f, f.base)
<1> DEFINE wraps == f.wrap
           n == Len(wraps)
           ptrs == {i \in DOMAIN wraps : wraps[i] = "ptr"}
           till == IF ptrs = {} THEN n ELSE CHOOSE i \in ptrs : \A j \in ptrs : i <= j
           after == SubSeq(wraps, till + 1, n)
<1>1. wraps \in Seq(Wrapping) /\ n \in Nat /\ DOMAIN wraps = 1..n
  OBVIOUS
<1>2. Docs!Type(f) = [f EXCEPT !.wrap = after]
  BY DEF Docs!Type
<1>3. Docs!Type(f).base = f.base /\ Docs!Type(f).wrap = after
  <2> HIDE DEF after
  <2> QED BY <1>2
<1>4. ptrs \in SUBSET (DOMAIN wraps)
  OBVIOUS
<1>5. /\ till \in 0..n
      /\ ptrs # {} => till \in ptrs /\ \A j \in ptrs : till <= j
  <2>1. CASE ptrs = {}
    BY <1>1, <2>1
  <2>2. CASE ptrs # {}
    <3> HIDE DEF ptrs
    <3>1. ptrs \subseteq Nat
      BY <1>1, <1>4
    <3>2. PICK i \in ptrs : \A j \in ptrs : <<j, i>> \notin OpToRel(<, Nat)
      BY <2>2, <3>1, NatLessThanWellFounded, WFMin
    <3>3. \A j \in ptrs : ~(j < i)
      BY <3>1, <3>2 DEF OpToRel
    <3>4. \A j \in ptrs : i <= j
      BY <3>1, <3>3
    <3>5. till \in ptrs /\ \A j \in ptrs : till <= j
      BY <2>2, <3>4
    <3> HIDE DEF till
    <3> QED BY <1>1, <1>4, <3>5
  <2> QED BY <2>1, <2>2
<1>6. after \in Seq(Wrapping) /\ Len(after) = n - till
  <2> HIDE DEF wraps, till
  <2> QED BY <1>1, <1>5, RestIs
<1>7. after = << >> <=> till = n
  <2> HIDE DEF after, till, n
  <2> QED BY <1>1, <1>5, <1>6
<1>8. till = n <=> \A j \in 1..n : wraps[j] = "ptr" => j = n
  <2>1. \A j : j \in ptrs <=> j \in 1..n /\ wraps[j] = "ptr"
    BY <1>1
  <2>2. ptrs = {} => till = n
    OBVIOUS
  <2> HIDE DEF ptrs, till, n
  <2>3. CASE ptrs = {}
    BY <2>1, <2>2, <2>3
  <2>4. CASE ptrs # {}
    BY <1>1, <1>5, <2>1, <2>4
  <2> QED BY <2>3, <2>4
<1>9. Docs!LeadsTo(f, f.base) <=> \A j \in 1..n : wraps[j] = "ptr" => j = n
  BY <1>1 DEF Docs!LeadsTo
<1> QED BY <1>3, <1>6, <1>7, <1>8, <1>9

\* The structs whose description does not end on a stack of so many frames, and
\* the structs with a field that leads into a set.
Unended(graph, k) == {s \in Structs : Docs!Framed(graph)[k][s].overflow}
Into(graph, S) ==
    {s \in Structs : \E i \in DOMAIN graph[s] :
        Docs!LeadsTo(graph[s][i], graph[s][i].base) /\ graph[s][i].base \in S}

\* A description needs a frame more than those of the fields' types.
LEMMA UnendedAre ==
    ASSUME NEW graph \in Graphs, Docs!Depth \in Nat
    PROVE  /\ Unended(graph, 0) = Structs
           /\ \A k \in 1..Docs!Depth : Unended(graph, k) = Into(graph, Unended(graph, k - 1))
<1>1. Unended(graph, 0) = Structs
  BY FramesAre DEF Unended, Docs!NoFrame
<1>2. ASSUME NEW k \in 1..Docs!Depth PROVE Unended(graph, k) = Into(graph, Unended(graph, k - 1))
  <2> DEFINE below == Docs!Framed(graph)[k - 1]
  <2>1. Docs!Framed(graph)[k] = Docs!FieldsOf(graph, below)
    BY FramesAre
  <2> HIDE DEF below
  <2>2. ASSUME NEW s \in Structs
        PROVE  s \in Unended(graph, k) <=> s \in Into(graph, Unended(graph, k - 1))
    <3>1. Docs!FieldsOf(graph, below)[s].overflow <=>
            \E i \in DOMAIN graph[s] :
               Docs!IsStruct(Docs!Type(graph[s][i])) /\ below[Docs!Type(graph[s][i]).base].overflow
      BY Zenon DEF Docs!FieldsOf
    <3>2. ASSUME NEW i \in DOMAIN graph[s]
          PROVE  /\ Docs!Type(graph[s][i]).base = graph[s][i].base
                 /\ Docs!IsStruct(Docs!Type(graph[s][i])) <=>
                      Docs!LeadsTo(graph[s][i], graph[s][i].base) /\ graph[s][i].base \in Structs
      <4>1. graph[s][i] \in [wrap : Seq(Wrapping), base : STRING]
        BY TypesAssumption
      <4> QED BY <4>1, TypeGoes DEF Docs!IsStruct
    <3>3. \A q \in Structs : q \in Unended(graph, k - 1) <=> below[q].overflow
      BY DEF Unended, below
    <3>4. s \in Unended(graph, k) <=> Docs!FieldsOf(graph, below)[s].overflow
      BY <2>1 DEF Unended
    <3>5. \A q \in Unended(graph, k - 1) : q \in Structs
      BY DEF Unended
    <3> QED BY <3>1, <3>2, <3>3, <3>4, <3>5 DEF Into
  <2> QED BY <2>2 DEF Unended, Into
<1> QED BY <1>1, <1>2

\* What a larger stack cannot describe a smaller one cannot either.
LEMMA UnendedShrink ==
    ASSUME NEW graph \in Graphs, Docs!Depth \in Nat, NEW k \in 1..Docs!Depth
    PROVE  Unended(graph, k) \subseteq Unended(graph, k - 1)
<1> DEFINE n == Docs!Depth
           O(m) == Unended(graph, m)
           G == {m \in 0..n : m = 0 \/ O(m) \subseteq O(m - 1)}
<1>1. O(0) = Structs /\ \A m \in 1..n : O(m) = Into(graph, O(m - 1))
  BY UnendedAre
<1>2. \A m : O(m) \subseteq Structs
  BY DEF Unended
<1>3. \A S, T : S \subseteq T => Into(graph, S) \subseteq Into(graph, T)
  BY DEF Into
<1>4. n \in Nat /\ k \in 1..n
  OBVIOUS
<1> HIDE DEF n, O
<1>5. 0 \in G
  BY <1>4
<1>6. ASSUME NEW m \in 0..n, m \in G, m + 1 <= n PROVE m + 1 \in G
  <2>1. m + 1 \in 1..n /\ (m + 1) - 1 = m /\ m + 1 \in 0..n
    BY <1>4, <1>6
  <2>2. O(m + 1) = Into(graph, O(m))
    BY <1>1, <2>1
  <2>3. CASE m = 0
    BY <1>1, <1>2, <2>1, <2>3
  <2>4. CASE m # 0
    <3>1. O(m) \subseteq O(m - 1) /\ m \in 1..n
      BY <1>4, <1>6, <2>4
    <3>2. O(m) = Into(graph, O(m - 1))
      BY <1>1, <3>1
    <3>3. O(m + 1) \subseteq O(m)
      BY <1>3, <2>2, <3>1, <3>2
    <3> QED BY <2>1, <3>3
  <2> QED BY <2>3, <2>4
<1>7. k \in G
  <2> HIDE DEF G
  <2>1. 0..n \subseteq G
    BY <1>4, <1>5, <1>6, UpTo
  <2> QED BY <1>4, <2>1
<1>8. k # 0
  BY <1>4
<1> QED BY <1>7, <1>8 DEF O

\* With a frame for each struct and one more, another frame changes nothing:
\* each step before the last one would have to describe another struct.
LEMMA UnendedSettle ==
    ASSUME NEW graph \in Graphs
    PROVE  /\ Docs!Depth \in Nat \ {0}
           /\ Unended(graph, Docs!Depth) = Unended(graph, Docs!Depth - 1)
<1> DEFINE n == Docs!Depth
           all == Cardinality(Structs)
           O(m) == Unended(graph, m)
           size(m) == Cardinality(O(m))
           G == {m \in 0..n : size(m) + m <= all \/ (m # 0 /\ O(m) = O(m - 1))}
<1>1. all \in Nat /\ n = all + 1
  <2>1. IsFiniteSet(Structs)
    BY TypesAssumption
  <2>2. Cardinality(Structs) \in Nat
    BY <2>1, FS_CardinalityType
  <2>3. Docs!Cardinality(Structs) = Cardinality(Structs)
    BY DEF Docs!Cardinality, Cardinality
  <2>4. Docs!Depth = Cardinality(Structs) + 1
    BY <2>3 DEF Docs!Depth
  <2> QED BY <2>2, <2>4
<1>2. O(0) = Structs /\ \A m \in 1..n : O(m) = Into(graph, O(m - 1))
  BY <1>1, UnendedAre
<1>3. \A m \in 1..n : O(m) \subseteq O(m - 1)
  BY <1>1, UnendedShrink
<1>4. ASSUME NEW m PROVE IsFiniteSet(O(m)) /\ size(m) \in Nat
  <2>1. O(m) \subseteq Structs
    BY DEF Unended
  <2> HIDE DEF O
  <2> QED BY <2>1, TypesAssumption, FS_Subset, FS_CardinalityType
<1>5. size(0) = all
  BY <1>2
<1> HIDE DEF n, all, O
<1>6. ASSUME NEW m \in 0..n, m \in G, m + 1 <= n PROVE m + 1 \in G
  <2>1. m + 1 \in 1..n /\ (m + 1) - 1 = m /\ m + 1 \in 0..n /\ m + 1 # 0
    BY <1>1, <1>6
  <2>2. CASE O(m + 1) = O(m)
    BY <2>1, <2>2
  <2>3. CASE O(m + 1) # O(m) /\ size(m) + m <= all
    <3>1. O(m + 1) \subseteq O(m)
      BY <1>3, <2>1
    <3>2. size(m + 1) < size(m)
      <4> SUFFICES ASSUME ~(size(m + 1) < size(m)) PROVE FALSE
        OBVIOUS
      <4>1. size(m + 1) <= size(m) /\ (size(m + 1) = size(m) => O(m + 1) = O(m))
        BY <1>4, <3>1, FS_Subset
      <4> QED BY <1>4, <2>3, <4>1
    <3> HIDE DEF size
    <3>3. size(m + 1) + (m + 1) <= all
      BY <1>1, <1>4, <2>3, <3>2
    <3> QED BY <2>1, <3>3
  <2>4. CASE O(m + 1) # O(m) /\ m # 0 /\ O(m) = O(m - 1)
    <3>1. m \in 1..n
      BY <1>1, <2>4
    <3>2. O(m + 1) = Into(graph, O(m)) /\ O(m) = Into(graph, O(m - 1))
      BY <1>2, <2>1, <3>1
    <3> QED BY <2>4, <3>2
  <2> QED BY <1>6, <2>2, <2>3, <2>4
<1>7. n \in Nat /\ n # 0 /\ n \in 0..n
  BY <1>1
<1>8. n \in G
  <2>1. 0 \in G
    BY <1>1, <1>5, <1>7
  <2> HIDE DEF G
  <2>2. 0..n \subseteq G
    BY <1>6, <1>7, <2>1, UpTo
  <2> QED BY <1>7, <2>2
<1>9. ~(size(n) + n <= all)
  <2> HIDE DEF size
  <2> QED BY <1>1, <1>4
<1> QED BY <1>7, <1>8, <1>9 DEF n, O

\* getFields does not return from a struct exactly if the struct is endless.
LEMMA OverflowIsEndless ==
    ASSUME types \in Graphs
    PROVE  \A s \in Structs : Docs!Described(types)[s].overflow <=> Docs!Endless(s)
<1> DEFINE n == Docs!Depth
           O(m) == Unended(types, m)
<1>1. n \in Nat \ {0} /\ O(n) = O(n - 1)
  BY UnendedSettle
<1>2. O(0) = Structs /\ \A m \in 1..n : O(m) = Into(types, O(m - 1))
  BY <1>1, UnendedAre
<1>3. \A s \in Structs : s \in O(n) <=> Docs!Described(types)[s].overflow
  BY DEF Unended, Docs!Described
<1>4. O(n) \subseteq Structs
  BY DEF Unended
<1> HIDE DEF n, O
<1>5. ASSUME NEW s \in O(n) PROVE Docs!Endless(s)
  <2>1. n \in 1..n
    BY <1>1
  <2>2. O(n) = Into(types, O(n))
    BY <1>1, <1>2, <2>1
  <2>3. \A r \in O(n) : \E q \in O(n), i \in DOMAIN types[r] : Docs!LeadsTo(types[r][i], q)
    BY <2>2 DEF Into
  <2> QED BY <1>4, <2>3 DEF Docs!Endless
<1>6. ASSUME NEW s, Docs!Endless(s) PROVE s \in O(n)
  <2>1. PICK through \in SUBSET Structs :
          /\ s \in through
          /\ \A r \in through : \E q \in through, i \in DOMAIN types[r] : Docs!LeadsTo(types[r][i], q)
    BY <1>6 DEF Docs!Endless
  <2> DEFINE G == {m \in 0..n : through \subseteq O(m)}
  <2>2. 0 \in G
    BY <1>1, <1>2
  <2>3. ASSUME NEW m \in 0..n, m \in G, m + 1 <= n PROVE m + 1 \in G
    <3>1. m + 1 \in 1..n /\ (m + 1) - 1 = m /\ m + 1 \in 0..n
      BY <1>1, <2>3
    <3>2. O(m + 1) = Into(types, O(m)) /\ through \subseteq O(m)
      BY <1>2, <2>3, <3>1
    <3>3. ASSUME NEW r \in through PROVE r \in Into(types, O(m))
      BY <2>1, <3>2 DEF Into, Docs!LeadsTo
    <3> QED BY <3>1, <3>2, <3>3
  <2>4. n \in G
    <3> HIDE DEF G
    <3>1. 0..n \subseteq G /\ n \in 0..n
      BY <1>1, <2>2, <2>3, UpTo
    <3> QED BY <3>1
  <2> QED BY <2>1, <2>4
<1> QED BY <1>3, <1>5, <1>6

\* What getFields says of a field.
FieldOf(f, below) ==
    [kind |-> Docs!Kind(Docs!Type(f)),
     list |-> f.wrap # << >> /\ f.wrap[1] = "slice",
     reference |-> IF Docs!IsStruct(Docs!Type(f)) THEN below[Docs!Type(f).base].fields ELSE << >>]

\* It says it of each field, from the descriptions of a smaller stack.
LEMMA FieldsAre ==
    ASSUME NEW graph, NEW k \in 1..Docs!Depth, Docs!Depth \in Nat, NEW s \in Structs
    PROVE  Docs!Framed(graph)[k][s].fields =
             [i \in DOMAIN graph[s] |-> FieldOf(graph[s][i], Docs!Framed(graph)[k - 1])]
<1> DEFINE below == Docs!Framed(graph)[k - 1]
<1>1. Docs!Framed(graph)[k] = Docs!FieldsOf(graph, below)
  BY FramesAre
<1> HIDE DEF below
<1>2. Docs!FieldsOf(graph, below)[s].fields = [i \in DOMAIN graph[s] |-> FieldOf(graph[s][i], below)]
  BY DEF Docs!FieldsOf, FieldOf
<1> QED BY <1>1, <1>2 DEF below

\* A struct field of a struct that a stack can describe, the smaller one can.
LEMMA FieldsEnd ==
    ASSUME NEW graph \in Graphs, Docs!Depth \in Nat, NEW k \in 1..Docs!Depth,
           NEW s \in Structs \ Unended(graph, k), NEW i \in DOMAIN graph[s],
           Docs!IsStruct(Docs!Type(graph[s][i]))
    PROVE  Docs!Type(graph[s][i]).base \in Structs \ Unended(graph, k - 1)
<1>1. graph[s][i] \in [wrap : Seq(Wrapping), base : STRING]
  BY TypesAssumption
<1>2. /\ Docs!Type(graph[s][i]).base = graph[s][i].base
      /\ Docs!LeadsTo(graph[s][i], graph[s][i].base) /\ graph[s][i].base \in Structs
  BY <1>1, TypeGoes DEF Docs!IsStruct
<1>3. Unended(graph, k) = Into(graph, Unended(graph, k - 1))
  BY UnendedAre
<1> QED BY <1>2, <1>3 DEF Into

\* A description that ended stays what it is on any larger stack.
LEMMA FieldsSettle ==
    ASSUME NEW graph \in Graphs, Docs!Depth \in Nat, NEW k \in 1..Docs!Depth,
           NEW s \in Structs \ Unended(graph, k - 1)
    PROVE  Docs!Framed(graph)[k][s].fields = Docs!Framed(graph)[k - 1][s].fields
<1> DEFINE n == Docs!Depth
           F(m) == Docs!Framed(graph)[m]
           Settled(m) == \A q \in Structs \ Unended(graph, m) : F(m + 1)[q].fields = F(m)[q].fields
           G == {m \in 0..n : m + 1 <= n => Settled(m)}
<1>1. n \in Nat /\ k \in 1..n
  OBVIOUS
<1>2. 0 \in G
  <2>1. Settled(0)
    BY UnendedAre
  <2> QED BY <1>1, <2>1
<1>3. ASSUME NEW m \in 0..n, m \in G, m + 1 <= n PROVE m + 1 \in G
  <2>1. Settled(m) /\ m + 1 \in 0..n
    BY <1>1, <1>3
  <2>2. ASSUME (m + 1) + 1 <= n PROVE Settled(m + 1)
    <3> SUFFICES ASSUME NEW q \in Structs \ Unended(graph, m + 1)
                 PROVE  F((m + 1) + 1)[q].fields = F(m + 1)[q].fields
      OBVIOUS
    <3>1. /\ m + 1 \in 1..n /\ (m + 1) - 1 = m
          /\ (m + 1) + 1 \in 1..n /\ ((m + 1) + 1) - 1 = m + 1
      BY <1>1, <1>3, <2>2
    <3>2. /\ F(m + 1)[q].fields = [i \in DOMAIN graph[q] |-> FieldOf(graph[q][i], F(m))]
          /\ F((m + 1) + 1)[q].fields = [i \in DOMAIN graph[q] |-> FieldOf(graph[q][i], F(m + 1))]
      <4> HIDE DEF n
      <4>1. ASSUME NEW j \in 1..n
            PROVE  Docs!Framed(graph)[j][q].fields =
                     [i \in DOMAIN graph[q] |-> FieldOf(graph[q][i], Docs!Framed(graph)[j - 1])]
        BY FieldsAre DEF n
      <4> QED BY <3>1, <4>1
    <3>3. ASSUME NEW i \in DOMAIN graph[q]
          PROVE  FieldOf(graph[q][i], F(m + 1)) = FieldOf(graph[q][i], F(m))
      <4>1. CASE ~Docs!IsStruct(Docs!Type(graph[q][i]))
        BY <4>1 DEF FieldOf
      <4>2. CASE Docs!IsStruct(Docs!Type(graph[q][i]))
        <5>1. Docs!Type(graph[q][i]).base \in Structs \ Unended(graph, m)
          BY <3>1, <4>2, FieldsEnd
        <5>2. F(m + 1)[Docs!Type(graph[q][i]).base].fields = F(m)[Docs!Type(graph[q][i]).base].fields
          BY <2>1, <5>1
        <5> QED BY <5>2 DEF FieldOf
      <4> QED BY <4>1, <4>2
    <3> HIDE DEF F
    <3> QED BY <3>2, <3>3
  <2> HIDE DEF Settled
  <2> QED BY <2>1, <2>2
<1>4. k - 1 \in 0..n /\ (k - 1) + 1 = k /\ k <= n
  BY <1>1
<1>5. k - 1 \in G
  <2> HIDE DEF G
  <2>1. 0..n \subseteq G
    BY <1>1, <1>2, <1>3, UpTo
  <2> QED BY <1>4, <2>1
<1> QED BY <1>4, <1>5

\* What a field's documents say is true, unless its struct is endless.
LEMMA DocumentedIs ==
    ASSUME types \in Graphs
    PROVE  Docs!FieldsDocumented
<1> DEFINE n == Docs!Depth
<1>1. n \in Nat \ {0} /\ n \in 1..n
  BY UnendedSettle
<1>2. \A r \in Structs : Docs!Endless(r) <=> r \in Unended(types, n)
  BY OverflowIsEndless DEF Unended, Docs!Described
<1>3. ASSUME NEW s \in Structs \ Unended(types, n), NEW i \in DOMAIN types[s]
      PROVE  LET f == types[s][i]
                 doc == Docs!Described(types)[s].fields[i]
             IN  /\ Docs!LeadsTo(f, f.base) <=> doc.kind \notin {"ptr", "slice", "map"}
                 /\ doc.kind = "struct" <=> Docs!LeadsTo(f, f.base) /\ f.base \in Structs
                 /\ doc.reference = IF doc.kind = "struct" THEN Docs!Described(types)[f.base].fields
                                    ELSE << >>
  <2> DEFINE f == types[s][i]
             doc == Docs!Described(types)[s].fields[i]
             t == Docs!Type(f)
             below == Docs!Framed(types)[n - 1]
  <2>1. /\ f \in [wrap : Seq(Wrapping), base : STRING]
        /\ f.base \notin Structs => f.base \notin Wrapping \cup {"struct"}
        /\ "Time" \notin Structs
    BY TypesAssumption
  <2>2. /\ t.base = f.base /\ t.wrap \in Seq(Wrapping)
        /\ t.wrap = << >> <=> Docs!LeadsTo(f, f.base)
    BY <2>1, TypeGoes
  <2>3. doc = FieldOf(f, below)
    <3>1. Docs!Framed(types)[n][s].fields = [j \in DOMAIN types[s] |-> FieldOf(types[s][j], below)]
      BY <1>1, FieldsAre
    <3>2. Docs!Described(types)[s] = Docs!Framed(types)[n][s]
      BY DEF Docs!Described
    <3> HIDE DEF n, below
    <3> QED BY <3>1, <3>2
  <2>4. Docs!IsStruct(t) => f.base \in Structs /\ below[f.base].fields = Docs!Described(types)[f.base].fields
    <3>1. Docs!IsStruct(t) => f.base \in Structs \ Unended(types, n - 1)
      BY <1>1, <2>2, FieldsEnd
    <3>2. \A q \in Structs \ Unended(types, n - 1) : Docs!Framed(types)[n][q].fields = below[q].fields
      BY <1>1, FieldsSettle
    <3> QED BY <3>1, <3>2 DEF Docs!Described
  <2> HIDE DEF f, doc, t, below
  <2>5. t.wrap # << >> => t.wrap[1] \in Wrapping
    BY <2>2
  <2>6. /\ t.wrap = << >> <=> Docs!Kind(t) \notin {"ptr", "slice", "map"}
        /\ Docs!Kind(t) = "struct" <=> t.wrap = << >> /\ t.base \in Structs
    BY <2>1, <2>2, <2>5 DEF Docs!Kind, Wrapping
  <2>7. /\ doc.kind = Docs!Kind(t)
        /\ doc.reference = IF Docs!IsStruct(t) THEN below[t.base].fields ELSE << >>
    BY <2>3 DEF FieldOf, t
  <2>8. Docs!IsStruct(t) <=> doc.kind = "struct"
    BY <2>6, <2>7 DEF Docs!IsStruct
  <2>9. /\ Docs!LeadsTo(f, f.base) <=> doc.kind \notin {"ptr", "slice", "map"}
        /\ doc.kind = "struct" <=> Docs!LeadsTo(f, f.base) /\ f.base \in Structs
        /\ doc.reference = IF doc.kind = "struct" THEN Docs!Described(types)[f.base].fields ELSE << >>
    BY <2>2, <2>4, <2>6, <2>7, <2>8
  <2> QED BY <2>9 DEF f, doc
<1> QED BY <1>2, <1>3 DEF Docs!FieldsDocumented

\* The description of a type ends exactly if the type does, every field is
\* documented by the type it leads to, and a type without an end is all that
\* overflows the stack: getFields and initDocuments.
THEOREM DocumentsDescribe == Docs!Spec => []TypesDescribed
<1>1. ASSUME DocInv PROVE TypesDescribed
  <2>1. types \in Graphs
    BY <1>1 DEF DocInv
  <2>2. \A s \in Structs : Docs!Described(types)[s].overflow <=> Docs!Endless(s)
    BY <2>1, OverflowIsEndless
  <2>3. ASSUME down
        PROVE  \E i \in DOMAIN first : \E o \in DOMAIN first[i].operations, k \in 1..2 :
                 LET operation == first[i].operations[o]
                 IN  /\ operation.described /\ Docs!IsStruct(operation.shapes[k])
                     /\ Docs!Endless(operation.shapes[k].base)
    <3>1. PICK i \in DOMAIN first : "overflow" \in Docs!Stops(first[i])
      BY <1>1, <2>3 DEF DocInv
    <3>2. PICK o \in DOMAIN first[i].operations : "overflow" \in Docs!OperationStops(first[i].operations[o])
      BY <3>1 DEF Docs!Stops
    <3> DEFINE operation == first[i].operations[o]
    <3> HIDE DEF operation
    <3>3. operation.described /\ \E k \in 1..2 : Docs!Fields(operation.shapes[k]).overflow
      BY <3>2 DEF Docs!OperationStops, operation
    <3>4. PICK k \in 1..2 : Docs!Fields(operation.shapes[k]).overflow
      BY <3>3
    <3>5. /\ Docs!IsStruct(operation.shapes[k])
          /\ Docs!Described(types)[operation.shapes[k].base].overflow
      BY <3>4 DEF Docs!Fields
    <3>6. Docs!IsStruct(operation.shapes[k]) /\ Docs!Endless(operation.shapes[k].base)
      BY <2>2, <3>5 DEF Docs!IsStruct
    <3> QED BY <3>3, <3>6 DEF operation
  <2>4. Docs!FieldsDocumented
    BY <2>1, DocumentedIs
  <2> QED BY <2>2, <2>3, <2>4 DEF TypesDescribed, Docs!TypesDescribed, Docs!DocumentsEnd
<1> QED BY DocInvariance, <1>1, PTL

===============================================================================
