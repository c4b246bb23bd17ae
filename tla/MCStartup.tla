------------------------------ MODULE MCStartup ------------------------------
(***************************************************************************)
(* How a service comes up, the tokens it then makes and the documents it   *)
(* shows, checked side by side: suite says which one a behaviour is of,    *)
(* and the variables of the others keep the values of Idle.                *)
(***************************************************************************)
EXTENDS Bootstrap

CONSTANTS Confs, Auths, Second, Half, Resolution, MaxNow, MaxTokens,
          Structs, Graphs, Endpoints, MaxEndpoints, MaxAsked

VARIABLES suite, conf, now, issued, store,
          types, endpoints, once, documents, first, asked, down

Tokens == INSTANCE Token
Docs == INSTANCE Documents

tokenVars == <<conf, now, issued, store>>
docVars == <<types, endpoints, once, documents, first, asked, down>>

\* What the parameters of Token and Documents are.
ASSUME UnitsAssumption == Second \in Nat \ {0} /\ Half \in Nat \ {0} /\ Resolution \in Nat
ASSUME ConfsAssumption == \A c \in Confs : c.kind \in {"jwt", "redis"} /\ c.timeout \in Int
ASSUME AuthsAssumption == \A a \in Auths : "principal" \in DOMAIN a
ASSUME EndpointsAssumption == MaxEndpoints \in Nat

\* The declarations a Go program can have: finitely many, of time.Time apart;
\* what is not wrapped is of no wrapping kind, and a struct only if it is one.
Wrapping == {"ptr", "slice", "map"}
ASSUME TypesAssumption ==
    /\ IsFiniteSet(Structs) /\ "Time" \notin Structs
    /\ \A graph \in Graphs, s \in Structs : \A i \in DOMAIN graph[s] :
          LET f == graph[s][i]
          IN  /\ f \in [wrap : Seq(Wrapping), base : STRING]
              /\ f.base \notin Structs => f.base \notin Wrapping \cup {"struct"}

Has(blocks, kind) == [has |-> blocks, kind |-> kind]

StartIdle == opts = [file |-> Has({}, "jwt"), central |-> Has({}, "jwt"), flags |-> {}, inPlace |-> FALSE]
TokenIdle == conf = [kind |-> "redis", timeout |-> 0, pub |-> 1, pri |-> 1]
DocIdle == types = [s \in Structs |-> << >>] /\ endpoints = << >>

MCInit ==
    /\ \/ suite = "start" /\ TokenIdle /\ DocIdle
       \/ suite = "token" /\ StartIdle /\ DocIdle
       \/ suite = "documents" /\ StartIdle /\ TokenIdle
    /\ Init /\ Tokens!Init /\ Docs!Init

StartStep == suite = "start" /\ Next /\ UNCHANGED <<suite, tokenVars, docVars>>
TokenStep == suite = "token" /\ Tokens!Next /\ UNCHANGED <<suite, vars, docVars>>
DocStep == suite = "documents" /\ Docs!Next /\ UNCHANGED <<suite, vars, tokenVars>>

MCNext == StartStep \/ TokenStep \/ DocStep
MCSpec == MCInit /\ [][MCNext]_<<suite, vars, tokenVars, docVars>>

-----------------------------------------------------------------------------
\* The properties of Token and Documents: see there.
TokensTrue     == Tokens!TokensTrue
AcceptedInTime == Tokens!AcceptedInTime
TypesDescribed == Docs!TypesDescribed
AllOrNothing   == Docs!AllOrNothing

-----------------------------------------------------------------------------
\* Files with every block, without one, and with none.
MCFiles == {Has({}, "jwt"), Has(Block, "jwt"), Has(Block, "redis"),
            Has(Block \ {"redis"}, "redis"), Has(Block \ {"xorm"}, "jwt"),
            Has({"authorization", "xorm"}, "jwt")}
MCCentrals == {Has({}, "jwt"), Has(Block, "redis"), Has({"xorm"}, "jwt")}

\* Pairs of keys and both half pairs; a timeout that JWT's multiplication wraps.
Auth(id, account, roles, principal) ==
    [id |-> id, account |-> account, roles |-> roles, principal |-> principal]
MCAuths == {Auth("1", "a", {}, "integer"), Auth("2", "b", {"admin"}, "text"), Auth("2", "b", {}, "long")}
MCConfs == {[kind |-> "jwt", timeout |-> t, pub |-> keys[1], pri |-> keys[2]] :
               t \in {0, 1, 3}, keys \in {<<1, 1>>, <<2, 2>>, <<1, 2>>, <<2, 1>>}}
           \cup {[kind |-> "redis", timeout |-> t, pub |-> 1, pri |-> 1] : t \in {0, 1, 3}}

\* Two struct types that may lead to each other in every way of wrapping.
MCStructs == {"A", "B"}
Of(wrap, base) == [wrap |-> wrap, base |-> base]
Wraps == {<< >>, <<"ptr">>, <<"slice", "ptr">>, <<"map", "slice">>, <<"ptr", "slice">>, <<"ptr", "ptr">>}
FieldTypes == {Of(w, b) : w \in Wraps, b \in MCStructs} \cup {Of(<<"slice">>, "Time"), Of(<< >>, "int")}
MCGraphs ==
    {[s \in MCStructs |-> IF s = "A" THEN a ELSE b] :
        a \in {<< >>} \cup {<<x>> : x \in FieldTypes} \cup {<<Of(<< >>, "int"), x>> : x \in FieldTypes},
        b \in {<< >>} \cup {<<x>> : x \in FieldTypes}}
Operation(described, input, output) == [described |-> described, shapes |-> <<input, output>>]
Get == Operation(TRUE, Of(<< >>, "A"), Of(<<"ptr">>, "A"))
Put(described) == Operation(described, Of(<< >>, "int"), Of(<< >>, "B"))
MCEndpoints ==
    {[described |-> d, operations |-> [get |-> Get]] : d \in BOOLEAN}
    \cup {[described |-> TRUE, operations |-> [get |-> Get, put |-> Put(d)]] : d \in BOOLEAN}
=============================================================================
