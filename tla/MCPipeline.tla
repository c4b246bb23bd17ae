------------------------------ MODULE MCPipeline ------------------------------
(* Instances of Pipeline for TLC. *)
EXTENDS Pipeline, TLC

CONSTANTS r1, r2, r3

MCTwo   == {r1, r2}
MCThree == {r1, r2, r3}
Symmetric == Permutations(MCThree)

\* Two endpoints have the same pattern, so the second is never found.
MCBackends ==
  [shop |-> << [pattern |-> "cart", operations |-> [add |-> TRUE]],
               [pattern |-> "cart", operations |-> [drop |-> TRUE]],
               [pattern |-> "user", operations |-> [login |-> TRUE]] >>,
   till |-> << [pattern |-> "bill", operations |-> [pay |-> TRUE]] >>]

MCHooked == {"till"}

\* Success, codes of a callback's own, and codes that the layers use themselves.
MCChosen == {Code.Success, 100, Code.ServerInternalError, Code.InvalidSignature,
             Code.HandleRequest, 3001, Code.Unauthorized}
MCFewChosen == {Code.Success, 100}

Add   == <<"shop", "cart", "add">>
Login == <<"shop", "user", "login">>

Good == [binds |-> TRUE, client |-> "app", signed |-> TRUE, method |-> Add,
         token |-> "valid", agent |-> TRUE]

\* One departure from Good each, and one message that fails every layer.
MCMessages ==
  {Good,
   [Good EXCEPT !.binds = FALSE],
   [Good EXCEPT !.client = ""],
   [Good EXCEPT !.client = "stranger"],
   [Good EXCEPT !.signed = FALSE],
   [Good EXCEPT !.token = ""],
   [Good EXCEPT !.token = "invalid"],
   [Good EXCEPT !.token = "", !.method = Login],
   [Good EXCEPT !.agent = FALSE],
   [Good EXCEPT !.method = <<"till", "bill", "pay">>],
   [Good EXCEPT !.method = <<"bank", "cart", "add">>],
   [Good EXCEPT !.method = <<"shop", "order", "add">>],
   [Good EXCEPT !.method = <<"shop", "cart", "drop">>],
   [Good EXCEPT !.method = <<"shop", "cart", "">>],
   [Good EXCEPT !.method = <<"shop", "cart">>],
   [Good EXCEPT !.method = <<"shop", "cart", "add", "now">>],
   [binds |-> TRUE, client |-> "stranger", signed |-> FALSE, method |-> <<"bank">>,
    token |-> "", agent |-> FALSE]}

\* Enough messages for every way through the pipeline.
MCFewMessages ==
  {Good, [Good EXCEPT !.binds = FALSE], [Good EXCEPT !.token = "invalid"]}

MCHookedMessages == MCFewMessages \union {[Good EXCEPT !.method = <<"till", "bill", "pay">>]}

MCSettings ==
  [transport : {"nil", "allow", "deny"}, keys : {{"app"}, {"app", GlobalSignKey}, {"app", ""}},
   auth : {"nil", "allow", "deny"}, anon : {{}, {Login}}, httpSign : {FALSE}]

Strict == [transport |-> "deny", keys |-> {"app", GlobalSignKey}, auth |-> "deny",
           anon |-> {Login}, httpSign |-> TRUE]

MCStrict  == {Strict}
MCFew     == {Strict, [Strict EXCEPT !.keys = {"app"}], [Strict EXCEPT !.transport = "nil"]}
MCFlags   == {Strict, [Strict EXCEPT !.httpSign = FALSE]}
MCNoAuth  == {[Strict EXCEPT !.auth = "nil"]}

\* option/options.go:23 and README.md:60 describe --http.sign as the switch of
\* the verification of requests: without it no answer reports a bad signature.
FlagGovernsVerification ==
  \A r \in Requests : out[r] # << >> /\ ~conf.httpSign => Received(r).code # Code.InvalidSignature

\* involution.go:34 and server/server.go:83 say that without a registered
\* authorization requests are not authorized: none is refused for that reason.
AuthorizationOptional ==
  \A r \in Requests : out[r] # << >> /\ conf.auth = "nil" => Received(r).code # Code.Unauthorized

===============================================================================
