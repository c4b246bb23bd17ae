------------------------------- MODULE Pipeline -------------------------------
(***************************************************************************)
(* The request pipeline of the API endpoint POST <path>/api.               *)
(*                                                                         *)
(* Every request runs in a goroutine of its own through three layers:      *)
(*   transport  AddHandle's closure: bind, verify, handle, sign, write,    *)
(*              and the deferred recover that answers after a panic;       *)
(*   server     the closure of initBackendAPIServer: gauge, backend        *)
(*              lookup, authorization, decoding, and the deferred          *)
(*              accounting;                                                *)
(*   framework  Backend.HandleRequest: validation, routing, the callback   *)
(*              and the deferred recover.                                  *)
(* The goroutines share only the three counters of Connection, each update *)
(* of which is a separate atomic operation, so those are the points where  *)
(* goroutines interleave; everything between two of them is one action.    *)
(***************************************************************************)
EXTENDS Integers, Sequences, FiniteSets

CONSTANTS
  Requests,  \* the request goroutines
  Messages,  \* the messages a client may send
  Settings,  \* the configurations the server may run with
  Backends,  \* registered backends: name -> sequence of endpoints
  Hooked,    \* the names of those with a HandleRequestBeforeFunc
  Chosen     \* the codes callbacks put into a Reply or a WrapperError

Contents == {"none", "data", "opaque"}  \* "opaque": json.Marshal fails on it

(* Return codes: codes.go.  Nothing keeps a callback from using them too. *)
Code == [Success |-> 0,
         ServerInternalError |-> 1001, DataValidateException |-> 1002,
         EndpointNotFound |-> 1004, OperationNotFound |-> 1005,
         OperationHandlerIssue |-> 1006, BackendIssue |-> 1007,
         InvalidSignature |-> 1008, BindRequestData |-> 1010,
         HandleRequest |-> 1011, FailedDecodeArgs |-> 2001,
         Unauthorized |-> 4001]

Codes == {Code[c] : c \in DOMAIN Code} \union Chosen

GlobalSignKey == "global"

(***************************************************************************)
(* A message: does the body bind to transport.Request (all its fields are  *)
(* required), the X-Client-ID header ("" if absent), does its sign match   *)
(* its fields under the client's key, the method split at its dots, the    *)
(* Authorization header, and whether there is a User-Agent.  X-Trace-ID    *)
(* is not kept: requestTracer sets it on every request.                    *)
(***************************************************************************)
MessageOK(m) ==
  /\ DOMAIN m = {"binds", "client", "signed", "method", "token", "agent"}
  /\ m.binds \in BOOLEAN /\ m.signed \in BOOLEAN /\ m.agent \in BOOLEAN
  /\ m.token \in {"", "invalid", "valid"}
  /\ m.method # << >>

(***************************************************************************)
(* A configuration: the transport policy ("nil": no transport block), the  *)
(* names in sign_keys, the authorization policy ("nil": RegisterAuthoriz-  *)
(* ation was not called), the anonymous methods, and the --http.sign flag. *)
(***************************************************************************)
SettingsOK(s) ==
  /\ DOMAIN s = {"transport", "keys", "auth", "anon", "httpSign"}
  /\ s.transport \in {"nil", "allow", "deny"}
  /\ s.auth \in {"nil", "allow", "deny"}
  /\ s.httpSign \in BOOLEAN

\* checkEndpoint refuses a backend with an operation whose callback is nil.
ASSUME BackendsAssumption ==
  \A b \in DOMAIN Backends :
    /\ Len(Backends[b]) \in Nat
    /\ \A i \in 1..Len(Backends[b]) :
         LET operations == Backends[b][i].operations
         IN  \A o \in DOMAIN operations : operations[o]
ASSUME ChosenAssumption == Chosen \subseteq Int
ASSUME HookedAssumption == Hooked \subseteq DOMAIN Backends
ASSUME MessagesAssumption == \A m \in Messages : MessageOK(m)
ASSUME SettingsAssumption == \A s \in Settings : SettingsOK(s)
ASSUME RequestsAssumption == IsFiniteSet(Requests)

VARIABLES
  conf,      \* the configuration, fixed at start
  msg,       \* msg[r]: the message request r carries
  pc,        \* pc[r]: where the goroutine of r is
  resp,      \* resp[r]: transport.Context.response
  exit,      \* exit[r]: how the server's closure is left
  ran,       \* ran[r]: how often r's callback was called
  said,      \* said[r]: the code r's callback ended with: {} before, or if it panicked
  out,       \* out[r]: the bodies the client of r received
  gone,      \* the requests whose client connection is lost
  active, executed, errors   \* server.Connection

local    == <<pc, resp, exit, ran, said, out, gone>>
counters == <<active, executed, errors>>
vars     == <<conf, msg, local, counters>>

-------------------------------------------------------------------------------
(* Decisions the layers take, in the order of the code. *)

\* The error of md5Signer.Verify.
VerifyFails(m) ==
  /\ conf.transport = "deny"
  /\ \/ m.client = ""
     \/ m.client \notin conf.keys
     \/ ~m.signed

\* The error of Server.preAuthorization.
UnauthorizedParsed(m) ==
  \/ conf.auth = "nil"
  \/ conf.auth = "deny" /\ m.method \notin conf.anon /\ m.token = ""

Unauthorized(m) ==
  \/ conf.auth = "nil"
  \/ conf.auth = "deny" /\ m.method \notin conf.anon /\ m.token # "valid"

\* Backend.find compares the path with each pattern and returns the first equal.
Matching(backend, path) ==
  {i \in 1..Len(Backends[backend]) : Backends[backend][i].pattern = path}

First(indices) == CHOOSE i \in indices : \A j \in indices : i <= j

Operations(backend, path) == Backends[backend][First(Matching(backend, path))].operations

\* The code HandleRequest answers with before it reaches a callback.
Misrouted(backend, path, name, agent) ==
  IF ~agent \/ path = "" \/ name = "" THEN Code.DataValidateException
  ELSE IF Matching(backend, path) = {} THEN Code.EndpointNotFound
  ELSE IF name \notin DOMAIN Operations(backend, path) THEN Code.OperationNotFound
  ELSE IF ~Operations(backend, path)[name] THEN Code.OperationHandlerIssue
  ELSE Code.Success

\* The code the server's closure answers with before any callback runs.
Refusal(m) ==
  IF m.method[1] \notin DOMAIN Backends THEN Code.BackendIssue
  ELSE IF Unauthorized(m) THEN Code.Unauthorized
  ELSE IF Len(m.method) # 3 THEN Code.FailedDecodeArgs
  ELSE Misrouted(m.method[1], m.method[2], m.method[3], m.agent)

\* What md5Signer.Sign digests: Map leaves out content that does not marshal.
NoSign == << >>

DigestOfCode(p) == <<p.code, "none">>

Digest(p) == <<p.code, IF p.content = "opaque" THEN "none" ELSE p.content>>

(***************************************************************************)
(* What a callback may end with, and what HandleRequest and the server     *)
(* make of it: how the server's closure is left, and the code and content  *)
(* of the response.  The code is the callback's own, unchecked: a Reply    *)
(* with Code 0 has its data delivered, one with another Code has not; a    *)
(* WrapperError without an Err leaves the closure like a Reply, one with   *)
(* an Err as an error, even with Code 0.                                   *)
(***************************************************************************)
Ending(how, own, code, content) ==
  [exit |-> how, said |-> own, code |-> code, content |-> content]

\* A panic with an error becomes a WrapperError; a panic with another value
\* makes the type assertion in the deferred function panic again.
Panics == {Ending("error", {}, Code.ServerInternalError, "none"),
           Ending("panic", {}, Code.Success, "none")}

Replies == {Ending("return", {Code.Success}, Code.Success, x) : x \in Contents}
             \union {Ending("return", {c}, c, "none") : c \in Chosen}

Wrapped == {Ending("error", {c}, c, "none") : c \in Chosen}

Returned == Replies \union Wrapped \union Panics

-------------------------------------------------------------------------------
(* The steps of the goroutine of request r. *)

At(r, from, to) ==
  /\ pc[r] = from
  /\ pc'   = [pc EXCEPT ![r] = to]

WithCode(r, code) == resp' = [resp EXCEPT ![r].code = code]

Leave(r, how) == exit' = [exit EXCEPT ![r] = how]

\* AddHandle's closure up to the call of handle. Without a transport block the
\* signer's settings are nil, and Verify panics.
Unbound(r) ==
  /\ ~msg[r].binds
  /\ At(r, "idle", "write")
  /\ WithCode(r, Code.BindRequestData)

Unverifiable(r) ==
  /\ msg[r].binds /\ conf.transport = "nil"
  /\ At(r, "idle", "panic")
  /\ UNCHANGED resp

Unverified(r) ==
  /\ msg[r].binds /\ VerifyFails(msg[r])
  /\ At(r, "idle", "write")
  /\ WithCode(r, Code.InvalidSignature)

Verified(r) ==
  /\ msg[r].binds /\ conf.transport # "nil" /\ ~VerifyFails(msg[r])
  /\ At(r, "idle", "incActive")
  /\ UNCHANGED resp

Receive(r) ==
  /\ Unbound(r) \/ Unverifiable(r) \/ Unverified(r) \/ Verified(r)
  /\ UNCHANGED <<conf, msg, exit, ran, said, out, gone, counters>>

\* Connection.Inc: two atomic additions.
IncActive(r) ==
  /\ At(r, "incActive", "incExecuted")
  /\ active' = active + 1
  /\ UNCHANGED <<conf, msg, resp, exit, ran, said, out, gone, executed, errors>>

CountExecuted(r, n) ==
  /\ At(r, "incExecuted", "dispatch")
  /\ executed' = executed + n
  /\ UNCHANGED <<conf, msg, resp, exit, ran, said, out, gone, active, errors>>

IncExecutedAccepted(r) == CountExecuted(r, IF Refusal(msg[r]) = Code.Success THEN 1 ELSE 0)

IncExecuted(r) == CountExecuted(r, 1)

\* A callback, or the hook before it, ends, and HandleRequest and the server's
\* closure after it.
End(r, from, e, to) ==
  /\ At(r, from, to)
  /\ resp' = [resp EXCEPT ![r].code = e.code, ![r].content = e.content]
  /\ said' = [said EXCEPT ![r] = e.said]
  /\ Leave(r, e.exit)
  /\ UNCHANGED <<conf, msg, ran, out, gone, counters>>

\* From the backend lookup to the call of the callback, or to an early return.
Execute(r) ==
  /\ Refusal(msg[r]) = Code.Success
  /\ At(r, "dispatch", "callback")
  /\ ran' = [ran EXCEPT ![r] = @ + 1]
  /\ UNCHANGED <<conf, msg, resp, exit, said, out, gone, counters>>

Refuse(r) ==
  /\ Refusal(msg[r]) # Code.Success
  /\ At(r, "dispatch", "decLoad")
  /\ WithCode(r, Refusal(msg[r]))
  /\ Leave(r, "error")
  /\ UNCHANGED <<conf, msg, ran, said, out, gone, counters>>

\* HandleRequestBeforeFunc runs last before the callback, which it cannot replace
\* any more; when it panics, the callback does not run.
HookPanics(r) ==
  /\ Refusal(msg[r]) = Code.Success
  /\ msg[r].method[1] \in Hooked
  /\ \E e \in Panics : End(r, "dispatch", e, "decLoad")

Dispatch(r) == Execute(r) \/ Refuse(r) \/ HookPanics(r)

ReturnUndeferred(r) ==
  \E e \in Returned : End(r, "callback", e, IF e.exit = "panic" THEN "panic" ELSE "decLoad")
ReturnUncoded(r) ==
  \E e \in Returned :
    End(r, "callback", [e EXCEPT !.code = IF e.exit = "error" THEN Code.Success ELSE @], "decLoad")

Return(r) == \E e \in Returned : End(r, "callback", e, "decLoad")

\* Connection.Dec, deferred: an atomic load, then an atomic addition.
Load(r, positive) ==
  /\ At(r, "decLoad", IF positive THEN "decAdd" ELSE "countError")
  /\ UNCHANGED <<conf, msg, resp, exit, ran, said, out, gone, counters>>

DecLoadOnSuccess(r) == Load(r, active > 0 /\ exit[r] # "error")
DecLoadAboveOne(r)  == Load(r, active > 1)

DecLoad(r) == Load(r, active > 0)

Subtract(r, n) ==
  /\ At(r, "decAdd", "countError")
  /\ active' = active - n
  /\ UNCHANGED <<conf, msg, resp, exit, ran, said, out, gone, executed, errors>>

DecAddTwice(r) == Subtract(r, IF exit[r] = "error" THEN 2 ELSE 1)

DecAdd(r) == Subtract(r, 1)

\* The rest of the deferred function, which sees err = nil while a panic unwinds.
CountError(r) ==
  /\ \/ /\ exit[r] = "return"
        /\ At(r, "countError", "sign")
        /\ UNCHANGED errors
     \/ /\ exit[r] = "error"
        /\ At(r, "countError", "write")
        /\ errors' = errors + 1
     \/ /\ exit[r] = "panic"
        /\ At(r, "countError", "panic")
        /\ UNCHANGED errors
  /\ UNCHANGED <<conf, msg, resp, exit, ran, said, out, gone, active, executed>>

\* md5Signer.Sign. Its failure replaces the code and leaves the content.
Sign(r) ==
  /\ At(r, "sign", "write")
  /\ \/ /\ conf.transport = "allow"
        /\ UNCHANGED resp
     \/ /\ conf.transport = "deny" /\ GlobalSignKey \in conf.keys
        /\ resp' = [resp EXCEPT ![r].sign = Digest(resp[r])]
     \/ /\ conf.transport = "deny" /\ GlobalSignKey \notin conf.keys
        /\ WithCode(r, Code.InvalidSignature)
  /\ UNCHANGED <<conf, msg, exit, ran, said, out, gone, counters>>

\* Context.write: gin panics when the body does not marshal and when the write
\* fails, which it may once the client has gone.
WriteThen(r, to) ==
  /\ \/ /\ resp[r].content # "opaque"
        /\ At(r, "write", to)
        /\ out' = [out EXCEPT ![r] = Append(@, resp[r])]
        /\ UNCHANGED gone
     \/ /\ resp[r].content = "opaque"
        /\ At(r, "write", "panic")
        /\ UNCHANGED <<out, gone>>
     \/ /\ resp[r].content # "opaque"
        /\ At(r, "write", "panic")
        /\ gone' = gone \union {r}
        /\ UNCHANGED out
  /\ UNCHANGED <<conf, msg, resp, exit, ran, said, counters>>

WriteUnreturned(r) == WriteThen(r, IF exit[r] = "error" THEN "sign" ELSE "done")

Write(r) == WriteThen(r, "done")

\* The deferred recover writes a second time. When that panics too, net/http
\* catches it and closes the connection.
WriteAgain(r, failed) ==
  /\ WithCode(r, Code.HandleRequest)
  /\ \/ /\ resp[r].content # "opaque" /\ r \notin gone
        /\ At(r, "panic", "done")
        /\ out' = [out EXCEPT ![r] = Append(@, resp'[r])]
     \/ /\ resp[r].content = "opaque" \/ r \in gone
        /\ At(r, "panic", failed)
        /\ UNCHANGED out
  /\ UNCHANGED <<conf, msg, exit, ran, said, gone, counters>>

RecoverRetried(r) == WriteAgain(r, "write")

Recover(r) == WriteAgain(r, "aborted")

-------------------------------------------------------------------------------
Init ==
  /\ conf \in Settings
  /\ msg \in [Requests -> Messages]
  /\ pc   = [r \in Requests |-> "idle"]
  /\ resp = [r \in Requests |-> [code |-> Code.Success, content |-> "none", sign |-> NoSign]]
  /\ exit = [r \in Requests |-> "none"]
  /\ ran  = [r \in Requests |-> 0]
  /\ said = [r \in Requests |-> {}]
  /\ out  = [r \in Requests |-> << >>]
  /\ gone = {}
  /\ active = 0 /\ executed = 0 /\ errors = 0

\* What the goroutine of r does once the request has been read.
Step(r) ==
  \/ IncActive(r) \/ IncExecuted(r) \/ Dispatch(r) \/ Return(r)
  \/ DecLoad(r) \/ DecAdd(r) \/ CountError(r) \/ Sign(r) \/ Write(r) \/ Recover(r)

Finished(r) == pc[r] \in {"done", "aborted"}

\* Every request was served: the API is quiescent, which is not a deadlock.
Quiescent == (\A r \in Requests : Finished(r)) /\ UNCHANGED vars

Next == (\E r \in Requests : Receive(r) \/ Step(r)) \/ Quiescent

(***************************************************************************)
(* A goroutine that can run is eventually run, and a callback eventually   *)
(* returns. Nothing makes a client send: Receive is not fair.              *)
(***************************************************************************)
Fairness == \A r \in Requests : WF_vars(Step(r))

Spec == Init /\ [][Next]_vars /\ Fairness

-------------------------------------------------------------------------------
(* Properties. *)

Places == {"idle", "incActive", "incExecuted", "dispatch", "callback", "decLoad", "decAdd",
           "countError", "sign", "write", "panic", "done", "aborted"}

Digests == {NoSign} \union Codes \X Contents
Body    == [code : Codes, content : Contents, sign : Digests]

\* The shape of the state. The one conjunct that is not a matter of shape is
\* that the gauge, a signed int64 in the code, is never negative.
TypeOK ==
  /\ conf \in Settings
  /\ msg \in [Requests -> Messages]
  /\ pc \in [Requests -> Places]
  /\ resp \in [Requests -> Body]
  /\ exit \in [Requests -> {"none", "return", "error", "panic"}]
  /\ ran \in [Requests -> Nat]
  /\ said \in [Requests -> SUBSET Codes]
  /\ out \in [Requests -> Seq(Body)]
  /\ gone \subseteq Requests
  /\ active \in Nat /\ executed \in Nat /\ errors \in Nat

Inside  == {r \in Requests : pc[r] \in {"incExecuted", "dispatch", "callback", "decLoad", "decAdd"}}
Counted == {r \in Inside : pc[r] # "incExecuted"} \union {r \in Requests : exit[r] # "none"}
Failed  == {r \in Requests : exit[r] = "error" /\ pc[r] \notin {"decLoad", "decAdd", "countError"}}

\* The gauge of GET <path>/health is the number of requests inside the server's
\* closure: no exit, not even a panic, leaks one or takes one twice, and the
\* unprotected check-then-subtract of Connection.Dec never skips.
ActiveIsOpen == active = Cardinality(Inside)

\* Executed counts each request that entered once, Errors each that was left
\* with an error once, and so Errors never exceeds Executed.
CountersExact ==
  /\ executed = Cardinality(Counted)
  /\ errors = Cardinality(Failed)
  /\ errors <= executed

\* What must hold of a message before its callback may run, layer by layer.
Admissible(m) ==
  /\ m.binds
  /\ conf.transport # "nil"
  /\ conf.transport = "deny" => m.signed /\ m.client \in conf.keys \ {""}
  /\ conf.auth # "nil"
  /\ conf.auth = "deny" => m.method \in conf.anon \/ m.token = "valid"
  /\ m.agent
  /\ Len(m.method) = 3
  /\ m.method[1] \in DOMAIN Backends
  /\ m.method[2] # "" /\ m.method[3] # ""
  /\ \E i \in 1..Len(Backends[m.method[1]]) :
       LET endpoints == Backends[m.method[1]]
       IN  /\ endpoints[i].pattern = m.method[2]
           /\ \A j \in 1..Len(endpoints) : endpoints[j].pattern = m.method[2] => i <= j
           /\ m.method[3] \in DOMAIN endpoints[i].operations

\* No callback runs for a message that any of the three layers must refuse, and
\* none of them loses a message that is to be executed: only the hook of its own
\* backend can, by panicking.
Gate ==
  \A r \in Requests :
    /\ ran[r] > 0 => Admissible(msg[r])
    /\ Finished(r) /\ Admissible(msg[r]) /\ ran[r] = 0 =>
         msg[r].method[1] \in Hooked /\ exit[r] \in {"error", "panic"}

\* Whatever panics, fails or returns early: a callback runs at most once, and a
\* client receives at most one body, exactly one unless its connection dropped.
AtMostOnce ==
  \A r \in Requests :
    /\ ran[r] <= 1
    /\ Len(out[r]) <= 1
    /\ out[r] # << >> <=> pc[r] = "done"

Received(r) == out[r][Len(out[r])]

Refusals == {Code.BindRequestData, Code.InvalidSignature, Code.BackendIssue, Code.Unauthorized,
             Code.FailedDecodeArgs, Code.DataValidateException, Code.EndpointNotFound,
             Code.OperationNotFound}

\* The server has the policy to sign its answers and not the key.
Unsignable == conf.transport = "deny" /\ GlobalSignKey \notin conf.keys

\* The code a client receives tells what became of its request. When no callback
\* ran it is a refusal, or says that something panicked; it is never Success.
\* When one ran it is the code the callback itself ended with, unless it panicked
\* or the server cannot sign its own answer. So Success is reported only for a
\* callback that ran and ended with Code 0 - in a WrapperError with an Err too,
\* which the server does not distinguish - and a request that is refused was not
\* executed, unless its own callback borrows the code of a refusal.
TruthfulAnswer ==
  \A r \in Requests : out[r] # << >> =>
    LET code == Received(r).code
    IN  IF ran[r] = 0
        THEN \/ code \in Refusals
             \/ code = Code.ServerInternalError /\ msg[r].method[1] \in Hooked
             \/ code = Code.HandleRequest /\ (conf.transport = "nil" \/ msg[r].method[1] \in Hooked)
        ELSE \/ code \in said[r]
             \/ code = Code.ServerInternalError /\ said[r] = {} /\ exit[r] = "error"
             \/ code = Code.HandleRequest /\ said[r] = {} /\ exit[r] = "panic"
             \/ code = Code.InvalidSignature /\ Unsignable /\ exit[r] = "return"

\* A signature a client receives covers the code and the content it came with,
\* even after a panic replaced the code; under the deny policy everything a
\* callback returned without an error is delivered signed, or as the failure to
\* sign it. What is left with an error goes out unsigned, whatever its code: the
\* Success of a WrapperError with Code 0 and an Err as well.
SignCovers ==
  \A r \in Requests : out[r] # << >> =>
    LET body == Received(r)
    IN  /\ body.sign # NoSign => body.sign = <<body.code, body.content>>
        /\ conf.transport = "deny" /\ exit[r] = "return" =>
             IF Unsignable THEN body.code = Code.InvalidSignature ELSE body.sign # NoSign
        /\ exit[r] # "return" => body.sign = NoSign

\* A request that was read is answered, or its connection is closed.
Answered == \A r \in Requests : pc[r] # "idle" ~> Finished(r)

\* However requests end, the gauge returns to zero when no more arrive.
GaugeDrains == (\A r \in Requests : pc[r] # "idle") ~> active = 0

-------------------------------------------------------------------------------
(* Refinement of ApiService. *)

StageOf(r) ==
  CASE pc[r] = "idle" -> "idle"
    [] pc[r] = "done" -> "answered"
    [] pc[r] = "aborted" -> "dropped"
    [] r \in Inside -> "serving"
    [] OTHER -> IF exit[r] = "none" THEN "accepted" ELSE "served"

Abs == INSTANCE ApiService WITH
  stage <- [r \in Requests |-> StageOf(r)], ran <- ran, gauge <- active

\* The pipeline is an implementation of what the API promises of a request.
ImplementsApiService == Abs!Spec

===============================================================================
