------------------------- MODULE PipelineAnswerProofs -------------------------
(***************************************************************************)
(* What a request may run, and what its client is told.                    *)
(*                                                                         *)
(* First, the three layers together let through exactly the admissible     *)
(* messages. Refusal follows the code, first test first; Admissible says   *)
(* what has to hold, in no order. AdmissibleMessages shows that they       *)
(* agree, whatever backends are registered, and DecisionInv that a request *)
(* has reached the place its message entitles it to.                       *)
(*                                                                         *)
(* Then, what a client receives is true, and a signature it receives       *)
(* covers it. Both are about a body that was delivered; the proof is about *)
(* the response the layers pass along before that. A response whose        *)
(* request is about to be written agrees with what was executed. One whose *)
(* write panicked need not: Recover replaces its code and keeps its        *)
(* signature. That is sound only because such a response can never be      *)
(* delivered with a signature: either its content does not marshal, or the *)
(* client is gone.                                                         *)
(***************************************************************************)
EXTENDS PipelineProofs, WellFoundedInduction, Health

\* What the transport requires of a message before it calls the handle.
Trusted(m) == m.binds /\ conf.transport # "nil" /\ ~VerifyFails(m)

\* No refusal has the code of a success.
LEMMA SuccessDistinct ==
  /\ Code.DataValidateException # Code.Success /\ Code.EndpointNotFound # Code.Success
  /\ Code.OperationNotFound # Code.Success /\ Code.OperationHandlerIssue # Code.Success
  /\ Code.BackendIssue # Code.Success /\ Code.FailedDecodeArgs # Code.Success
  /\ Code.Unauthorized # Code.Success
  BY DEF Code

\* Backend.find returns the first of the endpoints that match.
LEMMA FirstIsLeast ==
  ASSUME NEW S \in SUBSET Nat, S # {}
  PROVE  First(S) \in S /\ \A j \in S : First(S) <= j
<1>1. \E i \in S : \A j \in S : i <= j
  <2>1. PICK i \in S : \A j \in S : <<j, i>> \notin OpToRel(<, Nat)
    BY NatLessThanWellFounded, WFMin
  <2>2. \A j \in S : ~(j < i)  BY <2>1 DEF OpToRel
  <2>. QED  BY <2>2
<1>. QED  BY <1>1 DEF First

\* The first endpoint with this path has an operation of this name.
Routable(b, path, name) ==
  \E i \in 1..Len(Backends[b]) :
    /\ Backends[b][i].pattern = path
    /\ \A j \in 1..Len(Backends[b]) : Backends[b][j].pattern = path => i <= j
    /\ name \in DOMAIN Backends[b][i].operations

\* Misrouted accepts exactly the operations of the first endpoint that matches.
LEMMA RoutedMessages ==
  ASSUME NEW b \in DOMAIN Backends, NEW path, NEW name
  PROVE  Misrouted(b, path, name, TRUE) = Code.Success <=>
           path # "" /\ name # "" /\ Routable(b, path, name)
<1>. DEFINE S == Matching(b, path)
<1>1. Len(Backends[b]) \in Nat  BY BackendsAssumption
<1>2. S \subseteq Nat /\ \A i : i \in S <=> i \in 1..Len(Backends[b]) /\ Backends[b][i].pattern = path
  BY <1>1 DEF Matching
<1>3. CASE S = {}
  <2>1. Misrouted(b, path, name, TRUE) # Code.Success
    BY <1>3, SuccessDistinct DEF Misrouted
  <2>. QED  BY <1>2, <1>3, <2>1 DEF Routable
<1>4. CASE S # {}
  <2>. DEFINE f == First(S)
  <2>1. f \in S /\ \A j \in S : f <= j  BY <1>2, <1>4, FirstIsLeast
  <2>2. \A i \in S : (\A j \in S : i <= j) => i = f
    BY <1>2, <2>1
  <2>3. name \in DOMAIN Backends[b][f].operations => Backends[b][f].operations[name]
    BY <1>2, <2>1, BackendsAssumption
  <2>4. Misrouted(b, path, name, TRUE) = Code.Success <=>
          path # "" /\ name # "" /\ name \in DOMAIN Backends[b][f].operations
    BY <1>4, <2>3, SuccessDistinct DEF Misrouted, Operations
  <2>. HIDE DEF f
  <2>. QED  BY <1>2, <2>1, <2>2, <2>4 DEF Routable
<1>. QED  BY <1>3, <1>4

\* Refusal answers Success exactly for an admissible message.
LEMMA AdmissibleMessages ==
  ASSUME conf \in Settings, NEW m \in Messages
  PROVE  Admissible(m) <=> Trusted(m) /\ Refusal(m) = Code.Success
<1>1. SettingsOK(conf) /\ MessageOK(m)
  BY SettingsAssumption, MessagesAssumption
<1>2. Trusted(m) <=> /\ m.binds /\ conf.transport # "nil"
                     /\ conf.transport = "deny" => m.signed /\ m.client \in conf.keys \ {""}
  BY <1>1 DEF Trusted, VerifyFails, MessageOK, SettingsOK
<1>3. ~Unauthorized(m) <=> /\ conf.auth # "nil"
                           /\ conf.auth = "deny" => m.method \in conf.anon \/ m.token = "valid"
  BY <1>1 DEF Unauthorized, MessageOK, SettingsOK
<1>4. Refusal(m) = Code.Success <=>
        /\ m.method[1] \in DOMAIN Backends /\ ~Unauthorized(m) /\ Len(m.method) = 3
        /\ Misrouted(m.method[1], m.method[2], m.method[3], m.agent) = Code.Success
  BY SuccessDistinct DEF Refusal
<1>5. m.method[1] \in DOMAIN Backends =>
        (Misrouted(m.method[1], m.method[2], m.method[3], m.agent) = Code.Success <=>
           /\ m.agent /\ m.method[2] # "" /\ m.method[3] # ""
           /\ Routable(m.method[1], m.method[2], m.method[3]))
  <2>1. CASE m.agent = TRUE
    <3>1. Misrouted(m.method[1], m.method[2], m.method[3], m.agent) =
            Misrouted(m.method[1], m.method[2], m.method[3], TRUE)
      BY <2>1
    <3>. DEFINE b == m.method[1]  path == m.method[2]  name == m.method[3]
    <3>2. b \in DOMAIN Backends =>
            (Misrouted(b, path, name, TRUE) = Code.Success <=>
               path # "" /\ name # "" /\ Routable(b, path, name))
      <4>. HIDE DEF b, path, name
      <4>. QED  BY RoutedMessages
    <3>. QED  BY <2>1, <3>1, <3>2
  <2>2. CASE m.agent = FALSE  BY <2>2, SuccessDistinct DEF Misrouted
  <2>. QED  BY <1>1, <2>1, <2>2 DEF MessageOK
<1>6. Admissible(m) <=>
        /\ m.binds /\ conf.transport # "nil"
        /\ conf.transport = "deny" => m.signed /\ m.client \in conf.keys \ {""}
        /\ conf.auth # "nil"
        /\ conf.auth = "deny" => m.method \in conf.anon \/ m.token = "valid"
        /\ m.agent /\ Len(m.method) = 3 /\ m.method[1] \in DOMAIN Backends
        /\ m.method[2] # "" /\ m.method[3] # ""
        /\ Routable(m.method[1], m.method[2], m.method[3])
  BY DEF Admissible, Routable
<1>. QED  BY <1>2, <1>3, <1>4, <1>5, <1>6

-------------------------------------------------------------------------------
(* Where a request is tells what the decisions about its message were. *)

Passed(r) ==
  \/ pc[r] \in {"incActive", "incExecuted", "dispatch", "callback"}
  \/ exit[r] # "none"

\* The hook of the backend panicked in place of the callback.
Stopped(r) == msg[r].method[1] \in Hooked /\ exit[r] \in {"error", "panic"}

DecisionInv ==
  \A r \in Requests :
    /\ Passed(r) => Trusted(msg[r])
    /\ ~Passed(r) /\ pc[r] # "idle" => ~Trusted(msg[r])
    /\ ran[r] > 0 => Passed(r) /\ Refusal(msg[r]) = Code.Success
    /\ exit[r] # "none" /\ ran[r] = 0 => Refusal(msg[r]) # Code.Success \/ Stopped(r)
    /\ pc[r] = "callback" => ran[r] > 0

\* Every step keeps the decisions that were made.
LEMMA NextDecision == IInv /\ Once /\ DecisionInv /\ [Next]_vars => DecisionInv'
<1>. SUFFICES ASSUME IInv, Once, DecisionInv, [Next]_vars PROVE DecisionInv'
  OBVIOUS
<1>1. conf' = conf /\ msg' = msg
  BY DEF Next, Quiescent, Step, vars, Receive, IncActive, IncExecuted, CountExecuted, Dispatch,
         Execute, Refuse, HookPanics, Return, End, DecLoad, Load, DecAdd, Subtract, CountError, Sign, Write,
         WriteThen, Recover, WriteAgain
<1>2. \A m : Trusted(m)' = Trusted(m) /\ Refusal(m)' = Refusal(m)
  BY <1>1 DEF Trusted, VerifyFails, Refusal, Unauthorized
<1>3. CASE UNCHANGED vars
  BY <1>1, <1>2, <1>3 DEF vars, local, DecisionInv, Passed, Stopped
<1>4. ASSUME NEW r \in Requests, Receive(r) PROVE DecisionInv'
  <2>1. /\ pc[r] = "idle" /\ pc'[r] \in {"write", "panic", "incActive"}
        /\ pc'[r] = "incActive" <=> Trusted(msg[r])
        /\ \A s \in Requests \ {r} : pc'[s] = pc[s]
    <3>1. CASE Unbound(r)  BY <3>1, Moves DEF IInv, Unbound, Trusted
    <3>2. CASE Unverifiable(r)  BY <3>2, Moves DEF IInv, Unverifiable, Trusted
    <3>3. CASE Unverified(r)  BY <3>3, Moves DEF IInv, Unverified, Trusted
    <3>4. CASE Verified(r)  BY <3>4, Moves DEF IInv, Verified, Trusted
    <3>. QED  BY <1>4, <3>1, <3>2, <3>3, <3>4 DEF Receive
  <2>2. exit' = exit /\ exit[r] = "none" /\ ran' = ran /\ ran[r] = 0
    BY <1>4, <2>1 DEF IInv, Receive, Control, Once
  <2>3. Passed(r)' <=> Trusted(msg[r])
    BY <2>1, <2>2 DEF Passed
  <2>4. \A s \in Requests \ {r} : Passed(s)' = Passed(s)
    BY <2>1, <2>2 DEF Passed
  <2>. SUFFICES ASSUME NEW s \in Requests
                PROVE  /\ Passed(s)' => Trusted(msg[s])'
                       /\ ~Passed(s)' /\ pc'[s] # "idle" => ~Trusted(msg[s])'
                       /\ ran'[s] > 0 => Passed(s)' /\ Refusal(msg[s])' = Code.Success
                       /\ exit'[s] # "none" /\ ran'[s] = 0 =>
                            Refusal(msg[s])' # Code.Success \/ Stopped(s)'
                       /\ pc'[s] = "callback" => ran'[s] > 0
    BY DEF DecisionInv
  <2>5. CASE s = r
    BY <1>1, <1>2, <2>1, <2>2, <2>3, <2>5
  <2>6. CASE s # r
    BY <1>1, <1>2, <2>1, <2>2, <2>4, <2>6 DEF DecisionInv, Stopped
  <2>. QED  BY <2>5, <2>6
<1>5. ASSUME NEW r \in Requests, Execute(r) \/ Refuse(r) PROVE DecisionInv'
  <2>1. /\ pc[r] = "dispatch" /\ exit[r] = "none" /\ ran[r] = 0
        /\ \A s \in Requests \ {r} : pc'[s] = pc[s]
    BY <1>5, Moves DEF IInv, Execute, Refuse, Control, Once
  <2>2. CASE Execute(r)
    <3>1. /\ Refusal(msg[r]) = Code.Success /\ pc'[r] = "callback"
          /\ exit' = exit /\ ran' = [ran EXCEPT ![r] = 1]
      BY <2>1, <2>2, Moves DEF IInv, Shaped, Execute
    <3>. QED  BY <1>1, <1>2, <2>1, <3>1 DEF IInv, Shaped, DecisionInv, Passed, Stopped
  <2>3. CASE Refuse(r)
    <3>1. /\ Refusal(msg[r]) # Code.Success /\ pc'[r] = "decLoad"
          /\ exit' = [exit EXCEPT ![r] = "error"] /\ ran' = ran
      BY <2>1, <2>3, Moves DEF IInv, Shaped, Refuse, Leave
    <3>. QED  BY <1>1, <1>2, <2>1, <3>1 DEF IInv, Shaped, DecisionInv, Passed, Stopped
  <2>. QED  BY <1>5, <2>2, <2>3
<1>6. ASSUME NEW r \in Requests, Return(r) \/ HookPanics(r) PROVE DecisionInv'
  <2>1. PICK e \in Returned, from \in {"dispatch", "callback"} : End(r, from, e, "decLoad")
    BY <1>6, Endings
  <2>2. /\ pc[r] \in {"dispatch", "callback"} /\ pc'[r] = "decLoad" /\ ran' = ran
        /\ \A s \in Requests \ {r} : pc'[s] = pc[s] /\ exit'[s] = exit[s]
    BY <2>1, Moves DEF IInv, Shaped, End, Leave
  <2>3. exit'[r] # "none"
    BY <2>1, ReturnedTyped DEF IInv, Shaped, End, Leave
  <2>4. pc[r] = "dispatch" => Stopped(r)'
    <3>1. pc[r] = "dispatch" => HookPanics(r)
      BY <1>6 DEF Return, End, At
    <3>2. ASSUME HookPanics(r) PROVE exit'[r] \in {"error", "panic"} /\ msg[r].method[1] \in Hooked
      BY <3>2 DEF HookPanics, Panics, Ending, End, Leave, IInv, Shaped
    <3>. QED  BY <1>1, <3>1, <3>2 DEF Stopped
  <2>. QED  BY <1>1, <1>2, <2>2, <2>3, <2>4 DEF IInv, Shaped, DecisionInv, Passed, Stopped
<1>7. ASSUME NEW r \in Requests,
             \/ IncActive(r) \/ IncExecuted(r) \/ DecLoad(r) \/ DecAdd(r)
             \/ CountError(r) \/ Sign(r) \/ Write(r) \/ Recover(r)
      PROVE  DecisionInv'
  <2>1. exit' = exit /\ ran' = ran
    BY <1>7 DEF IncActive, IncExecuted, CountExecuted, DecLoad, Load, DecAdd, Subtract, CountError,
                Sign, Write, WriteThen, Recover, WriteAgain
  <2>2. /\ \/ /\ pc[r] \in {"incActive", "incExecuted"}
              /\ pc'[r] \in {"incExecuted", "dispatch"}
           \/ /\ pc[r] \in {"decLoad", "decAdd", "countError", "sign", "write", "panic"}
              /\ pc'[r] \in {"decAdd", "countError", "sign", "write", "panic", "done", "aborted"}
        /\ \A s \in Requests \ {r} : pc'[s] = pc[s]
    BY <1>7, Moves DEF IInv, IncActive, IncExecuted, CountExecuted, DecLoad, Load, DecAdd, Subtract,
                CountError, Sign, Write, WriteThen, Recover, WriteAgain
  <2>. QED  BY <1>1, <1>2, <2>1, <2>2 DEF DecisionInv, Passed, Stopped
<1>. QED  BY <1>3, <1>4, <1>5, <1>6, <1>7 DEF Next, Step, Dispatch, Quiescent

\* A request is where its decision sent it, in every reachable state.
LEMMA DecisionInvariant == Spec => []DecisionInv
<1>1. Init => DecisionInv
  BY DEF Init, DecisionInv, Passed
<1>. QED  BY <1>1, Invariance, OnceInvariant, NextDecision, PTL DEF Spec

\* server_backend.go:45-87, transport.go:63-80 and backend.go:94-141 together run
\* the callback of no message but an admissible one, and of every admissible one
\* save those in whose stead the hook of the backend panics.
THEOREM OnlyAdmissibleExecute == Spec => []Gate
<1>1. IInv /\ Once /\ DecisionInv => Gate
  <2>. SUFFICES ASSUME IInv, Once, DecisionInv, NEW r \in Requests
                PROVE  /\ ran[r] > 0 => Admissible(msg[r])
                       /\ Finished(r) /\ Admissible(msg[r]) /\ ran[r] = 0 =>
                            msg[r].method[1] \in Hooked /\ exit[r] \in {"error", "panic"}
    BY DEF Gate
  <2>1. Admissible(msg[r]) <=> Trusted(msg[r]) /\ Refusal(msg[r]) = Code.Success
    BY AdmissibleMessages DEF IInv, Shaped
  <2>2. Finished(r) /\ Trusted(msg[r]) => exit[r] # "none"
    BY DEF DecisionInv, Passed, Finished
  <2>. QED  BY <2>1, <2>2 DEF DecisionInv, Stopped, IInv, Shaped
<1>. QED  BY <1>1, Invariance, OnceInvariant, DecisionInvariant, PTL

-----------------------------------------------------------------------------
\* What a client receives.

\* The response a request starts with: transport.NewContext.
Fresh == [code |-> Code.Success, content |-> "none", sign |-> NoSign]

\* What TruthfulAnswer says of a code, for any code and not only a received one.
Truthful(r, code) ==
  IF ran[r] = 0
  THEN \/ code \in Refusals
       \/ code = Code.ServerInternalError /\ msg[r].method[1] \in Hooked
       \/ code = Code.HandleRequest /\ (conf.transport = "nil" \/ msg[r].method[1] \in Hooked)
  ELSE \/ code \in said[r]
       \/ code = Code.ServerInternalError /\ said[r] = {} /\ exit[r] = "error"
       \/ code = Code.HandleRequest /\ said[r] = {} /\ exit[r] = "panic"
       \/ code = Code.InvalidSignature /\ Unsignable /\ exit[r] = "return"

\* What SignCovers says of who has its answer signed.
SignedAsLeft(r, b) ==
  /\ conf.transport = "deny" /\ exit[r] = "return" =>
       IF Unsignable THEN b.code = Code.InvalidSignature ELSE b.sign # NoSign
  /\ exit[r] # "return" => b.sign = NoSign

\* What SignCovers says of a body.
Covered(r, b) ==
  /\ b.sign # NoSign => b.sign = <<b.code, b.content>>
  /\ SignedAsLeft(r, b)

(***************************************************************************)
(* What the place of a request tells of its response.                      *)
(***************************************************************************)
Unanswered(r) ==
  pc[r] \in {"idle", "incActive", "incExecuted", "dispatch", "callback"} => resp[r] = Fresh

Judged(r) ==
  pc[r] \in {"decLoad", "decAdd", "countError", "sign"} =>
    /\ resp[r].sign = NoSign
    /\ Truthful(r, IF exit[r] = "panic" THEN Code.HandleRequest ELSE resp[r].code)

Writable(r) ==
  pc[r] = "write" =>
    /\ Truthful(r, resp[r].code)
    /\ resp[r].sign # NoSign => resp[r].sign = Digest(resp[r])
    /\ SignedAsLeft(r, resp[r])

\* A response that panicked in its write is lost. One that panicked before has no
\* signature, and the code of the recovery is true of it.
Recoverable(r) ==
  pc[r] = "panic" =>
    \/ resp[r].content = "opaque" \/ r \in gone
    \/ resp[r].sign = NoSign /\ exit[r] # "return" /\ Truthful(r, Code.HandleRequest)

Delivered(r) ==
  pc[r] = "done" => \E b \in Body : out[r] = <<b>> /\ Truthful(r, b.code) /\ Covered(r, b)

AnswerOf(r) == Unanswered(r) /\ Judged(r) /\ Writable(r) /\ Recoverable(r) /\ Delivered(r)

AnswerInv == \A r \in Requests : AnswerOf(r)

-------------------------------------------------------------------------------
(* Codes, digests and steps. *)

LEMMA CodesApart ==
  /\ Code.BindRequestData \in Refusals /\ Code.InvalidSignature \in Refusals
  BY DEF Refusals

\* A layer that refuses a message refuses it with the code of a refusal: no operation that
\* is registered is without a callback.
LEMMA RefusalRefuses ==
  ASSUME NEW m \in Messages, Refusal(m) # Code.Success
  PROVE  Refusal(m) \in Refusals
<1>1. m.method[1] \in DOMAIN Backends =>
        Misrouted(m.method[1], m.method[2], m.method[3], m.agent) \in Refusals \union {Code.Success}
  <2>. DEFINE b == m.method[1]  path == m.method[2]  name == m.method[3]
  <2>. HIDE DEF b, path, name
  <2>. SUFFICES ASSUME b \in DOMAIN Backends, NEW a
                PROVE  Misrouted(b, path, name, a) \in Refusals \union {Code.Success}
    BY DEF b, path, name
  <2>1. Len(Backends[b]) \in Nat  BY BackendsAssumption
  <2>2. ASSUME Matching(b, path) # {}, name \in DOMAIN Operations(b, path)
        PROVE  Operations(b, path)[name]
    <3>. DEFINE S == Matching(b, path)
    <3>1. S \subseteq 1..Len(Backends[b]) /\ S \subseteq Nat  BY <2>1 DEF Matching
    <3>2. First(S) \in S  BY <2>2, <3>1, FirstIsLeast
    <3>. QED  BY <2>2, <3>1, <3>2, BackendsAssumption DEF Operations
  <2>. QED  BY <2>2 DEF Misrouted, Refusals
<1>. QED  BY <1>1 DEF Refusal, Refusals

\* What a callback's or a hook's end makes of the response is true of it.
LEMMA EndTruthful ==
  ASSUME NEW e \in Returned
  PROVE  /\ e.exit = "panic" => e.said = {}
         /\ \/ e.exit = "panic"
            \/ e.code \in e.said
            \/ e.code = Code.ServerInternalError /\ e.said = {} /\ e.exit = "error"
<1>1. CASE e \in Replies  BY <1>1 DEF Replies, Ending
<1>2. CASE e \in Wrapped  BY <1>2 DEF Wrapped, Ending
<1>3. CASE e \in Panics  BY <1>3 DEF Panics, Ending
<1>. QED  BY <1>1, <1>2, <1>3 DEF Returned

\* A digest covers a body whose content marshals, and is never the absent one.
LEMMA DigestCovers ==
  \A b \in Body : /\ Digest(b) # NoSign
                  /\ b.content # "opaque" => Digest(b) = <<b.code, b.content>>
  BY DEF Digest, NoSign

\* A request moves alone: of the others nothing changes, save that none of them
\* gets its connection back.
LEMMA Alone ==
  ASSUME Shaped, NEW r \in Requests, Receive(r) \/ Step(r)
  PROVE  /\ conf' = conf /\ msg' = msg /\ gone \subseteq gone'
         /\ \A s \in Requests \ {r} :
              /\ pc'[s] = pc[s] /\ resp'[s] = resp[s] /\ exit'[s] = exit[s]
              /\ ran'[s] = ran[s] /\ said'[s] = said[s] /\ out'[s] = out[s]
<1>. USE DEF Shaped, At, WithCode, Leave
<1>1. CASE Receive(r)
  BY <1>1 DEF Receive, Unbound, Unverifiable, Unverified, Verified
<1>2. CASE IncActive(r) \/ IncExecuted(r) \/ DecLoad(r) \/ DecAdd(r) \/ CountError(r)
  BY <1>2 DEF IncActive, IncExecuted, CountExecuted, DecLoad, Load, DecAdd, Subtract, CountError
<1>3. CASE Execute(r) \/ Refuse(r)  BY <1>3 DEF Execute, Refuse
<1>4. CASE Return(r) \/ HookPanics(r)
  <2>1. PICK e \in Returned, from \in {"dispatch", "callback"} : End(r, from, e, "decLoad")
    BY <1>4, Endings
  <2>. QED  BY <2>1 DEF End
<1>5. CASE Sign(r)  BY <1>5 DEF Sign
<1>6. CASE Write(r)  BY <1>6 DEF Write, WriteThen
<1>7. CASE Recover(r)  BY <1>7 DEF Recover, WriteAgain
<1>. QED  BY <1>1, <1>2, <1>3, <1>4, <1>5, <1>6, <1>7 DEF Step, Dispatch

\* So it is enough to look at the request that moves.
LEMMA OthersKept ==
  ASSUME Shaped, NEW r \in Requests, Receive(r) \/ Step(r), AnswerInv, AnswerOf(r)'
  PROVE  AnswerInv'
<1>. SUFFICES ASSUME NEW s \in Requests, s # r PROVE AnswerOf(s)'
  BY DEF AnswerInv
<1>1. /\ conf' = conf /\ msg' = msg /\ gone \subseteq gone'
      /\ pc'[s] = pc[s] /\ resp'[s] = resp[s] /\ exit'[s] = exit[s]
      /\ ran'[s] = ran[s] /\ said'[s] = said[s] /\ out'[s] = out[s]
  BY Alone
<1>2. AnswerOf(s)  BY DEF AnswerInv
<1>3. Unanswered(s)' /\ Judged(s)'
  BY <1>1, <1>2 DEF AnswerOf, Unanswered, Judged, Truthful, Unsignable
<1>4. Writable(s)'
  BY <1>1, <1>2 DEF AnswerOf, Writable, Truthful, Unsignable, SignedAsLeft
<1>5. Recoverable(s)'
  BY <1>1, <1>2 DEF AnswerOf, Recoverable, Truthful, Unsignable
<1>6. Delivered(s)'
  BY <1>1, <1>2 DEF AnswerOf, Delivered, Truthful, Unsignable, SignedAsLeft, Covered
<1>. QED  BY <1>3, <1>4, <1>5, <1>6 DEF AnswerOf

-------------------------------------------------------------------------------
(* Each step keeps the invariant of the request that takes it. *)

\* What an update of one response does to it.
LEMMA RespUpdates ==
  ASSUME Shaped, NEW r \in Requests
  PROVE  \A c : WithCode(r, c) => /\ resp'[r].code = c
                                  /\ resp'[r].content = resp[r].content
                                  /\ resp'[r].sign = resp[r].sign
<1>1. resp[r] \in Body  BY DEF Shaped
<1>2. \A c : WithCode(r, c) => resp'[r] = [resp[r] EXCEPT !.code = c]
  BY DEF Shaped, WithCode
<1>. QED  BY <1>1, <1>2 DEF Body

\* What the transport answers by itself, transport.go:46-82.
LEMMA ReceiveAnswer ==
  ASSUME IInv, Once, AnswerInv, NEW r \in Requests, Receive(r)
  PROVE  AnswerOf(r)'
<1>1. /\ pc[r] = "idle" /\ resp[r] = Fresh /\ ran[r] = 0 /\ ran' = ran /\ exit' = exit
      /\ exit[r] = "none"
  BY DEF IInv, Shaped, Once, Control, AnswerInv, AnswerOf, Unanswered, Receive, Unbound,
         Unverifiable, Unverified, Verified, At
<1>2. CASE Unbound(r)
  <2>1. pc'[r] = "write" /\ resp'[r].code = Code.BindRequestData /\ resp'[r].sign = NoSign
    BY <1>1, <1>2, Moves, RespUpdates DEF IInv, Unbound, Fresh
  <2>. QED
    BY <1>1, <2>1, CodesApart
    DEF AnswerOf, Unanswered, Judged, Writable, Recoverable, Delivered, Truthful, SignedAsLeft
<1>3. CASE Unverified(r)
  <2>1. pc'[r] = "write" /\ resp'[r].code = Code.InvalidSignature /\ resp'[r].sign = NoSign
    BY <1>1, <1>3, Moves, RespUpdates DEF IInv, Unverified, Fresh
  <2>. QED
    BY <1>1, <2>1, CodesApart
    DEF AnswerOf, Unanswered, Judged, Writable, Recoverable, Delivered, Truthful, SignedAsLeft
<1>4. CASE Unverifiable(r)
  <2>1. pc'[r] = "panic" /\ resp' = resp /\ conf' = conf /\ conf.transport = "nil"
    BY <1>4, Moves DEF IInv, Unverifiable, Receive
  <2>2. Truthful(r, Code.HandleRequest)'  BY <1>1, <2>1 DEF Truthful
  <2>. QED
    BY <1>1, <2>1, <2>2
    DEF AnswerOf, Unanswered, Judged, Writable, Recoverable, Delivered, Fresh
<1>5. CASE Verified(r)
  <2>1. pc'[r] = "incActive" /\ resp' = resp
    BY <1>5, Moves DEF IInv, Verified
  <2>. QED
    BY <1>1, <2>1
    DEF AnswerOf, Unanswered, Judged, Writable, Recoverable, Delivered, Fresh
<1>. QED  BY <1>2, <1>3, <1>4, <1>5 DEF Receive

\* Before the answer, from Inc to Dispatch.
LEMMA EarlyAnswer ==
  ASSUME IInv, Once, AnswerInv, NEW r \in Requests,
         IncActive(r) \/ IncExecuted(r) \/ Execute(r) \/ Refuse(r)
  PROVE  AnswerOf(r)'
<1>1. /\ pc[r] \in {"incActive", "incExecuted", "dispatch"} /\ resp[r] = Fresh /\ ran[r] = 0
  BY DEF IInv, Shaped, Once, AnswerInv, AnswerOf, Unanswered, IncActive, IncExecuted,
         CountExecuted, Execute, Refuse, At
<1>2. CASE Refuse(r)
  <2>1. /\ pc'[r] = "decLoad" /\ ran' = ran /\ exit'[r] = "error"
        /\ resp'[r].code = Refusal(msg[r]) /\ resp'[r].sign = NoSign
    BY <1>1, <1>2, Moves, RespUpdates DEF IInv, Shaped, Refuse, Leave, Fresh
  <2>2. Refusal(msg[r]) \in Refusals
    BY <1>2, RefusalRefuses DEF Refuse, IInv, Shaped
  <2>3. Truthful(r, resp[r].code)'
    BY <1>1, <2>1, <2>2 DEF Truthful
  <2>. QED
    BY <2>1, <2>3 DEF AnswerOf, Unanswered, Judged, Writable, Recoverable, Delivered
<1>3. CASE IncActive(r) \/ IncExecuted(r) \/ Execute(r)
  <2>1. pc'[r] \in {"incExecuted", "dispatch", "callback"} /\ resp' = resp
    BY <1>3, Moves DEF IInv, IncActive, IncExecuted, CountExecuted, Execute
  <2>. QED
    BY <1>1, <2>1 DEF AnswerOf, Unanswered, Judged, Writable, Recoverable, Delivered, Fresh
<1>. QED  BY <1>2, <1>3

\* What the answer is when the callback has ended, in whichever way, or its hook panicked.
LEMMA ReturnAnswer ==
  ASSUME IInv, Once, DecisionInv, AnswerInv, NEW r \in Requests, Return(r) \/ HookPanics(r)
  PROVE  AnswerOf(r)'
<1>1. PICK e \in Returned, from \in {"dispatch", "callback"} :
        /\ End(r, from, e, "decLoad")
        /\ from = "dispatch" => e \in Panics /\ msg[r].method[1] \in Hooked
  BY ReturnedTyped DEF Return, HookPanics
<1>2. pc[r] = from /\ pc'[r] = "decLoad" /\ ran' = ran /\ msg' = msg
  BY <1>1, Moves DEF IInv, End
<1>3. resp[r] = Fresh /\ (from = "dispatch" => ran[r] = 0) /\ (from = "callback" => ran[r] = 1)
  BY <1>2 DEF IInv, Shaped, Once, DecisionInv, AnswerInv, AnswerOf, Unanswered
<1>4. exit'[r] = e.exit /\ said'[r] = e.said
  BY <1>1 DEF IInv, Shaped, End, Leave
<1>5. resp'[r].code = e.code /\ resp'[r].sign = NoSign
  <2>. DEFINE c == e.code  x == e.content
  <2>1. resp' = [resp EXCEPT ![r].code = c, ![r].content = x]
    BY <1>1 DEF End
  <2>2. resp \in [Requests -> Body] /\ resp[r].sign = NoSign
    BY <1>3 DEF IInv, Shaped, Fresh
  <2>. HIDE DEF c, x
  <2>3. resp'[r].code = c /\ resp'[r].sign = NoSign
    BY <2>1, <2>2 DEF Body
  <2>. QED  BY <2>3 DEF c
<1>6. Truthful(r, IF exit[r] = "panic" THEN Code.HandleRequest ELSE resp[r].code)'
  <2>1. CASE from = "callback"
    BY <1>2, <1>3, <1>4, <1>5, <2>1, EndTruthful DEF Truthful
  <2>2. CASE from = "dispatch"
    <3>1. msg'[r].method[1] \in Hooked /\ ran'[r] = 0  BY <1>1, <1>2, <1>3, <2>2
    <3>2. e.exit # "panic" => e.code = Code.ServerInternalError
      BY <1>1, <2>2 DEF Panics, Ending
    <3>. QED  BY <1>4, <1>5, <3>1, <3>2 DEF Truthful
  <2>. QED  BY <1>1, <2>1, <2>2
<1>. QED
  BY <1>2, <1>5, <1>6 DEF AnswerOf, Unanswered, Judged, Writable, Recoverable, Delivered

\* The deferred accounting. A panic goes on to the deferred recover unsigned.
LEMMA AccountedAnswer ==
  ASSUME IInv, Once, AnswerInv, NEW r \in Requests,
         DecLoad(r) \/ DecAdd(r) \/ CountError(r)
  PROVE  AnswerOf(r)'
<1>1. /\ UNCHANGED <<conf, msg, resp, exit, ran, said>>
      /\ pc[r] \in {"decLoad", "decAdd", "countError"}
      /\ \/ pc'[r] \in {"decAdd", "countError"}
         \/ pc'[r] = "sign" /\ exit[r] = "return"
         \/ pc'[r] = "write" /\ exit[r] = "error"
         \/ pc'[r] = "panic" /\ exit[r] = "panic"
  BY Moves DEF IInv, DecLoad, Load, DecAdd, Subtract, CountError
<1>2. /\ resp[r].sign = NoSign
      /\ Truthful(r, IF exit[r] = "panic" THEN Code.HandleRequest ELSE resp[r].code)
  BY <1>1 DEF AnswerInv, AnswerOf, Judged
<1>3. \A c : Truthful(r, c)' <=> Truthful(r, c)
  BY <1>1 DEF Truthful, Unsignable
<1>4. pc'[r] = "write" => SignedAsLeft(r, resp[r])'
  BY <1>1, <1>2 DEF SignedAsLeft
<1>5. Judged(r)'  BY <1>1, <1>2, <1>3 DEF Judged
<1>6. Writable(r)'  BY <1>1, <1>2, <1>3, <1>4 DEF Writable
<1>7. Recoverable(r)'  BY <1>1, <1>2, <1>3 DEF Recoverable
<1>. QED
  BY <1>1, <1>5, <1>6, <1>7 DEF AnswerOf, Unanswered, Delivered

\* A signature is of what the response holds at that moment.
LEMMA SignAnswer ==
  ASSUME IInv, Once, AnswerInv, NEW r \in Requests, Sign(r)
  PROVE  AnswerOf(r)'
<1>1. /\ pc[r] = "sign" /\ pc'[r] = "write" /\ UNCHANGED <<conf, msg, exit, ran, said>>
      /\ resp[r] \in Body /\ exit[r] = "return"
  BY Moves DEF IInv, Shaped, Control, Sign
<1>2. resp[r].sign = NoSign /\ Truthful(r, resp[r].code)
  BY <1>1 DEF AnswerInv, AnswerOf, Judged
<1>3. /\ \A c : Truthful(r, c)' <=> Truthful(r, c)
      /\ Unsignable' <=> Unsignable
  BY <1>1 DEF Truthful, Unsignable
<1>. SUFFICES /\ Truthful(r, resp[r].code)'
              /\ resp'[r].sign # NoSign => resp'[r].sign = Digest(resp'[r])
              /\ SignedAsLeft(r, resp[r])'
  BY <1>1 DEF AnswerOf, Unanswered, Judged, Writable, Recoverable, Delivered
<1>4. CASE conf.transport = "allow" /\ resp' = resp
  BY <1>1, <1>2, <1>3, <1>4 DEF SignedAsLeft
<1>5. CASE ~Unsignable /\ resp' = [resp EXCEPT ![r].sign = Digest(resp[r])]
  <2>. DEFINE d == Digest(resp[r])
  <2>1. resp' = [resp EXCEPT ![r].sign = d] /\ resp \in [Requests -> Body]
    BY <1>5 DEF IInv, Shaped
  <2>. HIDE DEF d
  <2>2. /\ resp'[r].sign = d
        /\ resp'[r].code = resp[r].code /\ resp'[r].content = resp[r].content
    BY <2>1 DEF Body
  <2>3. d = Digest(resp'[r]) /\ d # NoSign
    BY <1>1, <2>2, DigestCovers DEF d, Digest
  <2>. QED  BY <1>1, <1>2, <1>3, <1>5, <2>2, <2>3 DEF SignedAsLeft
<1>6. CASE Unsignable /\ WithCode(r, Code.InvalidSignature)
  <2>1. resp'[r].code = Code.InvalidSignature /\ resp'[r].sign = NoSign
    BY <1>2, <1>6, RespUpdates DEF IInv
  <2>2. Truthful(r, Code.InvalidSignature)
    BY <1>1, <1>6, CodesApart DEF Truthful
  <2>. QED  BY <1>1, <1>3, <1>6, <2>1, <2>2 DEF SignedAsLeft
<1>. QED  BY <1>4, <1>5, <1>6 DEF Sign, Unsignable

\* A body that Write delivers marshals, so the digest covers its content too.
LEMMA WriteAnswer ==
  ASSUME IInv, Once, AnswerInv, NEW r \in Requests, Write(r)
  PROVE  AnswerOf(r)'
<1>1. /\ pc[r] = "write" /\ UNCHANGED <<conf, msg, resp, exit, ran, said>> /\ resp[r] \in Body
      /\ out[r] = << >>
  BY DEF IInv, Shaped, Once, Write, WriteThen, At
<1>2. /\ Truthful(r, resp[r].code)
      /\ resp[r].sign # NoSign => resp[r].sign = Digest(resp[r])
      /\ SignedAsLeft(r, resp[r])
  BY <1>1 DEF AnswerInv, AnswerOf, Writable
<1>3. CASE pc'[r] = "panic" /\ (resp[r].content = "opaque" \/ r \in gone')
  BY <1>1, <1>3 DEF AnswerOf, Unanswered, Judged, Writable, Recoverable, Delivered
<1>4. CASE /\ pc'[r] = "done" /\ resp[r].content # "opaque"
           /\ out' = [out EXCEPT ![r] = Append(@, resp[r])]
  <2>1. out'[r] = <<resp[r]>>
    BY <1>1, <1>4 DEF IInv, Shaped
  <2>2. Covered(r, resp[r])
    BY <1>1, <1>2, <1>4, DigestCovers DEF Covered
  <2>3. Truthful(r, resp[r].code)' /\ Covered(r, resp[r])'
    BY <1>1, <1>2, <2>2 DEF Truthful, Unsignable, Covered, SignedAsLeft
  <2>4. Delivered(r)'
    BY <1>1, <2>1, <2>3 DEF Delivered, Truthful, Unsignable, Covered, SignedAsLeft
  <2>. QED  BY <1>4, <2>4 DEF AnswerOf, Unanswered, Judged, Writable, Recoverable
<1>. QED
  BY <1>3, <1>4, Moves DEF IInv, Write, WriteThen

\* Recover delivers the new code only with a response that was never signed.
LEMMA RecoverAnswer ==
  ASSUME IInv, Once, AnswerInv, NEW r \in Requests, Recover(r)
  PROVE  AnswerOf(r)'
<1>1. /\ pc[r] = "panic" /\ UNCHANGED <<conf, msg, exit, ran, said, gone>> /\ out[r] = << >>
      /\ resp' \in [Requests -> Body]
  BY CodesTyped, WithCodeShaped DEF IInv, Shaped, Once, Recover, WriteAgain, At
<1>2. resp'[r].code = Code.HandleRequest /\ resp'[r].sign = resp[r].sign
  BY RespUpdates DEF IInv, Recover, WriteAgain
<1>3. CASE pc'[r] = "aborted"
  BY <1>3 DEF AnswerOf, Unanswered, Judged, Writable, Recoverable, Delivered
<1>4. CASE /\ pc'[r] = "done" /\ resp[r].content # "opaque" /\ r \notin gone
           /\ out' = [out EXCEPT ![r] = Append(@, resp'[r])]
  <2>1. resp'[r].sign = NoSign /\ exit[r] # "return" /\ Truthful(r, Code.HandleRequest)
    BY <1>1, <1>2, <1>4 DEF AnswerInv, AnswerOf, Recoverable
  <2>2. out'[r] = <<resp'[r]>>
    BY <1>1, <1>4 DEF IInv, Shaped
  <2>3. Truthful(r, Code.HandleRequest)' /\ exit'[r] # "return"
    BY <1>1, <2>1 DEF Truthful, Unsignable
  <2>4. ASSUME NEW b, b.code = Code.HandleRequest, b.sign = NoSign
        PROVE  Truthful(r, b.code)' /\ Covered(r, b)'
    BY <2>3, <2>4 DEF Covered, SignedAsLeft
  <2>5. Delivered(r)'
    BY <1>1, <1>2, <2>1, <2>2, <2>4 DEF Delivered
  <2>. QED  BY <1>4, <2>5 DEF AnswerOf, Unanswered, Judged, Writable, Recoverable
<1>. QED
  BY <1>3, <1>4, Moves DEF IInv, Recover, WriteAgain

\* Every step keeps every answer true.
LEMMA NextAnswer == IInv /\ Once /\ DecisionInv /\ AnswerInv /\ [Next]_vars => AnswerInv'
<1>. SUFFICES ASSUME IInv, Once, DecisionInv, AnswerInv, [Next]_vars PROVE AnswerInv'
  OBVIOUS
<1>1. CASE UNCHANGED vars
  BY <1>1 DEF vars, local, AnswerInv, AnswerOf, Unanswered, Judged, Writable, Recoverable,
              Delivered, Truthful, Unsignable, Covered, SignedAsLeft
<1>2. ASSUME NEW r \in Requests, Receive(r) \/ Step(r) PROVE AnswerInv'
  <2>1. AnswerOf(r)'
    BY <1>2, ReceiveAnswer, EarlyAnswer, ReturnAnswer, AccountedAnswer, SignAnswer, WriteAnswer,
       RecoverAnswer DEF Step, Dispatch
  <2>. QED  BY <1>2, <2>1, OthersKept DEF IInv
<1>. QED  BY <1>1, <1>2 DEF Next, Quiescent

-------------------------------------------------------------------------------
(* What follows for the client. *)

LEMMA AnswerInvariant == Spec => []AnswerInv
<1>1. Init => AnswerInv
  BY DEF Init, AnswerInv, AnswerOf, Unanswered, Judged, Writable, Recoverable, Delivered, Fresh
<1>. QED  BY <1>1, Invariance, OnceInvariant, DecisionInvariant, NextAnswer, PTL DEF Spec

\* A request that received something received one body that is true and covered.
LEMMA ReceivedBody ==
  ASSUME Once, AnswerInv, NEW r \in Requests, out[r] # << >>
  PROVE  Received(r) \in Body /\ Truthful(r, Received(r).code) /\ Covered(r, Received(r))
<1>1. pc[r] = "done"  BY DEF Once
<1>2. PICK b \in Body : out[r] = <<b>> /\ Truthful(r, b.code) /\ Covered(r, b)
  BY <1>1 DEF AnswerInv, AnswerOf, Delivered
<1>3. Received(r) = b  BY <1>2 DEF Received
<1>. QED  BY <1>2, <1>3

\* Whatever codes callbacks choose, a client is told the code its own callback ended
\* with, or of a panic, or that the answer cannot be signed; and Success or a code of a
\* callback never when none ran: backend.go:68-142, server_backend.go:55-86,
\* transport.go:53-97.
THEOREM AnswersTruthful == Spec => []TruthfulAnswer
<1>1. Once /\ AnswerInv => TruthfulAnswer
  BY ReceivedBody DEF TruthfulAnswer, Truthful
<1>. QED  BY <1>1, OnceInvariant, AnswerInvariant, PTL

\* Whatever codes callbacks choose, the signature of an answer is the digest of what it
\* carries, although Recover changes a response after it was signed, and every answer of
\* a callback that left without an error has one, as no other has: transport.go:53-62,
\* 82-97, signer.go:46-61.
THEOREM SignaturesCover == Spec => []SignCovers
<1>1. Once /\ AnswerInv => SignCovers
  BY ReceivedBody DEF SignCovers, Covered, SignedAsLeft
<1>. QED  BY <1>1, OnceInvariant, AnswerInvariant, PTL

-------------------------------------------------------------------------------
(* The answers of the health endpoint: three loads while the pipeline runs. *)

\* The requests the gauge counts and Executed does not yet.
Entering == {r \in Requests : pc[r] = "incExecuted"}

\* How many requests a step lets in.
Grown == IF active' > active THEN 1 ELSE 0

\* There are finitely many of them.
LEMMA EnteringFinite == IsFiniteSet(Entering) /\ Cardinality(Entering) \in Nat
<1>1. Entering \subseteq Requests  BY DEF Entering
<1>. QED  BY <1>1, RequestsAssumption, FS_Subset, FS_CardinalityType

\* Every counter is the cardinality of a finite set.
LEMMA CountersNatural == IInv => active \in Nat /\ executed \in Nat /\ errors \in Nat
  BY SetsFinite, FS_CardinalityType DEF IInv, ActiveIsOpen, CountersExact

\* A request that enters is counted by the gauge first, and executed later.
LEMMA StepEntered ==
  ASSUME IInv, NEW r \in Requests, Receive(r) \/ Step(r)
  PROVE  /\ active' <= active + Grown /\ executed' >= executed
         /\ executed' + Cardinality(Entering') <= executed + Cardinality(Entering) + Grown
<1>0. Cardinality(Entering) \in Nat /\ active \in Nat /\ executed \in Nat
  BY EnteringFinite, CountersNatural
<1>1. CASE IncActive(r)
  <2>1. Entering' = Entering \union {r} /\ r \notin Entering
    BY <1>1, Moves DEF IncActive, IInv, Entering
  <2>2. Cardinality(Entering') = Cardinality(Entering) + 1
    BY <2>1, EnteringFinite, FS_AddElement
  <2>. QED  BY <1>0, <1>1, <2>2 DEF IncActive, Grown
<1>2. CASE IncExecuted(r)
  <2>1. Entering' = Entering \ {r} /\ r \in Entering
    BY <1>2, Moves DEF IncExecuted, CountExecuted, IInv, Entering
  <2>2. Cardinality(Entering') = Cardinality(Entering) - 1
    BY <2>1, EnteringFinite, FS_RemoveElement
  <2>. QED  BY <1>0, <1>2, <2>2 DEF IncExecuted, CountExecuted, Grown
<1>3. CASE ~IncActive(r) /\ ~IncExecuted(r)
  <2>1. /\ pc[r] # "incExecuted" /\ pc'[r] # "incExecuted"
        /\ \A s \in Requests \ {r} : pc'[s] = pc[s]
    <3>1. CASE Receive(r)
      BY <3>1, Moves DEF IInv, Receive, Unbound, Unverifiable, Unverified, Verified
    <3>2. CASE Dispatch(r) \/ Return(r)
      <4>1. At(r, "dispatch", "callback") \/ At(r, "dispatch", "decLoad") \/ At(r, "callback", "decLoad")
        BY <3>2 DEF Dispatch, Execute, Refuse, HookPanics, Return, End
      <4>. QED  BY <4>1, Moves DEF IInv
    <3>3. CASE DecLoad(r) \/ DecAdd(r)
      BY <3>3, Moves DEF IInv, DecLoad, Load, DecAdd, Subtract
    <3>4. CASE CountError(r) \/ Sign(r)
      BY <3>4, Moves DEF IInv, CountError, Sign
    <3>5. CASE Write(r) \/ Recover(r)
      BY <3>5, Moves DEF IInv, Write, WriteThen, Recover, WriteAgain
    <3>. QED  BY <1>3, <3>1, <3>2, <3>3, <3>4, <3>5 DEF Step
  <2>2. Entering' = Entering  BY <2>1 DEF Entering
  <2>3. executed' = executed /\ (active' = active \/ active' = active - 1)
    BY <1>3
    DEF Receive, Step, Dispatch, Execute, Refuse, HookPanics, Return, End, DecLoad, Load, DecAdd, Subtract, CountError,
        Sign, Write, WriteThen, Recover, WriteAgain, counters
  <2>. QED  BY <1>0, <2>2, <2>3 DEF Grown
<1>. QED  BY <1>1, <1>2, <1>3

\* What the fields that were loaded say of the counters as they are now.
AnswerSoFar ==
  /\ loaded \in 0..2 /\ entered \in Nat /\ answer \in [active : Nat, executed : Nat]
  /\ loaded > 0 => active <= answer.active + entered
  /\ loaded = 1 => Cardinality(Entering) <= answer.active + entered
  /\ loaded = 2 =>
       /\ answer.executed <= executed
       /\ executed + Cardinality(Entering) <= answer.executed + answer.active + entered

HealthInv == IInv /\ AnswerSoFar

\* Nothing has been loaded before the first poll.
LEMMA InitHealthInv == Init /\ HealthInit => HealthInv
  BY InitIInv DEF HealthInit, HealthInv, AnswerSoFar, Blank

\* Every step of a request and every load of a poll keeps the invariant.
LEMMA NextHealthInv == HealthInv /\ [HealthNext]_<<vars, probe>> => HealthInv'
<1>. SUFFICES ASSUME HealthInv, [HealthNext]_<<vars, probe>> PROVE HealthInv'
  OBVIOUS
<1>0. /\ Cardinality(Entering) \in Nat /\ active \in Nat /\ executed \in Nat /\ IInv /\ AnswerSoFar
      /\ Cardinality(Entering) <= active
  <2>1. Entering \subseteq Inside  BY DEF Entering, Inside
  <2>. QED
    BY <2>1, EnteringFinite, CountersNatural, SetsFinite, FS_Subset
    DEF HealthInv, IInv, ActiveIsOpen
<1>1. CASE Serve
  <2>1. IInv'  BY <1>0, <1>1, NextIInv DEF Serve
  <2>2. /\ active' <= active + Grown /\ executed' >= executed
        /\ executed' + Cardinality(Entering') <= executed + Cardinality(Entering) + Grown
    <3>1. CASE Quiescent
      <4>1. Entering' = Entering  BY <3>1 DEF Quiescent, vars, local, Entering
      <4>. QED  BY <1>0, <3>1, <4>1 DEF Quiescent, vars, counters, Grown
    <3>. QED  BY <1>0, <1>1, <3>1, StepEntered DEF Serve, Next
  <2>3. UNCHANGED <<loaded, answer>> /\ entered' = IF loaded > 0 THEN entered + Grown ELSE entered
    BY <1>1, <1>0 DEF Serve, Grown, AnswerSoFar
  <2>4. Cardinality(Entering') \in Nat /\ active' \in Nat /\ executed' \in Nat
    <3>1. Entering' \subseteq Requests  BY DEF Entering
    <3>2. (IInv => active \in Nat /\ executed \in Nat)'  BY CountersNatural, PTL
    <3>. QED  BY <2>1, <3>1, <3>2, RequestsAssumption, FS_Subset, FS_CardinalityType
  <2>. QED  BY <1>0, <2>1, <2>2, <2>3, <2>4 DEF HealthInv, AnswerSoFar, Grown
<1>2. CASE (LoadActive \/ LoadExecuted \/ LoadErrors) /\ UNCHANGED vars
  <2>1. /\ IInv' /\ Entering' = Entering /\ UNCHANGED <<active, executed>>
    BY <1>0, <1>2, NextIInv DEF vars, local, counters, Entering
  <2>2. AnswerSoFar'
    BY <1>0, <1>2, <2>1 DEF AnswerSoFar, LoadActive, LoadExecuted, LoadErrors, Blank
  <2>. QED  BY <2>1, <2>2 DEF HealthInv
<1>3. CASE UNCHANGED <<vars, probe>>
  <2>1. IInv' /\ Entering' = Entering
    BY <1>0, <1>3, NextIInv DEF vars, local, Entering
  <2>. QED  BY <1>0, <1>3, <2>1 DEF HealthInv, AnswerSoFar, vars, counters, probe
<1>. QED  BY <1>1, <1>2, <1>3 DEF HealthNext

\* server_register.go:51-70: the three loads are no snapshot, but the answer is off by no more
\* than the requests it shows active and those that entered meanwhile.
THEOREM HealthTrue == HealthSpec => AnswerBounded
<1>. DEFINE P == /\ errors <= answer.executed + answer.active + entered
                 /\ answer.active = 0 /\ entered = 0 =>
                      /\ answer.executed = executed
                      /\ errors + Cardinality({r \in Requests : exit[r] = "error" /\ pc[r] = "countError"})
                           = Cardinality({r \in Requests : exit[r] = "error"})
<1>1. HealthInv /\ LoadErrors => P
  <2>. SUFFICES ASSUME HealthInv, loaded = 2 PROVE P
    BY DEF LoadErrors
  <2>1. /\ Cardinality(Entering) \in Nat /\ active \in Nat /\ executed \in Nat /\ errors \in Nat
        /\ errors <= executed
    BY EnteringFinite, CountersNatural DEF HealthInv, IInv, CountersExact
  <2>2. errors <= answer.executed + answer.active + entered
    BY <2>1 DEF HealthInv, AnswerSoFar
  <2>3. ASSUME answer.active = 0, entered = 0
        PROVE  /\ answer.executed = executed
               /\ errors + Cardinality({r \in Requests : exit[r] = "error" /\ pc[r] = "countError"})
                    = Cardinality({r \in Requests : exit[r] = "error"})
    <3>. DEFINE late == {r \in Requests : exit[r] = "error" /\ pc[r] = "countError"}
                all  == {r \in Requests : exit[r] = "error"}
    <3>1. answer.executed = executed /\ active = 0
      BY <2>1, <2>3 DEF HealthInv, AnswerSoFar
    <3>2. Inside = {}
      BY <3>1, SetsFinite, FS_EmptySet DEF HealthInv, IInv, ActiveIsOpen
    <3>3. all = Failed \union late /\ Failed \cap late = {}
      BY <3>2 DEF Failed, Inside
    <3>4. IsFiniteSet(late) /\ IsFiniteSet(Failed)
      BY RequestsAssumption, SetsFinite, FS_Subset
    <3>. HIDE DEF late, all
    <3>5. Cardinality(all) = Cardinality(Failed) + Cardinality(late) - Cardinality({})
      BY <3>3, <3>4, FS_Union
    <3>6. Cardinality(Failed) \in Nat /\ Cardinality(late) \in Nat /\ Cardinality({}) = 0
      BY <3>4, FS_CardinalityType, FS_EmptySet
    <3>7. errors + Cardinality(late) = Cardinality(all)
      BY <3>5, <3>6 DEF HealthInv, IInv, CountersExact
    <3>. QED  BY <3>1, <3>7 DEF late, all
  <2>. QED  BY <2>2, <2>3
<1>. HIDE DEF P
<1>2. HealthInv /\ [HealthNext]_<<vars, probe>> => [LoadErrors => P]_<<vars, probe>>
  BY <1>1
<1>3. HealthSpec => [][LoadErrors => P]_<<vars, probe>>
  BY <1>2, InitHealthInv, NextHealthInv, PTL DEF HealthSpec
<1>. QED  BY <1>3, PTL DEF AnswerBounded, P

===============================================================================
