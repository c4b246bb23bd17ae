---------------------------- MODULE PipelineProofs ----------------------------
(***************************************************************************)
(* Theorems about Pipeline for any requests, messages and configurations.  *)
(*                                                                         *)
(* The counters are correct because of where a request is: its place and   *)
(* its exit decide which counters include it (Control says which places    *)
(* have an exit). ActiveIsOpen is needed even for the type of the gauge:   *)
(* that the request at DecAdd is one of those the gauge counts is what     *)
(* keeps it from becoming negative.                                        *)
(***************************************************************************)
EXTENDS Pipeline, FiniteSetTheorems, TLAPS

\* The places of a request before and after its closure was left.
Control ==
  \A r \in Requests :
    /\ pc[r] \in {"idle", "incActive", "incExecuted", "dispatch", "callback"} => exit[r] = "none"
    /\ pc[r] \in {"decLoad", "decAdd", "countError", "sign"} => exit[r] # "none"
    /\ pc[r] = "sign" => exit[r] = "return"

\* Every code the model uses is one of Codes.
LEMMA CodesTyped ==
  /\ Code.Success \in Codes /\ Code.ServerInternalError \in Codes
  /\ Code.DataValidateException \in Codes /\ Code.EndpointNotFound \in Codes
  /\ Code.OperationNotFound \in Codes /\ Code.OperationHandlerIssue \in Codes
  /\ Code.BackendIssue \in Codes /\ Code.InvalidSignature \in Codes
  /\ Code.BindRequestData \in Codes /\ Code.HandleRequest \in Codes
  /\ Code.FailedDecodeArgs \in Codes /\ Code.Unauthorized \in Codes
<1>1. \A c \in DOMAIN Code : Code[c] \in Codes  BY DEF Codes
<1>. QED  BY <1>1 DEF Code

\* A refusal is a code.
LEMMA RefusalTyped == \A m : Refusal(m) \in Codes
<1>1. \A b, p, n, a : Misrouted(b, p, n, a) \in Codes  BY CodesTyped DEF Misrouted
<1>. QED  BY <1>1, CodesTyped DEF Refusal

\* However a callback or its hook ends, it leaves a response.
LEMMA ReturnedTyped ==
  /\ Panics \subseteq Returned
  /\ \A e \in Returned : /\ e.code \in Codes
                         /\ e.content \in Contents
                         /\ e.said \in SUBSET Codes
                         /\ e.exit \in {"return", "error", "panic"}
<1>1. Chosen \subseteq Codes  BY DEF Codes
<1>2. Panics \subseteq Returned  BY DEF Returned
<1>3. ASSUME NEW e \in Returned
      PROVE  e.code \in Codes /\ e.content \in Contents /\ e.said \in SUBSET Codes
             /\ e.exit \in {"return", "error", "panic"}
  <2>1. CASE e \in Replies  BY <1>1, <2>1, CodesTyped DEF Replies, Ending, Contents
  <2>2. CASE e \in Wrapped  BY <1>1, <2>2 DEF Wrapped, Ending, Contents
  <2>3. CASE e \in Panics  BY <2>3, CodesTyped DEF Panics, Ending, Contents
  <2>. QED  BY <2>1, <2>2, <2>3 DEF Returned
<1>. QED  BY <1>2, <1>3

\* A callback that returns or panics and a hook that panics leave the closure alike.
LEMMA Endings ==
  ASSUME NEW r \in Requests, Return(r) \/ HookPanics(r)
  PROVE  \E e \in Returned, from \in {"dispatch", "callback"} : End(r, from, e, "decLoad")
  BY ReturnedTyped DEF Return, HookPanics

\* WithCode and the other updates of one response keep every response a body.
LEMMA RespTyped ==
  ASSUME NEW f \in [Requests -> Body], NEW r \in Requests
  PROVE  /\ \A c \in Codes : [f EXCEPT ![r].code = c] \in [Requests -> Body]
         /\ \A c \in Codes, x \in Contents :
              [f EXCEPT ![r].code = c, ![r].content = x] \in [Requests -> Body]
         /\ \A d \in Digests : [f EXCEPT ![r].sign = d] \in [Requests -> Body]
  BY DEF Body

\* A digest is a signature.
LEMMA DigestTyped == \A b \in Body : Digest(b) \in Digests
  BY DEF Body, Digest, Digests, Contents

-------------------------------------------------------------------------------
(* The inductive invariant. *)

\* The types; that the counters are naturals follows from what they count.
Shaped ==
  /\ conf \in Settings
  /\ msg \in [Requests -> Messages]
  /\ pc \in [Requests -> Places]
  /\ resp \in [Requests -> Body]
  /\ exit \in [Requests -> {"none", "return", "error", "panic"}]
  /\ ran \in [Requests -> Nat]
  /\ said \in [Requests -> SUBSET Codes]
  /\ out \in [Requests -> Seq(Body)]
  /\ gone \subseteq Requests

IInv == Shaped /\ Control /\ ActiveIsOpen /\ CountersExact

\* No request has been read and nothing is counted.
LEMMA InitIInv == Init => IInv
<1>. SUFFICES ASSUME Init PROVE IInv
  OBVIOUS
<1>1. Shaped
  BY CodesTyped DEF Init, Shaped, Body, Contents, Digests, Places
<1>2. Control
  BY DEF Init, Control
<1>3. Inside = {} /\ Counted = {} /\ Failed = {}
  BY DEF Init, Inside, Counted, Failed
<1>. QED  BY <1>1, <1>2, <1>3, FS_EmptySet DEF Init, IInv, ActiveIsOpen, CountersExact

\* Setting a code keeps the shape of the responses,
LEMMA WithCodeShaped ==
  ASSUME Shaped, NEW r \in Requests, NEW c \in Codes, WithCode(r, c)
  PROVE  resp' \in [Requests -> Body]
<1>1. resp \in [Requests -> Body]  BY DEF Shaped
<1>2. [resp EXCEPT ![r].code = c] \in [Requests -> Body]  BY <1>1, RespTyped
<1>. QED  BY <1>2 DEF WithCode

\* and so does appending a body to what was written.
LEMMA AppendShaped ==
  ASSUME NEW f \in [Requests -> Seq(Body)], NEW r \in Requests, NEW b \in Body
  PROVE  [f EXCEPT ![r] = Append(@, b)] \in [Requests -> Seq(Body)]
<1>1. Append(f[r], b) \in Seq(Body)  OBVIOUS
<1>. QED  BY <1>1

\* Reading a request keeps the shape of the state,
LEMMA ReceiveShaped ==
  ASSUME Shaped, NEW r \in Requests, Receive(r)
  PROVE  Shaped'
<1>1. pc' \in [Requests -> Places]
  BY DEF Shaped, Receive, Unbound, Unverifiable, Unverified, Verified, At, Places
<1>2. resp' \in [Requests -> Body]
  <2>1. CASE resp' = resp  BY <2>1 DEF Shaped
  <2>2. CASE WithCode(r, Code.BindRequestData)  BY <2>2, CodesTyped, WithCodeShaped
  <2>3. CASE WithCode(r, Code.InvalidSignature)  BY <2>3, CodesTyped, WithCodeShaped
  <2>. QED  BY <2>1, <2>2, <2>3 DEF Receive, Unbound, Unverifiable, Unverified, Verified
<1>. QED  BY <1>1, <1>2 DEF Shaped, Receive

\* and so does every later step.
LEMMA StepShaped ==
  ASSUME Shaped, NEW r \in Requests, Step(r)
  PROVE  Shaped'
<1>1. CASE IncActive(r)
  BY <1>1 DEF Shaped, IncActive, At, Places
<1>2. CASE IncExecuted(r)
  BY <1>2 DEF Shaped, IncExecuted, CountExecuted, At, Places
<1>3. CASE Execute(r)
  BY <1>3 DEF Shaped, Execute, At, Places
<1>4. CASE Refuse(r)
  <2>1. pc' \in [Requests -> Places]  BY <1>4 DEF Shaped, Refuse, At, Places
  <2>2. resp' \in [Requests -> Body]
    <3>. DEFINE code == Refusal(msg[r])
    <3>1. code \in Codes  BY RefusalTyped
    <3>2. WithCode(r, code)  BY <1>4 DEF Refuse
    <3>. HIDE DEF code
    <3>. QED  BY <3>1, <3>2, WithCodeShaped
  <2>3. exit' \in [Requests -> {"none", "return", "error", "panic"}]
    BY <1>4 DEF Shaped, Refuse, Leave
  <2>. QED  BY <1>4, <2>1, <2>2, <2>3 DEF Shaped, Refuse
<1>5. CASE DecLoad(r)
  BY <1>5 DEF Shaped, DecLoad, Load, At, Places
<1>6. CASE DecAdd(r)
  BY <1>6 DEF Shaped, DecAdd, Subtract, At, Places
<1>7. CASE CountError(r)
  BY <1>7 DEF Shaped, CountError, At, Places
<1>8. CASE Sign(r)
  <2>1. pc' \in [Requests -> Places]  BY <1>8 DEF Shaped, Sign, At, Places
  <2>2. resp' \in [Requests -> Body]
    <3>. DEFINE d == Digest(resp[r])
    <3>1. resp \in [Requests -> Body] /\ d \in Digests  BY DigestTyped DEF Shaped
    <3>2. CASE resp' = resp  BY <3>1, <3>2
    <3>3. CASE resp' = [resp EXCEPT ![r].sign = d]
      <4>. HIDE DEF d
      <4>. QED  BY <3>1, <3>3, RespTyped
    <3>4. CASE WithCode(r, Code.InvalidSignature)  BY <3>4, CodesTyped, WithCodeShaped
    <3>. QED  BY <1>8, <3>2, <3>3, <3>4 DEF Sign
  <2>. QED  BY <1>8, <2>1, <2>2 DEF Shaped, Sign
<1>9. CASE Write(r)
  <2>1. pc' \in [Requests -> Places]  BY <1>9 DEF Shaped, Write, WriteThen, At, Places
  <2>2. out' \in [Requests -> Seq(Body)]
    <3>1. CASE out' = out  BY <3>1 DEF Shaped
    <3>2. CASE out' = [out EXCEPT ![r] = Append(@, resp[r])]
      BY <3>2, AppendShaped DEF Shaped
    <3>. QED  BY <1>9, <3>1, <3>2 DEF Write, WriteThen
  <2>. QED  BY <1>9, <2>1, <2>2 DEF Shaped, Write, WriteThen
<1>10. CASE Recover(r)
  <2>1. pc' \in [Requests -> Places]  BY <1>10 DEF Shaped, Recover, WriteAgain, At, Places
  <2>2. resp' \in [Requests -> Body]
    BY <1>10, CodesTyped, WithCodeShaped DEF Recover, WriteAgain
  <2>3. out' \in [Requests -> Seq(Body)]
    <3>1. CASE out' = out  BY <3>1 DEF Shaped
    <3>2. CASE out' = [out EXCEPT ![r] = Append(@, resp'[r])]
      BY <2>2, <3>2, AppendShaped DEF Shaped
    <3>. QED  BY <1>10, <3>1, <3>2 DEF Recover, WriteAgain
  <2>. QED  BY <1>10, <2>1, <2>2, <2>3 DEF Shaped, Recover, WriteAgain
<1>11. CASE Return(r) \/ HookPanics(r)
  <2>1. PICK e \in Returned, from \in {"dispatch", "callback"} : End(r, from, e, "decLoad")
    BY <1>11, Endings
  <2>2. pc' \in [Requests -> Places]  BY <2>1 DEF Shaped, End, At, Places
  <2>3. resp' \in [Requests -> Body]
    <3>. DEFINE c == e.code  x == e.content
    <3>1. c \in Codes /\ x \in Contents  BY ReturnedTyped
    <3>2. resp' = [resp EXCEPT ![r].code = c, ![r].content = x]  BY <2>1 DEF End
    <3>3. resp \in [Requests -> Body]  BY DEF Shaped
    <3>. HIDE DEF c, x
    <3>. QED  BY <3>1, <3>2, <3>3, RespTyped
  <2>4. exit' \in [Requests -> {"none", "return", "error", "panic"}]
    BY <2>1, ReturnedTyped DEF Shaped, End, Leave
  <2>5. said' \in [Requests -> SUBSET Codes]
    <3>. DEFINE own == e.said
    <3>1. own \in SUBSET Codes  BY ReturnedTyped
    <3>2. said' = [said EXCEPT ![r] = own]  BY <2>1 DEF End
    <3>. HIDE DEF own
    <3>. QED  BY <3>1, <3>2 DEF Shaped
  <2>. QED  BY <2>1, <2>2, <2>3, <2>4, <2>5 DEF Shaped, End
<1>. QED  BY <1>1, <1>2, <1>3, <1>4, <1>5, <1>6, <1>7, <1>8, <1>9, <1>10, <1>11 DEF Step, Dispatch

-------------------------------------------------------------------------------
(* The sets of requests the counters count, and what each step does to them. *)

LEMMA SetsFinite == IsFiniteSet(Inside) /\ IsFiniteSet(Counted) /\ IsFiniteSet(Failed)
<1>1. Inside \subseteq Requests /\ Counted \subseteq Requests /\ Failed \subseteq Requests
  BY DEF Inside, Counted, Failed
<1>. QED  BY <1>1, RequestsAssumption, FS_Subset

\* Errors never exceeds Executed: whoever failed had been counted.
LEMMA FailedCounted == Cardinality(Failed) <= Cardinality(Counted)
<1>1. Failed \subseteq Counted
  BY DEF Failed, Counted
<1>. QED  BY <1>1, SetsFinite, FS_Subset

\* The gauge of a request that is inside is at least one.
LEMMA InsideCounted ==
  ASSUME NEW r \in Inside
  PROVE  Cardinality(Inside) \in Nat /\ Cardinality(Inside) > 0
  BY SetsFinite, FS_CardinalityType, FS_EmptySet

\* A step that moves r inside the closure, or outside it, leaves the counters.
LEMMA SetsKept ==
  ASSUME Inside' = Inside, Counted' = Counted, Failed' = Failed, UNCHANGED counters,
         ActiveIsOpen, CountersExact
  PROVE  ActiveIsOpen' /\ CountersExact'
  BY DEF ActiveIsOpen, CountersExact, counters

\* The counted sets depend on pc and exit only, and r is the only one to move.
LEMMA Moves ==
  ASSUME Shaped, NEW r \in Requests, NEW p, NEW q, At(r, p, q)
  PROVE  /\ pc[r] = p
         /\ pc'[r] = q
         /\ \A s \in Requests \ {r} : pc'[s] = pc[s]
  BY DEF Shaped, At

\* Reading a request counts nothing.
LEMMA ReceiveKeeps ==
  ASSUME IInv, NEW r \in Requests, Receive(r)
  PROVE  Control' /\ ActiveIsOpen' /\ CountersExact'
<1>1. /\ pc[r] = "idle" /\ pc'[r] \in {"write", "panic", "incActive"}
      /\ \A s \in Requests \ {r} : pc'[s] = pc[s]
  BY Moves DEF IInv, Receive, Unbound, Unverifiable, Unverified, Verified
<1>2. exit' = exit /\ UNCHANGED counters
  BY DEF Receive
<1>3. Control'
  BY <1>1, <1>2 DEF IInv, Control
<1>4. Inside' = Inside /\ Counted' = Counted /\ Failed' = Failed
  <2>1. exit[r] = "none"  BY <1>1 DEF IInv, Control
  <2>. QED  BY <1>1, <1>2, <2>1 DEF Inside, Counted, Failed
<1>. QED  BY <1>2, <1>3, <1>4, SetsKept DEF IInv

\* Every later step moves one request and the counters together.
LEMMA StepKeeps ==
  ASSUME IInv, NEW r \in Requests, Step(r)
  PROVE  Control' /\ ActiveIsOpen' /\ CountersExact'
<1>. USE DEF IInv
<1>1. CASE IncActive(r)
  <2>1. /\ pc[r] = "incActive" /\ pc'[r] = "incExecuted" /\ exit' = exit
        /\ \A s \in Requests \ {r} : pc'[s] = pc[s]
    BY <1>1, Moves DEF IncActive
  <2>2. Control'  BY <2>1 DEF Control
  <2>3. exit[r] = "none"  BY <2>1 DEF Control
  <2>4. Inside' = Inside \union {r} /\ r \notin Inside  BY <2>1 DEF Inside
  <2>5. Counted' = Counted /\ Failed' = Failed  BY <2>1, <2>3 DEF Inside, Counted, Failed
  <2>6. Cardinality(Inside \union {r}) = Cardinality(Inside) + 1
    BY <2>4, SetsFinite, FS_AddElement
  <2>7. ActiveIsOpen'
    BY <1>1, <2>4, <2>6 DEF ActiveIsOpen, IncActive
  <2>. QED  BY <1>1, <2>2, <2>5, <2>7 DEF CountersExact, IncActive
<1>2. CASE IncExecuted(r)
  <2>1. /\ pc[r] = "incExecuted" /\ pc'[r] = "dispatch" /\ exit' = exit
        /\ \A s \in Requests \ {r} : pc'[s] = pc[s]
    BY <1>2, Moves DEF IncExecuted, CountExecuted
  <2>2. Control'  BY <2>1 DEF Control
  <2>3. exit[r] = "none"  BY <2>1 DEF Control
  <2>4. Inside' = Inside /\ Failed' = Failed  BY <2>1, <2>3 DEF Inside, Failed
  <2>5. Counted' = Counted \union {r} /\ r \notin Counted  BY <2>1, <2>3 DEF Inside, Counted
  <2>6. Cardinality(Counted \union {r}) = Cardinality(Counted) + 1
    BY <2>5, SetsFinite, FS_AddElement
  <2>7. Cardinality(Counted) \in Nat  BY SetsFinite, FS_CardinalityType
  <2>8. Cardinality(Failed) \in Nat  BY SetsFinite, FS_CardinalityType
  <2>9. CountersExact'
    BY <1>2, <2>4, <2>5, <2>6, <2>7, <2>8 DEF CountersExact, IncExecuted, CountExecuted
  <2>. QED  BY <1>2, <2>2, <2>4, <2>9 DEF ActiveIsOpen, IncExecuted, CountExecuted
<1>3. CASE Execute(r) \/ Refuse(r)
  <2>1. /\ pc[r] = "dispatch"
        /\ \/ pc'[r] = "callback" /\ exit' = exit
           \/ pc'[r] = "decLoad" /\ exit' = [exit EXCEPT ![r] = "error"]
        /\ \A s \in Requests \ {r} : pc'[s] = pc[s]
    BY <1>3, Moves DEF Execute, Refuse, Leave
  <2>2. exit'[r] \in {"none", "error"} /\ \A s \in Requests \ {r} : exit'[s] = exit[s]
    BY <2>1 DEF Shaped, Control
  <2>3. Control'  BY <2>1, <2>2 DEF Shaped, Control
  <2>4. exit[r] = "none"  BY <2>1 DEF Control
  <2>5. Inside' = Inside /\ Counted' = Counted /\ Failed' = Failed
    BY <2>1, <2>2, <2>4 DEF Inside, Counted, Failed
  <2>. QED  BY <1>3, <2>3, <2>5, SetsKept DEF Execute, Refuse
<1>4. CASE Return(r) \/ HookPanics(r)
  <2>1. PICK e \in Returned, from \in {"dispatch", "callback"} : End(r, from, e, "decLoad")
    BY <1>4, Endings
  <2>2. /\ pc[r] \in {"dispatch", "callback"} /\ pc'[r] = "decLoad"
        /\ \A s \in Requests \ {r} : pc'[s] = pc[s]
    BY <2>1, Moves DEF End
  <2>3. exit'[r] \in {"return", "error", "panic"} /\ \A s \in Requests \ {r} : exit'[s] = exit[s]
    BY <2>1, ReturnedTyped DEF End, Leave, Shaped
  <2>4. Control'  BY <2>2, <2>3 DEF Control
  <2>5. exit[r] = "none"  BY <2>2 DEF Control
  <2>6. Inside' = Inside /\ Counted' = Counted /\ Failed' = Failed
    BY <2>2, <2>3, <2>5 DEF Inside, Counted, Failed
  <2>. QED  BY <2>1, <2>4, <2>6, SetsKept DEF End
<1>5. CASE DecLoad(r)
  \* The gauge counts r itself, so the load never sees zero.
  <2>1. pc[r] = "decLoad"  BY <1>5 DEF DecLoad, Load, At
  <2>2. active > 0  BY <2>1, SetsFinite, InsideCounted DEF ActiveIsOpen, Inside
  <2>3. pc'[r] = "decAdd" /\ exit' = exit /\ \A s \in Requests \ {r} : pc'[s] = pc[s]
    BY <1>5, <2>2, Moves DEF DecLoad, Load
  <2>4. Control'  BY <2>1, <2>3 DEF Control
  <2>5. Inside' = Inside /\ Counted' = Counted /\ Failed' = Failed
    BY <2>1, <2>3 DEF Inside, Counted, Failed
  <2>. QED  BY <1>5, <2>4, <2>5, SetsKept DEF DecLoad, Load
<1>6. CASE DecAdd(r)
  <2>1. /\ pc[r] = "decAdd" /\ pc'[r] = "countError" /\ exit' = exit
        /\ \A s \in Requests \ {r} : pc'[s] = pc[s]
    BY <1>6, Moves DEF DecAdd, Subtract
  <2>2. Control'  BY <2>1 DEF Control
  <2>3. exit[r] # "none"  BY <2>1 DEF Control
  <2>4. Inside' = Inside \ {r} /\ r \in Inside  BY <2>1 DEF Inside
  <2>5. Counted' = Counted /\ Failed' = Failed  BY <2>1, <2>3 DEF Inside, Counted, Failed
  <2>6. Cardinality(Inside \ {r}) = Cardinality(Inside) - 1
    BY <2>4, SetsFinite, FS_RemoveElement
  <2>7. ActiveIsOpen'
    BY <1>6, <2>4, <2>6 DEF ActiveIsOpen, DecAdd, Subtract
  <2>. QED  BY <1>6, <2>2, <2>5, <2>7 DEF CountersExact, DecAdd, Subtract
<1>7. CASE CountError(r)
  <2>1. /\ pc[r] = "countError" /\ exit' = exit
        /\ \/ exit[r] = "return" /\ pc'[r] = "sign"
           \/ exit[r] = "error" /\ pc'[r] = "write"
           \/ exit[r] = "panic" /\ pc'[r] = "panic"
        /\ \A s \in Requests \ {r} : pc'[s] = pc[s]
    BY <1>7, Moves DEF CountError
  <2>2. Control'  BY <2>1 DEF Control
  <2>3. Inside' = Inside /\ Counted' = Counted  BY <2>1 DEF Inside, Counted
  <2>4. ActiveIsOpen'  BY <1>7, <2>3 DEF ActiveIsOpen, CountError
  <2>5. CASE exit[r] # "error"
    <3>1. Failed' = Failed  BY <2>1, <2>5 DEF Failed
    <3>2. errors' = errors  BY <1>7, <2>5 DEF CountError
    <3>. QED  BY <1>7, <2>2, <2>3, <2>4, <3>1, <3>2 DEF CountersExact, CountError
  <2>6. CASE exit[r] = "error"
    <3>1. Failed' = Failed \union {r} /\ r \notin Failed  BY <2>1, <2>6 DEF Failed
    <3>2. Cardinality(Failed \union {r}) = Cardinality(Failed) + 1
      BY <3>1, SetsFinite, FS_AddElement
    <3>3. errors' = errors + 1  BY <1>7, <2>6 DEF CountError
    <3>4. executed' = executed  BY <1>7 DEF CountError
    <3>5. Cardinality(Failed') <= Cardinality(Counted')
      <4>1. Failed' \subseteq Counted'  BY DEF Failed, Counted
      <4>2. IsFiniteSet(Counted')  BY <2>3, SetsFinite
      <4>. QED  BY <4>1, <4>2, FS_Subset
    <3>. QED  BY <2>2, <2>3, <2>4, <3>1, <3>2, <3>3, <3>4, <3>5 DEF CountersExact
  <2>. QED  BY <2>5, <2>6
<1>8. CASE Sign(r) \/ Write(r) \/ Recover(r)
  <2>1. /\ pc[r] \in {"sign", "write", "panic"} /\ pc'[r] \in {"write", "panic", "done", "aborted"}
        /\ \A s \in Requests \ {r} : pc'[s] = pc[s]
    BY <1>8, Moves DEF Sign, Write, WriteThen, Recover, WriteAgain
  <2>2. exit' = exit /\ UNCHANGED counters
    BY <1>8 DEF Sign, Write, WriteThen, Recover, WriteAgain
  <2>3. Control'  BY <2>1, <2>2 DEF Control
  <2>4. Inside' = Inside /\ Counted' = Counted /\ Failed' = Failed
    BY <2>1, <2>2 DEF Inside, Counted, Failed
  <2>. QED  BY <2>2, <2>3, <2>4, SetsKept
<1>. QED  BY <1>1, <1>2, <1>3, <1>4, <1>5, <1>6, <1>7, <1>8 DEF Step, Dispatch

\* Every step of every request keeps the invariant.
LEMMA NextIInv == IInv /\ [Next]_vars => IInv'
<1>. SUFFICES ASSUME IInv, [Next]_vars PROVE IInv'
  OBVIOUS
<1>1. CASE UNCHANGED vars
  BY <1>1 DEF vars, local, counters, IInv, Shaped, Control, ActiveIsOpen, CountersExact, Inside,
              Counted, Failed
<1>2. ASSUME NEW r \in Requests, Receive(r) PROVE IInv'
  BY <1>2, ReceiveShaped, ReceiveKeeps DEF IInv
<1>3. ASSUME NEW r \in Requests, Step(r) PROVE IInv'
  BY <1>3, StepShaped, StepKeeps DEF IInv
<1>. QED  BY <1>1, <1>2, <1>3 DEF Next, Quiescent

\* What each place of a request says of its response and of the counters is so, for
\* any number of requests and any interleaving: transport.go, server_backend.go, connection.go.
THEOREM Invariance == Spec => []IInv
  BY InitIInv, NextIInv, PTL DEF Spec

\* The gauge and the totals are exact whatever the number of requests, on every
\* path out of the closure: connection.go, server_backend.go:45-53.
THEOREM GaugeExact == Spec => []ActiveIsOpen
<1>1. IInv => ActiveIsOpen  BY DEF IInv
<1>. QED  BY <1>1, Invariance, PTL

\* Executed and Errors count the requests that were dispatched and that failed:
\* connection.go and the two deferred functions of server_backend.go:45-75.
THEOREM TotalsExact == Spec => []CountersExact
<1>1. IInv => CountersExact  BY DEF IInv
<1>. QED  BY <1>1, Invariance, PTL

\* In particular the signed gauge is never negative.
THEOREM TypeCorrect == Spec => []TypeOK
<1>1. IInv => TypeOK
  <2>. SUFFICES ASSUME IInv PROVE TypeOK
    OBVIOUS
  <2>1. Cardinality(Inside) \in Nat /\ Cardinality(Counted) \in Nat /\ Cardinality(Failed) \in Nat
    BY SetsFinite, FS_CardinalityType
  <2>. QED  BY <2>1 DEF IInv, Shaped, ActiveIsOpen, CountersExact, TypeOK
<1>. QED  BY <1>1, Invariance, PTL

-------------------------------------------------------------------------------
(* At most one execution and at most one answer. *)

Once ==
  \A r \in Requests :
    /\ pc[r] \in {"idle", "incActive", "incExecuted", "dispatch"} => ran[r] = 0
    /\ ran[r] <= 1
    /\ IF pc[r] = "done" THEN Len(out[r]) = 1 ELSE out[r] = << >>

\* Only Dispatch executes, only Write and Recover answer, and they end in "done".
LEMMA NextOnce == Shaped /\ Once /\ [Next]_vars => Once'
<1>. SUFFICES ASSUME Shaped, Once, [Next]_vars PROVE Once'
  OBVIOUS
<1>1. CASE UNCHANGED vars
  BY <1>1 DEF vars, local, Once
<1>2. ASSUME NEW r \in Requests, Receive(r) PROVE Once'
  <2>1. /\ pc[r] = "idle" /\ pc'[r] \in {"write", "panic", "incActive"}
        /\ \A s \in Requests \ {r} : pc'[s] = pc[s]
    BY <1>2, Moves DEF Receive, Unbound, Unverifiable, Unverified, Verified
  <2>. QED  BY <1>2, <2>1 DEF Once, Receive
<1>3. ASSUME NEW r \in Requests, Step(r) PROVE Once'
  <2>1. CASE IncActive(r) \/ IncExecuted(r)
    <3>1. /\ pc[r] \in {"incActive", "incExecuted"} /\ pc'[r] \in {"incExecuted", "dispatch"}
          /\ \A s \in Requests \ {r} : pc'[s] = pc[s]
      BY <2>1, Moves DEF IncActive, IncExecuted, CountExecuted
    <3>. QED  BY <2>1, <3>1 DEF Once, IncActive, IncExecuted, CountExecuted
  <2>2. CASE Execute(r)
    <3>1. /\ pc[r] = "dispatch" /\ pc'[r] = "callback"
          /\ \A s \in Requests \ {r} : pc'[s] = pc[s]
      BY <2>2, Moves DEF Execute
    <3>2. ran'[r] = 1 /\ \A s \in Requests \ {r} : ran'[s] = ran[s]
      BY <2>2, <3>1 DEF Execute, Shaped, Once
    <3>. QED  BY <2>2, <3>1, <3>2 DEF Once, Execute
  <2>3. CASE Refuse(r) \/ DecLoad(r) \/ DecAdd(r) \/ CountError(r) \/ Sign(r)
    <3>1. /\ pc[r] \in {"dispatch", "decLoad", "decAdd", "countError", "sign"}
          /\ pc'[r] \in {"decLoad", "decAdd", "countError", "sign", "write", "panic"}
          /\ \A s \in Requests \ {r} : pc'[s] = pc[s]
      BY <2>3, Moves DEF Refuse, DecLoad, Load, DecAdd, Subtract, CountError, Sign
    <3>2. UNCHANGED <<ran, out>>
      BY <2>3 DEF Refuse, DecLoad, Load, DecAdd, Subtract, CountError, Sign
    <3>. QED  BY <3>1, <3>2 DEF Once
  <2>4. CASE Write(r) \/ Recover(r)
    <3>1. /\ pc[r] \in {"write", "panic"} /\ pc'[r] \in {"panic", "done", "aborted"}
          /\ \A s \in Requests \ {r} : pc'[s] = pc[s]
      BY <2>4, Moves DEF Write, WriteThen, Recover, WriteAgain
    <3>2. out[r] = << >>  BY <3>1 DEF Once
    <3>3. /\ IF pc'[r] = "done" THEN Len(out'[r]) = 1 ELSE out'[r] = << >>
          /\ \A s \in Requests \ {r} : out'[s] = out[s]
      <4>1. CASE pc'[r] # "done" /\ out' = out  BY <3>2, <4>1
      <4>2. ASSUME NEW b, out' = [out EXCEPT ![r] = Append(@, b)], pc'[r] = "done"
            PROVE  <3>3!2 /\ <3>3!1
        BY <3>2, <4>2 DEF Shaped
      <4>3. CASE Write(r)
        <5>1. \/ pc'[r] = "done" /\ out' = [out EXCEPT ![r] = Append(@, resp[r])]
              \/ pc'[r] = "panic" /\ out' = out
          BY <4>3, Moves DEF Write, WriteThen
        <5>. QED  BY <4>1, <4>2, <5>1
      <4>4. CASE Recover(r)
        <5>1. \/ pc'[r] = "done" /\ out' = [out EXCEPT ![r] = Append(@, resp'[r])]
              \/ pc'[r] = "aborted" /\ out' = out
          BY <4>4, Moves DEF Recover, WriteAgain
        <5>. QED  BY <4>1, <4>2, <5>1
      <4>. QED  BY <2>4, <4>3, <4>4
    <3>4. ran' = ran  BY <2>4 DEF Write, WriteThen, Recover, WriteAgain
    <3>. QED  BY <3>1, <3>3, <3>4 DEF Once
  <2>5. CASE Return(r) \/ HookPanics(r)
    <3>1. PICK e \in Returned, from \in {"dispatch", "callback"} : End(r, from, e, "decLoad")
      BY <2>5, Endings
    <3>2. /\ pc[r] \in {"dispatch", "callback"} /\ pc'[r] = "decLoad" /\ UNCHANGED <<ran, out>>
          /\ \A s \in Requests \ {r} : pc'[s] = pc[s]
      BY <3>1, Moves DEF End
    <3>. QED  BY <3>2 DEF Once
  <2>. QED  BY <1>3, <2>1, <2>2, <2>3, <2>4, <2>5 DEF Step, Dispatch
<1>. QED  BY <1>1, <1>2, <1>3 DEF Next, Quiescent

\* The callback has run as often as the place of the request says.
LEMMA OnceInvariant == Spec => []Once
<1>1. Init => Once  BY DEF Init, Once
<1>2. IInv => Shaped  BY DEF IInv
<1>. QED  BY <1>1, <1>2, Invariance, NextOnce, PTL DEF Spec

\* No request runs its callback twice or is answered by two complete bodies, although
\* the recover of transport.go may write after a write: transport.go:46-110.
THEOREM ExecutedAndAnsweredOnce == Spec => []AtMostOnce
<1>1. Shaped /\ Once => AtMostOnce
  <2>. SUFFICES ASSUME Shaped, Once, NEW r \in Requests
                PROVE  ran[r] <= 1 /\ Len(out[r]) <= 1 /\ (out[r] # << >> <=> pc[r] = "done")
    BY DEF AtMostOnce
  <2>1. Len(<< >>) = 0  OBVIOUS
  <2>2. CASE pc[r] = "done"
    <3>1. Len(out[r]) = 1 /\ ran[r] <= 1  BY <2>2 DEF Once
    <3>2. ASSUME out[r] = << >> PROVE FALSE
      <4>1. Len(out[r]) = 0  BY <2>1, <3>2, Zenon
      <4>. QED  BY <3>1, <4>1
    <3>. QED  BY <2>2, <3>1, <3>2
  <2>3. CASE pc[r] # "done"  BY <2>1, <2>3 DEF Once
  <2>. QED  BY <2>2, <2>3
<1>2. IInv => Shaped  BY DEF IInv
<1>. QED  BY <1>1, <1>2, Invariance, OnceInvariant, PTL

-------------------------------------------------------------------------------
(* The steps of the pipeline are steps of ApiService. *)

\* When only r moves, only the stage of r changes.
LEMMA StageMoved ==
  ASSUME Shaped, NEW r \in Requests, NEW to, StageOf(r)' = to,
         \A s \in Requests \ {r} : pc'[s] = pc[s] /\ exit'[s] = exit[s]
  PROVE  [s \in Requests |-> StageOf(s)'] = [[s \in Requests |-> StageOf(s)] EXCEPT ![r] = to]
<1>1. \A s \in Requests \ {r} : StageOf(s)' = StageOf(s)
  BY DEF StageOf, Inside
<1>. QED  BY <1>1

\* Every step of a request is a step of ApiService for it, or a stutter.
LEMMA NextRefines == IInv /\ Once /\ [Next]_vars => [Abs!Next]_(Abs!vars)
<1>. SUFFICES ASSUME IInv, Once, [Next]_vars PROVE [Abs!Next]_(Abs!vars)
  OBVIOUS
<1>. USE DEF IInv
<1>1. CASE UNCHANGED vars
  BY <1>1 DEF vars, local, counters, Abs!vars, StageOf, Inside
<1>2. ASSUME NEW r \in Requests, Receive(r) PROVE [Abs!Next]_(Abs!vars)
  <2>1. /\ pc[r] = "idle" /\ pc'[r] \in {"write", "panic", "incActive"}
        /\ \A s \in Requests \ {r} : pc'[s] = pc[s]
    BY <1>2, Moves DEF Receive, Unbound, Unverifiable, Unverified, Verified
  <2>2. exit' = exit /\ exit[r] = "none" /\ ran' = ran /\ active' = active
    BY <1>2, <2>1 DEF Receive, counters, Control
  <2>3. StageOf(r) = "idle" /\ StageOf(r)' = "accepted"
    BY <2>1, <2>2 DEF StageOf, Inside
  <2>4. Abs!Accept(r)
    BY <2>1, <2>2, <2>3, StageMoved DEF Abs!Accept, Abs!Move
  <2>. QED  BY <2>4 DEF Abs!Next
<1>3. ASSUME NEW r \in Requests, Step(r) PROVE [Abs!Next]_(Abs!vars)
  <2>1. CASE IncActive(r)
    <3>1. /\ pc[r] = "incActive" /\ pc'[r] = "incExecuted" /\ exit' = exit
          /\ \A s \in Requests \ {r} : pc'[s] = pc[s]
      BY <2>1, Moves DEF IncActive
    <3>2. StageOf(r) = "accepted" /\ StageOf(r)' = "serving"
      BY <3>1 DEF StageOf, Inside, Control
    <3>3. Abs!Enter(r)
      BY <2>1, <3>1, <3>2, StageMoved DEF IncActive, Abs!Enter, Abs!Move
    <3>. QED  BY <3>3 DEF Abs!Next, Abs!Step
  <2>2. CASE IncExecuted(r) \/ DecLoad(r)
    \* Inside the closure nothing the abstraction sees changes.
    <3>1. pc[r] = "decLoad" => active > 0
      BY SetsFinite, InsideCounted DEF ActiveIsOpen, Inside
    <3>2. /\ pc[r] \in {"incExecuted", "decLoad"} /\ pc'[r] \in {"dispatch", "decAdd"}
          /\ \A s \in Requests \ {r} : pc'[s] = pc[s]
      BY <2>2, <3>1, Moves DEF IncExecuted, CountExecuted, DecLoad, Load
    <3>3. exit' = exit /\ ran' = ran /\ active' = active
      BY <2>2 DEF IncExecuted, CountExecuted, DecLoad, Load, counters
    <3>4. \A s \in Requests : StageOf(s)' = StageOf(s)
      BY <3>2, <3>3 DEF StageOf, Inside
    <3>. QED  BY <3>3, <3>4 DEF Abs!vars
  <2>3. CASE Execute(r)
    <3>1. /\ pc[r] = "dispatch" /\ pc'[r] = "callback" /\ exit' = exit
          /\ \A s \in Requests \ {r} : pc'[s] = pc[s]
      BY <2>3, Moves DEF Execute
    <3>2. \A s \in Requests : StageOf(s)' = StageOf(s)
      BY <3>1 DEF StageOf, Inside
    <3>3. active' = active /\ StageOf(r) = "serving" /\ ran[r] = 0
      BY <2>3, <3>1 DEF Execute, counters, StageOf, Inside, Once
    <3>4. ran' = [ran EXCEPT ![r] = 1]
      BY <2>3, <3>3 DEF Execute, Shaped
    <3>. QED  BY <3>2, <3>3, <3>4 DEF Abs!Next, Abs!Step, Abs!Execute
  <2>4. CASE Return(r) \/ HookPanics(r)
    <3>1. PICK e \in Returned, from \in {"dispatch", "callback"} : End(r, from, e, "decLoad")
      BY <2>4, Endings
    <3>2. /\ pc[r] \in {"dispatch", "callback"} /\ pc'[r] = "decLoad"
          /\ \A s \in Requests \ {r} : pc'[s] = pc[s] /\ exit'[s] = exit[s]
      BY <3>1, Moves DEF End, Leave, Shaped
    <3>3. \A s \in Requests : StageOf(s)' = StageOf(s)
      BY <3>2 DEF StageOf, Inside
    <3>. QED  BY <3>1, <3>3 DEF End, counters, Abs!vars
  <2>5. CASE DecAdd(r)
    <3>1. /\ pc[r] = "decAdd" /\ pc'[r] = "countError" /\ exit' = exit
          /\ \A s \in Requests \ {r} : pc'[s] = pc[s]
      BY <2>5, Moves DEF DecAdd, Subtract
    <3>2. StageOf(r) = "serving" /\ StageOf(r)' = "served"
      BY <3>1 DEF StageOf, Inside, Control
    <3>3. Abs!Leave(r)
      BY <2>5, <3>1, <3>2, StageMoved DEF DecAdd, Subtract, Abs!Leave, Abs!Move
    <3>. QED  BY <3>3 DEF Abs!Next, Abs!Step
  <2>6. CASE CountError(r) \/ Sign(r)
    <3>1. /\ pc[r] \in {"countError", "sign"} /\ pc'[r] \in {"sign", "write", "panic"} /\ exit' = exit
          /\ \A s \in Requests \ {r} : pc'[s] = pc[s]
      BY <2>6, Moves DEF CountError, Sign
    <3>2. exit[r] # "none"  BY <3>1 DEF Control
    <3>3. \A s \in Requests : StageOf(s)' = StageOf(s)
      BY <3>1, <3>2 DEF StageOf, Inside
    <3>. QED  BY <2>6, <3>3 DEF CountError, Sign, counters, Abs!vars
  <2>7. CASE Write(r) \/ Recover(r)
    <3>1. /\ pc[r] \in {"write", "panic"} /\ pc'[r] \in {"panic", "done", "aborted"}
          /\ \A s \in Requests \ {r} : pc'[s] = pc[s]
      BY <2>7, Moves DEF Write, WriteThen, Recover, WriteAgain
    <3>2. exit' = exit /\ ran' = ran /\ active' = active
      BY <2>7 DEF Write, WriteThen, Recover, WriteAgain, counters
    <3>3. StageOf(r) \in {"accepted", "served"}
      BY <3>1 DEF StageOf, Inside
    <3>4. CASE pc'[r] = "panic"
      <4>1. \A s \in Requests : StageOf(s)' = StageOf(s)
        BY <3>1, <3>2, <3>4 DEF StageOf, Inside
      <4>. QED  BY <3>2, <4>1 DEF Abs!vars
    <3>5. CASE pc'[r] = "done"
      <4>1. StageOf(r)' = "answered"  BY <3>5 DEF StageOf, Inside
      <4>2. Abs!Answer(r)
        BY <3>1, <3>2, <3>3, <4>1, StageMoved DEF Abs!Answer, Abs!Close, Abs!Move
      <4>. QED  BY <4>2 DEF Abs!Next, Abs!Step
    <3>6. CASE pc'[r] = "aborted"
      <4>1. StageOf(r)' = "dropped"  BY <3>6 DEF StageOf, Inside
      <4>2. Abs!Drop(r)
        BY <3>1, <3>2, <3>3, <4>1, StageMoved DEF Abs!Drop, Abs!Close, Abs!Move
      <4>. QED  BY <4>2 DEF Abs!Next, Abs!Step
    <3>. QED  BY <3>1, <3>4, <3>5, <3>6
  <2>8. CASE Refuse(r)
    <3>1. /\ pc[r] = "dispatch" /\ pc'[r] = "decLoad"
          /\ \A s \in Requests \ {r} : pc'[s] = pc[s] /\ exit'[s] = exit[s]
      BY <2>8, Moves DEF Refuse, Leave, Shaped
    <3>2. \A s \in Requests : StageOf(s)' = StageOf(s)
      BY <3>1 DEF StageOf, Inside
    <3>. QED  BY <2>8, <3>2 DEF Refuse, counters, Abs!vars
  <2>. QED  BY <1>3, <2>1, <2>2, <2>3, <2>4, <2>5, <2>6, <2>7, <2>8 DEF Step, Dispatch
<1>. QED  BY <1>1, <1>2, <1>3 DEF Next, Quiescent

\* The safety part of ImplementsApiService: TLC checks the fairness of Abs!Spec.
THEOREM Refinement == Spec => Abs!Init /\ [][Abs!Next]_(Abs!vars)
<1>1. Init => Abs!Init
  <2>. SUFFICES ASSUME Init PROVE Abs!Init
    OBVIOUS
  <2>1. \A r \in Requests : StageOf(r) = "idle"  BY DEF Init, StageOf, Inside
  <2>. QED  BY <2>1 DEF Init, Abs!Init
<1>. QED  BY <1>1, Invariance, OnceInvariant, NextRefines, PTL DEF Spec

===============================================================================
