------------------------------ MODULE ApiService ------------------------------
(***************************************************************************)
(* What the JSON API promises of one request, without saying how.          *)
(*                                                                         *)
(* A request is accepted, possibly enters the service, possibly has its    *)
(* business callback run - once - leaves the service and is then answered, *)
(* or its connection is dropped.  The gauge published by GET <path>/health *)
(* is the number of requests that are inside the service: entering and     *)
(* leaving are atomic here.  Module Pipeline, where they are several       *)
(* atomic memory operations each, is checked to implement this one.        *)
(***************************************************************************)
EXTENDS Naturals

CONSTANT Requests

VARIABLES stage, ran, gauge

vars == <<stage, ran, gauge>>

Stages == {"idle", "accepted", "serving", "served", "answered", "dropped"}

Init ==
  /\ stage = [r \in Requests |-> "idle"]
  /\ ran   = [r \in Requests |-> 0]
  /\ gauge = 0

Move(r, from, to) ==
  /\ stage[r] = from
  /\ stage'   = [stage EXCEPT ![r] = to]

Accept(r) == Move(r, "idle", "accepted") /\ UNCHANGED <<ran, gauge>>

Enter(r) == Move(r, "accepted", "serving") /\ gauge' = gauge + 1 /\ UNCHANGED ran

Execute(r) ==
  /\ stage[r] = "serving"
  /\ ran[r] = 0
  /\ ran' = [ran EXCEPT ![r] = 1]
  /\ UNCHANGED <<stage, gauge>>

Leave(r) == Move(r, "serving", "served") /\ gauge' = gauge - 1 /\ UNCHANGED ran

\* A request refused before it entered is answered from "accepted".
Close(r, how) ==
  /\ \/ Move(r, "accepted", how)
     \/ Move(r, "served", how)
  /\ UNCHANGED <<ran, gauge>>

Answer(r) == Close(r, "answered")
Drop(r)   == Close(r, "dropped")

Step(r) == Enter(r) \/ Execute(r) \/ Leave(r) \/ Answer(r) \/ Drop(r)

Next == \E r \in Requests : Accept(r) \/ Step(r)

Fairness == \A r \in Requests : WF_vars(Step(r))

Spec == Init /\ [][Next]_vars /\ Fairness

===============================================================================
