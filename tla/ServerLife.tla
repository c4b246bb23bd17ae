------------------------------ MODULE ServerLife ------------------------------
(***************************************************************************)
(* What the server promises of its life, without saying how.               *)
(*                                                                         *)
(* It opens its door, lets itself be listed, leaves the list, shuts the    *)
(* door, waits for the requests it is handling, cleans up its backends and *)
(* stops. It may crash at any moment. There are no signals, channels or    *)
(* goroutines here, and no connection is half accepted. Module Lifecycle   *)
(* is shown to implement this one.                                         *)
(***************************************************************************)
CONSTANTS Requests, Backends

VARIABLES phase, listed, life, cleaned

vars == <<phase, listed, life, cleaned>>

Init ==
  /\ phase = "starting"
  /\ listed = FALSE
  /\ life = [r \in Requests |-> "outside"]
  /\ cleaned = {}

Enter(from, to) == phase = from /\ phase' = to

Move(r, from, to) == life[r] = from /\ life' = [life EXCEPT ![r] = to]

Idle == \A r \in Requests : life[r] # "handling"

Open == Enter("starting", "open") /\ UNCHANGED <<listed, life, cleaned>>

List == phase = "open" /\ listed' = TRUE /\ UNCHANGED <<phase, life, cleaned>>

\* Not listed any more, and never again, before the door is shut.
Leave == Enter("open", "leaving") /\ listed' = FALSE /\ UNCHANGED <<life, cleaned>>

Shut == Enter("leaving", "draining") /\ UNCHANGED <<listed, life, cleaned>>

\* Each request is handled once; none begins behind a shut door.
Begin(r) ==
  /\ phase \in {"open", "leaving"}
  /\ Move(r, "outside", "handling")
  /\ UNCHANGED <<phase, listed, cleaned>>

End(r) ==
  /\ phase \in {"open", "leaving", "draining"}
  /\ Move(r, "handling", "done")
  /\ UNCHANGED <<phase, listed, cleaned>>

\* Each backend is cleaned up once, under no request.
Clean(b) ==
  /\ phase = "draining" /\ Idle
  /\ b \notin cleaned
  /\ cleaned' = cleaned \union {b}
  /\ UNCHANGED <<phase, listed, life>>

Stop ==
  /\ Idle /\ cleaned = Backends
  /\ Enter("draining", "stopped")
  /\ UNCHANGED <<listed, life, cleaned>>

Crash ==
  /\ phase \notin {"stopped", "crashed"}
  /\ phase' = "crashed"
  /\ UNCHANGED <<listed, life, cleaned>>

Next ==
  \/ Open \/ List \/ Leave \/ Shut \/ Stop \/ Crash
  \/ \E r \in Requests : Begin(r) \/ End(r)
  \/ \E b \in Backends : Clean(b)

Spec == Init /\ [][Next]_vars

===============================================================================
