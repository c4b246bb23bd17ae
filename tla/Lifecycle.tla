------------------------------- MODULE Lifecycle -------------------------------
(***************************************************************************)
(* The life of the server process: Server.Start, Server.Stop and Cleanup,  *)
(* the Serve goroutine they start, the registration in consul, the signal  *)
(* channel, and the requests in flight.                                    *)
(*                                                                         *)
(* Five kinds of actors interleave: the goroutine in Start (main), the     *)
(* Serve goroutine (acceptor), goroutines that call Stop, the runtime that *)
(* delivers signals, and the connections. When the process exits they all  *)
(* cease, whatever they were doing.                                        *)
(***************************************************************************)
EXTENDS Naturals, FiniteSets

CONSTANTS
  Requests,    \* connections that may arrive
  Backends,    \* the registered backends
  Stoppers,    \* goroutines that each call Stop once
  MaxSignals   \* bound: signals sent to the process

ASSUME MaxSignalsAssumption == MaxSignals \in Nat

Signals == {"INT", "TERM"}

VARIABLES
  consul,      \* does the server have a consul client? fixed at start
  proc,        \* "up", or how the process exited: "ok", "fatal", "panic"
  main,        \* where the goroutine in Start is
  listener,    \* netListener: "none", "open", "closed"
  acceptor,    \* the Serve goroutine: "none", "started", "serving", "returned"
  route,       \* is GET <path>/health in the routes?
  registered,  \* does consul list the service?
  deregError,  \* did DeRegister fail? (Start ignores its error)
  chan,        \* signalChan: "nil", "made", "notified"
  closed,      \* was signalChan closed?
  stop,        \* stop[s]: where the goroutine s is in Stop
  pending,     \* signals the runtime has yet to deliver
  sent,        \* number of signals sent
  logs,        \* the log files: "open", "signalled", "closed"
  req,         \* req[r]: "none", "queued", "handling", "done", "reset", "cut"
  cleaned      \* backends whose Cleanup was called

signals == <<chan, closed, pending, sent, logs>>
service == <<listener, acceptor, route, registered, deregError>>
vars == <<consul, proc, main, service, signals, stop, req, cleaned>>

Up == proc = "up"

Goto(from, to) == Up /\ main = from /\ main' = to

-------------------------------------------------------------------------------
(* Start, up to the receive from the signal channel. *)

Listen ==
  /\ \/ Goto("listen", "spawn") /\ listener' = "open"
     \/ Goto("listen", "failed") /\ UNCHANGED listener
  /\ UNCHANGED <<consul, proc, acceptor, route, registered, deregError, signals, stop, req, cleaned>>

Spawn ==
  /\ Goto("spawn", "health")
  /\ acceptor' = "started"
  /\ UNCHANGED <<consul, proc, listener, route, registered, deregError, signals, stop, req, cleaned>>

\* listenHealthyEndpoint, called while the Serve goroutine may be routing already.
AddHealth ==
  /\ Goto("health", "register")
  /\ route' = TRUE
  /\ UNCHANGED <<consul, proc, listener, acceptor, registered, deregError, signals, stop, req, cleaned>>

\* registerService. When it fails consul may have the service all the same, and
\* Start returns without closing what it opened.
Register ==
  /\ \/ ~consul /\ Goto("register", "makeChan") /\ UNCHANGED registered
     \/ consul /\ Goto("register", "makeChan") /\ registered' = TRUE
     \/ consul /\ Goto("register", "failed") /\ registered' \in BOOLEAN
  /\ UNCHANGED <<consul, proc, listener, acceptor, route, deregError, signals, stop, req, cleaned>>

MakeChan ==
  /\ Goto("makeChan", "notify")
  /\ chan' = "made"
  /\ UNCHANGED <<consul, proc, service, closed, pending, sent, logs, stop, req, cleaned>>

NotifyAs(state) ==
  /\ Goto("notify", "wait")
  /\ chan' = state
  /\ UNCHANGED <<consul, proc, service, closed, pending, sent, logs, stop, req, cleaned>>

NotifyNothing == NotifyAs("made")

Notify == NotifyAs("notified")

\* The receive from a closed channel; Deliver is the receive of a signal.
Wake ==
  /\ closed
  /\ Goto("wait", "unregister")
  /\ UNCHANGED <<consul, proc, service, signals, stop, req, cleaned>>

-------------------------------------------------------------------------------
(* Start, from the signal to its return. *)

UnregisterNothing ==
  /\ Goto("unregister", "shutdown")
  /\ UNCHANGED <<consul, proc, service, signals, stop, req, cleaned>>

Unregister ==
  /\ Goto("unregister", "shutdown")
  /\ \/ consul /\ registered' = FALSE /\ UNCHANGED deregError
     \/ consul /\ deregError' = TRUE /\ UNCHANGED registered
     \/ ~consul /\ UNCHANGED <<registered, deregError>>
  /\ UNCHANGED <<consul, proc, listener, acceptor, route, signals, stop, req, cleaned>>

\* http.Server.Shutdown closes the listener first: Serve returns and connections
\* that were not accepted are reset.
Close(listens, accepts) ==
  /\ Goto("shutdown", "drain")
  /\ listener' = listens
  /\ acceptor' = accepts
  /\ req' = [r \in Requests |-> IF listens = "closed" /\ req[r] = "queued" THEN "reset" ELSE req[r]]
  /\ UNCHANGED <<consul, proc, route, registered, deregError, signals, stop, cleaned>>

CloseListenerLate == Close(listener, acceptor)

CloseListener == Close("closed", "returned")

\* Then it waits for the requests being handled, at most ten seconds; when they
\* are over log.Fatal ends the process without Cleanup.
Drain(over) ==
  /\ over
  /\ Goto("drain", "cleanup")
  /\ UNCHANGED <<consul, proc, service, signals, stop, req, cleaned>>

DrainedUnchecked == Drain(TRUE)

Drained == Drain(\A r \in Requests : req[r] # "handling")

\* With the process goes its socket: the port is closed, what waits at it is reset and
\* what is being handled is cut off. What consul lists it goes on listing.
Die(how) ==
  /\ proc' = how
  /\ listener' = IF listener = "open" THEN "closed" ELSE listener
  /\ req' = [r \in Requests |-> CASE req[r] = "queued"   -> "reset"
                                  [] req[r] = "handling" -> "cut"
                                  [] OTHER               -> req[r]]

Exit(how) ==
  /\ Die(how)
  /\ UNCHANGED <<consul, acceptor, route, registered, deregError, signals, stop, cleaned>>

DrainTimeout ==
  /\ Up /\ main = "drain"
  /\ Exit("fatal")
  /\ UNCHANGED main

\* Cleanup of one backend; the map is ranged over in no particular order.
CleanBackend(b) ==
  /\ Up /\ main = "cleanup" /\ b \notin cleaned
  /\ cleaned' = cleaned \union {b}
  /\ UNCHANGED <<consul, proc, main, service, signals, stop, req>>

Return(all) ==
  /\ all
  /\ Goto("cleanup", "returned")
  /\ UNCHANGED <<consul, proc, service, signals, stop, req, cleaned>>

ReturnAfterOne == Return(cleaned # {} \/ Backends = {})

CleanupDone == Return(cleaned = Backends)

\* The program ends with Start: normally, or with log.Fatal on its error.
LeaveMain ==
  /\ Up
  /\ \/ main = "returned" /\ Exit("ok")
     \/ main = "failed" /\ Exit("fatal")
  /\ UNCHANGED main

Main ==
  \/ Listen \/ Spawn \/ AddHealth \/ Register \/ MakeChan \/ Notify \/ Wake
  \/ Unregister \/ CloseListener \/ Drained \/ DrainTimeout
  \/ (\E b \in Backends : CleanBackend(b)) \/ CleanupDone \/ LeaveMain

-------------------------------------------------------------------------------
(* The Serve goroutine and the connections. *)

Serve ==
  /\ Up /\ acceptor = "started"
  /\ acceptor' = "serving"
  /\ UNCHANGED <<consul, proc, main, listener, route, registered, deregError, signals, stop, req, cleaned>>

\* A Serve that fails for any reason but the shutdown is log.Fatal.
ServeFails ==
  /\ Up /\ acceptor \in {"started", "serving"}
  /\ Exit("fatal")
  /\ UNCHANGED main

Connection(r, from, to) ==
  /\ Up /\ req[r] = from
  /\ req' = [req EXCEPT ![r] = to]
  /\ UNCHANGED <<consul, proc, main, service, signals, stop, cleaned>>

Connect(r) == listener = "open" /\ Connection(r, "none", "queued")
Accept(r)  == acceptor = "serving" /\ Connection(r, "queued", "handling")
Finish(r)  == Connection(r, "handling", "done")

-------------------------------------------------------------------------------
(* Signals and Stop. *)

PanicIf(misused) == IF misused THEN Die("panic") ELSE UNCHANGED <<proc, listener, req>>

Send(sig) ==
  /\ Up /\ sent < MaxSignals
  /\ sent' = sent + 1
  /\ pending' = pending \union {sig}
  /\ UNCHANGED <<consul, proc, main, service, chan, closed, logs, stop, req, cleaned>>

(***************************************************************************)
(* The runtime offers a signal to each channel that was registered for it  *)
(* and never waits. NewLogger registered its channel, which has a buffer   *)
(* of one, for both signals; Start registers the unbuffered signalChan for *)
(* SIGINT, so main takes the signal only when it is waiting at that very   *)
(* moment. Sending on a closed channel panics.                             *)
(***************************************************************************)
DeliverThen(sig, closes) ==
  /\ Up /\ sig \in pending
  /\ pending' = pending \ {sig}
  /\ logs' = IF logs = "open" THEN "signalled" ELSE logs
  /\ LET offered == sig = "INT" /\ chan = "notified"
         taken   == offered /\ ~closed /\ main = "wait"
     IN  /\ PanicIf(offered /\ closed)
         /\ main' = IF taken THEN "unregister" ELSE main
         /\ closed' = (closed \/ (closes /\ taken))
  /\ UNCHANGED <<consul, acceptor, route, registered, deregError, chan, sent, stop, cleaned>>

DeliverClosing(sig) == DeliverThen(sig, TRUE)

Deliver(sig) == DeliverThen(sig, FALSE)

\* The rotation loop sees its channel closed, closes the files and ends.
CloseLogs ==
  /\ Up /\ logs = "signalled"
  /\ logs' = "closed"
  /\ UNCHANGED <<consul, proc, main, service, chan, closed, pending, sent, stop, req, cleaned>>

\* Stop: a nil channel means that there is nothing to stop.
Check(s, seesChan) ==
  /\ Up /\ stop[s] = "idle"
  /\ stop' = [stop EXCEPT ![s] = IF seesChan THEN "close" ELSE "done"]
  /\ UNCHANGED <<consul, proc, main, service, signals, req, cleaned>>

CheckNothing(s) == Check(s, TRUE)

CheckChan(s) == Check(s, chan # "nil")

CloseWhen(s, received) ==
  /\ Up /\ stop[s] = "close"
  /\ stop' = [stop EXCEPT ![s] = "done"]
  /\ closed' = (closed \/ received)
  /\ PanicIf(closed)
  /\ UNCHANGED <<consul, main, acceptor, route, registered, deregError, chan, pending, sent, logs,
                 cleaned>>

SendToChan(s) == CloseWhen(s, main = "wait")

\* Closing a closed channel panics.
CloseChan(s) == CloseWhen(s, TRUE)

-------------------------------------------------------------------------------
Init ==
  /\ consul \in BOOLEAN
  /\ proc = "up" /\ main = "listen"
  /\ listener = "none" /\ acceptor = "none"
  /\ route = FALSE /\ registered = FALSE /\ deregError = FALSE
  /\ chan = "nil" /\ closed = FALSE
  /\ stop = [s \in Stoppers |-> "idle"]
  /\ pending = {} /\ sent = 0 /\ logs = "open"
  /\ req = [r \in Requests |-> "none"]
  /\ cleaned = {}

\* The steps that are taken once they can be; the others need somebody outside.
Internal ==
  \/ Main \/ Serve \/ CloseLogs
  \/ \E r \in Requests : Accept(r) \/ Finish(r)
  \/ \E sig \in Signals : Deliver(sig)
  \/ \E s \in Stoppers : CloseChan(s)

External ==
  \/ ServeFails
  \/ \E r \in Requests : Connect(r)
  \/ \E sig \in Signals : Send(sig)
  \/ \E s \in Stoppers : CheckChan(s)

\* An exited process stays so, and a server that waits may wait for ever.
Rest == (~Up \/ main = "wait") /\ UNCHANGED vars

Next == Internal \/ External \/ Rest

(***************************************************************************)
(* The scheduler runs every goroutine that can run, and the runtime        *)
(* delivers signals. A handler need not finish: only the time limit of the *)
(* shutdown, which is part of Main, bounds the wait for it.                *)
(***************************************************************************)
Fairness ==
  /\ WF_vars(Main) /\ WF_vars(Serve) /\ WF_vars(CloseLogs)
  /\ \A sig \in Signals : WF_vars(Deliver(sig))
  /\ \A s \in Stoppers : WF_vars(CloseChan(s))

Spec == Init /\ [][Next]_vars /\ Fairness

-------------------------------------------------------------------------------
(* Properties. *)

\* The shape of the state; Stop never closes a channel that was not made.
TypeOK ==
  /\ consul \in BOOLEAN
  /\ proc \in {"up", "ok", "fatal", "panic"}
  /\ main \in {"listen", "spawn", "health", "register", "makeChan", "notify", "wait", "unregister",
              "shutdown", "drain", "cleanup", "returned", "failed"}
  /\ listener \in {"none", "open", "closed"}
  /\ acceptor \in {"none", "started", "serving", "returned"}
  /\ route \in BOOLEAN /\ registered \in BOOLEAN /\ deregError \in BOOLEAN
  /\ chan \in {"nil", "made", "notified"}
  /\ closed \in BOOLEAN /\ (closed => chan # "nil")
  /\ stop \in [Stoppers -> {"idle", "close", "done"}]
  /\ pending \subseteq Signals /\ sent \in 0..MaxSignals
  /\ logs \in {"open", "signalled", "closed"}
  /\ req \in [Requests -> {"none", "queued", "handling", "done", "reset", "cut"}]
  /\ cleaned \subseteq Backends

Handling == {r \in Requests : req[r] = "handling"}

\* No backend is cleaned up while a request may still be in it: server.go:132-137.
CleanupAfterDrain == cleaned # {} => Handling = {}

\* While the process is up and consul lists it, its health endpoint is routed and the port
\* is open. A process that dies (log.Fatal, a panic) closes its port and stays listed: but
\* only one that dies before it deregisters, never one whose shutdown had begun, a stuck
\* drain included. Except when deregistering failed, whose error Start ignores.
ListedIsReachable ==
  registered /\ ~deregError =>
    /\ Up => route /\ listener = "open"
    /\ main \notin {"shutdown", "drain", "cleanup", "returned"}

\* Start returns nil only after an orderly shutdown: not listed (or deregistering
\* failed), the Serve goroutine gone, no request cut off, every backend cleaned up.
OrderlyExit ==
  proc = "ok" => /\ registered => deregError
                 /\ acceptor = "returned"
                 /\ \A r \in Requests : req[r] \notin {"queued", "handling", "cut"}
                 /\ cleaned = Backends

\* Signals alone never crash the process, however many arrive and whenever: it
\* takes a Stop, after which one more SIGINT or one more Stop does.
CrashNeedsStop ==
  proc = "panic" => /\ closed
                    /\ \E s \in Stoppers : stop[s] = "done"
                    /\ sent > 0 \/ \E s, t \in Stoppers : s # t /\ stop[s] = "done" /\ stop[t] = "done"

\* A SIGINT that reaches the process while Start is waiting ends the process,
\* even if a request never finishes. (One that arrives earlier is lost.)
InterruptStops == main = "wait" /\ "INT" \in pending ~> ~Up

\* A Stop that found the channel made ends the process, even when Start has not
\* come to wait yet - provided that registering its signals does not fail it.
StopStops == \A s \in Stoppers : stop[s] = "close" ~> ~Up

-------------------------------------------------------------------------------
(* Refinement of ServerLife. *)

\* A server that has unregistered and not yet shut down is leaving.
Phase ==
  CASE proc = "ok"              -> "stopped"
    [] proc \in {"fatal", "panic"} -> "crashed"
    [] Up /\ listener = "none"   -> "starting"
    [] Up /\ listener = "closed" -> "draining"
    [] Up /\ listener = "open"   -> IF main = "shutdown" THEN "leaving" ELSE "open"

\* A connection that was reset in the backlog never came in; one that was cut off by a
\* crash was being handled until then.
Life == [r \in Requests |-> CASE req[r] = "done"                -> "done"
                              [] req[r] \in {"handling", "cut"} -> "handling"
                              [] OTHER                          -> "outside"]

Abs == INSTANCE ServerLife WITH
  phase <- Phase, listed <- (registered /\ ~deregError), life <- Life, cleaned <- cleaned

\* However its actors interleave, the server lives the life of ServerLife: until it crashes
\* it is listed only while its door is open, begins no request once that is shut, handles
\* each once, and cleans up and stops when it is idle. server.go:91-159.
ImplementsServerLife == Abs!Spec

===============================================================================
