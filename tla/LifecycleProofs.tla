---------------------------- MODULE LifecycleProofs ----------------------------
(***************************************************************************)
(* Theorems about Lifecycle for any requests, backends, stoppers and any   *)
(* number of signals.                                                      *)
(*                                                                         *)
(* Start is sequential, so its place says what has been set up and taken   *)
(* down (Phases); the other actors can be ordered against it only through  *)
(* what it set up: no accept without the Serve goroutine, no crash without *)
(* a closed channel (Stopping).                                            *)
(***************************************************************************)
EXTENDS Lifecycle, TLAPS

Early == {"listen", "spawn", "health", "register"}
Late  == {"drain", "cleanup", "returned"}

\* What the place of Start says of the service and of the requests.
Phases ==
  /\ main = "listen" => listener = "none"
  /\ Up /\ main \notin {"listen", "failed"} \union Late => listener = "open"
  /\ main \in Late => listener = "closed" /\ acceptor = "returned"
  /\ main \in Early => ~registered
  /\ main \notin {"listen", "spawn", "health", "failed"} => route
  /\ registered => consul /\ route /\ (Up /\ main = "failed" => listener = "open")
  /\ main \in {"shutdown"} \union Late => (registered => deregError)
  /\ main \in {"cleanup", "returned"} => Handling = {}
  /\ cleaned # {} => main \in {"cleanup", "returned"}
  /\ main = "returned" => cleaned = Backends
  /\ proc = "ok" => main = "returned"
  /\ proc \in {"up", "ok"} => \A r \in Requests : req[r] # "cut"
  /\ main \in Late => \A r \in Requests : req[r] # "queued"
  /\ listener = "none" => acceptor = "none" /\ Handling = {}
  /\ Up /\ listener = "closed" => main \in Late

\* What it takes to make the channel dangerous.
Stopping ==
  /\ closed => \E s \in Stoppers : stop[s] = "done"
  /\ pending # {} => sent > 0
  /\ (\E s \in Stoppers : stop[s] = "close") => chan # "nil"
  /\ CrashNeedsStop

IInv == TypeOK /\ Phases /\ Stopping

\* Nothing has been done before Start is called.
LEMMA InitIInv == Init => IInv
<1>. SUFFICES ASSUME Init PROVE IInv
  OBVIOUS
<1>1. TypeOK
  <2>1. sent \in 0..MaxSignals  BY MaxSignalsAssumption DEF Init
  <2>2. stop \in [Stoppers -> {"idle", "close", "done"}]
        /\ req \in [Requests -> {"none", "queued", "handling", "done", "reset", "cut"}]
    BY DEF Init
  <2>. QED  BY <2>1, <2>2 DEF Init, TypeOK
<1>2. Phases  BY DEF Init, Phases, Handling, Early, Late
<1>3. Stopping  BY DEF Init, Stopping, CrashNeedsStop
<1>. QED  BY <1>1, <1>2, <1>3 DEF IInv

\* Only Stop closes the channel, and only after it saw it made.
LEMMA NextTypeOK ==
  ASSUME IInv, Next
  PROVE  TypeOK'
<1>. USE DEF IInv, TypeOK, Stopping, Signals, Up, service, signals
<1>1. CASE Listen
  BY <1>1 DEF Listen, Goto
<1>2. CASE Spawn
  BY <1>2 DEF Spawn, Goto
<1>3. CASE AddHealth
  BY <1>3 DEF AddHealth, Goto
<1>4. CASE Register
  <2>1. registered' \in BOOLEAN  BY <1>4 DEF Register, TypeOK
  <2>2. main' \in {"makeChan", "failed"}  BY <1>4 DEF Register, Goto
  <2>. QED  BY <1>4, <2>1, <2>2 DEF Register
<1>5. CASE MakeChan
  BY <1>5 DEF MakeChan, Goto
<1>6. CASE Notify
  BY <1>6 DEF Notify, NotifyAs, Goto
<1>7. CASE Wake
  BY <1>7 DEF Wake, Goto
<1>8. CASE Unregister
  <2>1. registered' \in BOOLEAN /\ deregError' \in BOOLEAN
    BY <1>8 DEF Unregister, TypeOK
  <2>2. main' = "shutdown"  BY <1>8 DEF Unregister, Goto
  <2>. QED  BY <1>8, <2>1, <2>2 DEF Unregister
<1>9. CASE CloseListener
  BY <1>9 DEF CloseListener, Close, Goto
<1>10. CASE Drained
  BY <1>10 DEF Drained, Drain, Goto
<1>11. CASE DrainTimeout
  BY <1>11 DEF DrainTimeout, Exit, Die
<1>12. CASE \E b \in Backends : CleanBackend(b)
  BY <1>12 DEF CleanBackend
<1>13. CASE CleanupDone
  BY <1>13 DEF CleanupDone, Return, Goto
<1>14. CASE LeaveMain
  <2>1. proc' \in {"ok", "fatal"}  BY <1>14 DEF LeaveMain, Exit, Die
  <2>. QED  BY <1>14, <2>1 DEF LeaveMain, Exit, Die
<1>15. CASE Serve
  BY <1>15 DEF Serve
<1>16. CASE CloseLogs
  BY <1>16 DEF CloseLogs
<1>17. CASE ServeFails
  BY <1>17 DEF ServeFails, Exit, Die
<1>18. CASE \E r \in Requests : Connect(r) \/ Accept(r) \/ Finish(r)
  <2>1. req' \in [Requests -> {"none", "queued", "handling", "done", "reset", "cut"}]
    BY <1>18 DEF Connect, Accept, Finish, Connection
  <2>2. UNCHANGED <<consul, proc, main, service, signals, stop, cleaned>>
    BY <1>18 DEF Connect, Accept, Finish, Connection
  <2>. QED  BY <2>1, <2>2
<1>19. CASE \E sig \in Signals : Send(sig)
  <2>1. sent' \in 0..MaxSignals  BY <1>19, MaxSignalsAssumption DEF Send
  <2>2. pending' \subseteq Signals  BY <1>19 DEF Send
  <2>. QED  BY <1>19, <2>1, <2>2 DEF Send
<1>20. CASE \E sig \in Signals : Deliver(sig)
  BY <1>20 DEF DeliverThen, Deliver, PanicIf, Die
<1>21. CASE \E s \in Stoppers : CheckChan(s)
  BY <1>21 DEF CheckChan, Check
<1>22. CASE \E s \in Stoppers : CloseChan(s)
  BY <1>22 DEF CloseChan, CloseWhen, PanicIf, Die
<1>23. CASE Rest
  BY <1>23 DEF Rest, vars
<1>. QED
  BY <1>1, <1>2, <1>3, <1>4, <1>5, <1>6, <1>7, <1>8, <1>9, <1>10, <1>11, <1>12, <1>13, <1>14, <1>15, <1>16, <1>17, <1>18, <1>19, <1>20, <1>21, <1>22, <1>23
  DEF Next, Internal, External, Main

\* Every action of Start keeps what its place promises; no other action undoes it.
LEMMA NextPhases ==
  ASSUME IInv, Next
  PROVE  Phases'
<1>. USE DEF IInv, TypeOK, Phases, Handling, Early, Late, Up, service, signals
<1>1. CASE Listen
  BY <1>1 DEF Listen, Goto
<1>2. CASE Spawn
  BY <1>2 DEF Spawn, Goto
<1>3. CASE AddHealth
  BY <1>3 DEF AddHealth, Goto
<1>4. CASE Register
  BY <1>4 DEF Register, Goto
<1>5. CASE MakeChan
  BY <1>5 DEF MakeChan, Goto
<1>6. CASE Notify
  BY <1>6 DEF Notify, NotifyAs, Goto
<1>7. CASE Wake
  BY <1>7 DEF Wake, Goto
<1>8. CASE Unregister
  <2>1. main = "unregister" /\ main' = "shutdown"
    BY <1>8 DEF Unregister, Goto
  <2>2. registered' => registered /\ deregError'
    <3>1. CASE ~consul  BY <1>8, <3>1 DEF Unregister
    <3>2. CASE consul /\ registered' = FALSE  BY <3>2
    <3>3. CASE consul /\ deregError' = TRUE /\ registered' = registered  BY <3>3
    <3>. QED  BY <1>8, <3>1, <3>2, <3>3 DEF Unregister
  <2>. QED  BY <1>8, <2>1, <2>2 DEF Unregister
<1>9. CASE CloseListener
  BY <1>9 DEF CloseListener, Close, Goto
<1>10. CASE Drained
  BY <1>10 DEF Drained, Drain, Goto
<1>11. CASE DrainTimeout
  BY <1>11 DEF DrainTimeout, Exit, Die
<1>12. CASE \E b \in Backends : CleanBackend(b)
  BY <1>12 DEF CleanBackend
<1>13. CASE CleanupDone
  BY <1>13 DEF CleanupDone, Return, Goto
<1>14. CASE LeaveMain
  BY <1>14 DEF LeaveMain, Exit, Die
<1>15. CASE Serve
  BY <1>15 DEF Serve
<1>16. CASE CloseLogs
  BY <1>16 DEF CloseLogs
<1>17. CASE ServeFails
  BY <1>17 DEF ServeFails, Exit, Die
<1>18. CASE \E r \in Requests : Connect(r) \/ Accept(r) \/ Finish(r)
  BY <1>18 DEF Connect, Accept, Finish, Connection
<1>19. CASE \E sig \in Signals : Send(sig)
  BY <1>19 DEF Send
<1>20. CASE \E sig \in Signals : Deliver(sig)
  BY <1>20 DEF DeliverThen, Deliver, PanicIf, Die
<1>21. CASE \E s \in Stoppers : CheckChan(s)
  BY <1>21 DEF CheckChan, Check
<1>22. CASE \E s \in Stoppers : CloseChan(s)
  BY <1>22 DEF CloseChan, CloseWhen, PanicIf, Die
<1>23. CASE Rest
  BY <1>23 DEF Rest, vars
<1>. QED
  BY <1>1, <1>2, <1>3, <1>4, <1>5, <1>6, <1>7, <1>8, <1>9, <1>10, <1>11, <1>12, <1>13, <1>14, <1>15, <1>16, <1>17, <1>18, <1>19, <1>20, <1>21, <1>22, <1>23
  DEF Next, Internal, External, Main

\* Closing and sending are what they are counted by.
LEMMA NextStopping ==
  ASSUME IInv, Next
  PROVE  Stopping'
<1>. USE DEF IInv, TypeOK, Stopping, CrashNeedsStop, Up, service, signals
<1>1. CASE Listen
  BY <1>1 DEF Listen, Goto
<1>2. CASE Spawn
  BY <1>2 DEF Spawn, Goto
<1>3. CASE AddHealth
  BY <1>3 DEF AddHealth, Goto
<1>4. CASE Register
  BY <1>4 DEF Register, Goto
<1>5. CASE MakeChan
  BY <1>5 DEF MakeChan, Goto
<1>6. CASE Notify
  BY <1>6 DEF Notify, NotifyAs, Goto
<1>7. CASE Wake
  BY <1>7 DEF Wake, Goto
<1>8. CASE Unregister
  BY <1>8 DEF Unregister, Goto
<1>9. CASE CloseListener
  BY <1>9 DEF CloseListener, Close, Goto
<1>10. CASE Drained
  BY <1>10 DEF Drained, Drain, Goto
<1>11. CASE DrainTimeout
  BY <1>11 DEF DrainTimeout, Exit, Die
<1>12. CASE \E b \in Backends : CleanBackend(b)
  BY <1>12 DEF CleanBackend
<1>13. CASE CleanupDone
  BY <1>13 DEF CleanupDone, Return, Goto
<1>14. CASE LeaveMain
  BY <1>14 DEF LeaveMain, Exit, Die
<1>15. CASE Serve
  BY <1>15 DEF Serve
<1>16. CASE CloseLogs
  BY <1>16 DEF CloseLogs
<1>17. CASE ServeFails
  BY <1>17 DEF ServeFails, Exit, Die
<1>18. CASE \E r \in Requests : Connect(r) \/ Accept(r) \/ Finish(r)
  BY <1>18 DEF Connect, Accept, Finish, Connection
<1>19. CASE \E sig \in Signals : Send(sig)
  BY <1>19 DEF Send
<1>20. CASE \E sig \in Signals : Deliver(sig)
  BY <1>20 DEF DeliverThen, Deliver, PanicIf, Die
<1>21. CASE \E s \in Stoppers : CheckChan(s)
  BY <1>21 DEF CheckChan, Check
<1>22. CASE \E s \in Stoppers : CloseChan(s)
  BY <1>22 DEF CloseChan, CloseWhen, PanicIf, Die
<1>23. CASE Rest
  BY <1>23 DEF Rest, vars
<1>. QED
  BY <1>1, <1>2, <1>3, <1>4, <1>5, <1>6, <1>7, <1>8, <1>9, <1>10, <1>11, <1>12, <1>13, <1>14, <1>15, <1>16, <1>17, <1>18, <1>19, <1>20, <1>21, <1>22, <1>23
  DEF Next, Internal, External, Main

\* Every action of every actor keeps the invariant.
LEMMA NextIInv == IInv /\ [Next]_vars => IInv'
<1>1. ASSUME IInv, Next PROVE IInv'
  BY <1>1, NextTypeOK, NextPhases, NextStopping DEF IInv
<1>2. ASSUME IInv, UNCHANGED vars PROVE IInv'
  BY <1>2 DEF IInv, TypeOK, Phases, Handling, Stopping, CrashNeedsStop, Up, vars, service, signals
<1>. QED  BY <1>1, <1>2

-------------------------------------------------------------------------------
\* What each place of Start, Stop and the Serve goroutine says has been done is so, for any
\* number of requests, backends, stoppers and signals: server.go:100-170.
THEOREM Invariance == Spec => []IInv
  BY InitIInv, NextIInv, PTL DEF Spec

\* server.go:142-147: the state keeps its shape, and Stop closes a channel only
\* if it was made.
THEOREM TypeCorrect == Spec => []TypeOK
<1>1. IInv => TypeOK
  BY DEF IInv
<1>. QED  BY <1>1, Invariance, PTL

\* server.go:132-157: no backend is cleaned up under a request it still handles.
THEOREM CleanupWaits == Spec => []CleanupAfterDrain
<1>1. IInv => CleanupAfterDrain
  BY DEF IInv, Phases, CleanupAfterDrain
<1>. QED  BY <1>1, Invariance, PTL

\* server.go:110-132: registering after the route is added and the port is open, and
\* deregistering before the port is closed, keeps every listing of a living process
\* reachable; a process that dies stays listed only if it died before it deregistered.
THEOREM ListingReachable == Spec => []ListedIsReachable
<1>1. IInv => ListedIsReachable
  <2>. SUFFICES ASSUME IInv, registered, ~deregError
                PROVE  /\ Up => route /\ listener = "open"
                       /\ main \notin {"shutdown", "drain", "cleanup", "returned"}
    BY DEF ListedIsReachable
  <2>1. main \notin Early \union {"shutdown"} \union Late  BY DEF IInv, Phases
  <2>2. main # "failed" => main \notin {"listen", "failed"} \union Late  BY <2>1 DEF Early, Late
  <2>. QED  BY <2>1, <2>2 DEF IInv, Phases, Late
<1>. QED  BY <1>1, Invariance, PTL

\* server.go:124-139: when Start returns nil everything has been taken down.
THEOREM ExitOrderly == Spec => []OrderlyExit
<1>1. IInv => OrderlyExit
  BY DEF IInv, Phases, OrderlyExit, Late, Handling
<1>. QED  BY <1>1, Invariance, PTL

\* server.go:122-147: signals without a Stop do not crash the process.
THEOREM CrashesNeedStop == Spec => []CrashNeedsStop
<1>1. IInv => CrashNeedsStop
  BY DEF IInv, Stopping
<1>. QED  BY <1>1, Invariance, PTL

\* Once the shutdown has closed the listener no request is begun.
NoLateAccept ==
  [][(main \in {"drain", "cleanup", "returned"}) => Handling' \subseteq Handling]_vars

\* server.go:132: the Serve goroutine has returned before the drain begins.
THEOREM NoneAcceptedLate == Spec => NoLateAccept
<1>1. IInv /\ [Next]_vars => [(main \in Late) => Handling' \subseteq Handling]_vars
  <2>. SUFFICES ASSUME IInv, Next, main \in Late PROVE Handling' \subseteq Handling
    OBVIOUS
  <2>1. acceptor = "returned"  BY DEF IInv, Phases
  <2>2. CASE req' = req  BY <2>2 DEF Handling
  <2>3. ASSUME NEW r \in Requests, NEW to \in {"queued", "done"},
               req' = [req EXCEPT ![r] = to]
        PROVE  Handling' \subseteq Handling
    BY <2>3 DEF IInv, TypeOK, Handling
  <2>4. CASE CloseListener  BY <2>4 DEF CloseListener, Close, Goto, Late
  <2>5. ASSUME NEW how, Die(how)
        PROVE  Handling' \subseteq Handling
    BY <2>5 DEF Die, Handling
  <2>. QED
    BY <2>1, <2>2, <2>3, <2>4, <2>5
    DEF Next, Internal, External, Rest, vars, Main, Listen, Spawn, AddHealth, Register, MakeChan,
        Notify, NotifyAs, Wake, Unregister, Drained, Drain, DrainTimeout, CleanBackend, CleanupDone,
        Return, LeaveMain, Exit, Serve, ServeFails, CloseLogs, Connect, Accept, Finish, Connection,
        Send, DeliverThen, Deliver, CheckChan, Check, CloseChan, CloseWhen, PanicIf
<1>. QED  BY <1>1, Invariance, PTL DEF Spec, NoLateAccept, Late

-------------------------------------------------------------------------------
(* The life of the server is that of ServerLife. *)

Seen == <<Phase, registered /\ ~deregError, Life, cleaned>>

\* Nothing of it has happened before Start is called.
LEMMA InitAbs == Init => Abs!Init
<1>. SUFFICES ASSUME Init PROVE Abs!Init
  OBVIOUS
<1>1. Phase = "starting"  BY DEF Init, Phase, Up
<1>2. (registered /\ ~deregError) = FALSE  BY DEF Init
<1>3. Life = [r \in Requests |-> "outside"]  BY DEF Init, Life
<1>. QED  BY <1>1, <1>2, <1>3 DEF Init, Abs!Init

\* What is seen of the server depends on little of its state.
LEMMA SeenIs ==
  ASSUME UNCHANGED <<proc, listener, registered, deregError, cleaned>>,
         main' = main \/ (main' # "shutdown" /\ main # "shutdown"),
         req' = req
  PROVE  UNCHANGED Seen
<1>1. Phase' = Phase  BY DEF Phase, Up
<1>2. Life' = Life  BY DEF Life
<1>. QED  BY <1>1, <1>2 DEF Seen

\* What ends with the process is not seen: what it was handling is not handled to the end.
LEMMA DeadLife ==
  ASSUME NEW how, Die(how)
  PROVE  Life' = Life
<1>1. ASSUME NEW r \in Requests
      PROVE  req'[r] = (CASE req[r] = "queued"   -> "reset"
                          [] req[r] = "handling" -> "cut"
                          [] OTHER               -> req[r])
  BY DEF Die
<1>2. ASSUME NEW r \in Requests
      PROVE  (CASE req'[r] = "done"                -> "done"
                [] req'[r] \in {"handling", "cut"} -> "handling"
                [] OTHER                           -> "outside")
               = (CASE req[r] = "done"                -> "done"
                    [] req[r] \in {"handling", "cut"} -> "handling"
                    [] OTHER                          -> "outside")
  <2>1. CASE req[r] = "queued"  BY <1>1, <2>1
  <2>2. CASE req[r] = "handling"  BY <1>1, <2>2
  <2>3. CASE req[r] \notin {"queued", "handling"}
    <3>1. req'[r] = req[r]  BY <1>1, <2>3
    <3>. QED  BY <3>1
  <2>. QED  BY <2>1, <2>2, <2>3
<1>. QED  BY <1>2 DEF Life

\* An exit that is not an orderly one, whoever caused it.
LEMMA CrashIs ==
  ASSUME IInv, Up, NEW how \in {"fatal", "panic"}, Die(how),
         UNCHANGED <<registered, deregError, cleaned>>
  PROVE  Abs!Crash
<1>1. Phase \notin {"stopped", "crashed"}
  BY DEF IInv, TypeOK, Phase, Up
<1>2. Phase' = "crashed"  BY DEF Phase, Up, Die
<1>3. Life' = Life  BY DeadLife
<1>. QED  BY <1>1, <1>2, <1>3 DEF Abs!Crash

\* Start, from the listening to the wait.
LEMMA StartRefines ==
  ASSUME IInv, Listen \/ Spawn \/ AddHealth \/ Register \/ MakeChan \/ Notify \/ Wake
  PROVE  Abs!Next \/ UNCHANGED Seen
<1>1. CASE Listen
  <2>1. Up /\ main = "listen" /\ main' \in {"spawn", "failed"}
        /\ UNCHANGED <<proc, registered, deregError, cleaned, req>>
    BY <1>1 DEF Listen, Goto
  <2>2. CASE UNCHANGED listener
    BY <2>1, <2>2, SeenIs
  <2>3. CASE listener' = "open"
    <3>1. Phase = "starting"  BY <2>1 DEF IInv, Phases, Phase, Up
    <3>2. Phase' = "open"  BY <2>1, <2>3 DEF Phase, Up
    <3>3. Life' = Life  BY <2>1 DEF Life
    <3>4. (registered /\ ~deregError)' = (registered /\ ~deregError)  BY <2>1
    <3>5. Abs!Open  BY <2>1, <3>1, <3>2, <3>3, <3>4 DEF Abs!Open, Abs!Enter
    <3>. QED  BY <3>5 DEF Abs!Next
  <2>. QED  BY <1>1, <2>2, <2>3 DEF Listen
<1>2. CASE Spawn \/ AddHealth \/ MakeChan \/ Notify \/ Wake
  <2>1. /\ UNCHANGED <<proc, listener, registered, deregError, cleaned, req>>
        /\ main # "shutdown" /\ main' # "shutdown"
    BY <1>2 DEF Spawn, AddHealth, MakeChan, Notify, NotifyAs, Wake, Goto, service
  <2>. QED  BY <2>1, SeenIs
<1>3. CASE Register
  <2>1. /\ Up /\ main = "register" /\ main' \in {"makeChan", "failed"}
        /\ UNCHANGED <<proc, listener, deregError, cleaned, req>>
        /\ registered' \in BOOLEAN
    BY <1>3 DEF Register, Goto, IInv, TypeOK
  <2>2. ~registered /\ registered \in BOOLEAN /\ listener = "open"
    BY <2>1 DEF IInv, TypeOK, Phases, Early, Late
  <2>3. CASE registered' = registered
    BY <2>1, <2>3, SeenIs
  <2>4. CASE registered' # registered
    <3>1. registered' = TRUE  BY <2>1, <2>2, <2>4
    <3>2. Phase = "open" /\ Phase' = "open"
      BY <2>1, <2>2 DEF Phase, Up
    <3>3. Life' = Life  BY <2>1 DEF Life
    <3>4. CASE deregError
      <4>1. (registered /\ ~deregError)' = (registered /\ ~deregError)
        BY <2>1, <3>4
      <4>. QED  BY <2>1, <3>2, <3>3, <4>1 DEF Seen
    <3>5. CASE ~deregError
      <4>1. (registered /\ ~deregError)' = TRUE  BY <2>1, <3>1, <3>5
      <4>2. Abs!List  BY <2>1, <3>2, <3>3, <4>1 DEF Abs!List
      <4>. QED  BY <4>2 DEF Abs!Next
    <3>. QED  BY <3>4, <3>5
  <2>. QED  BY <2>3, <2>4
<1>. QED  BY <1>1, <1>2, <1>3

\* Start, from the signal to its return.
LEMMA ShutdownRefines ==
  ASSUME IInv,
         \/ Unregister \/ CloseListener \/ Drained \/ DrainTimeout
         \/ (\E b \in Backends : CleanBackend(b)) \/ CleanupDone \/ LeaveMain
  PROVE  Abs!Next \/ UNCHANGED Seen
<1>1. CASE Unregister
  <2>1. /\ Up /\ main = "unregister" /\ main' = "shutdown"
        /\ UNCHANGED <<proc, listener, cleaned, req>>
    BY <1>1 DEF Unregister, Goto
  <2>2. listener = "open"
    BY <2>1 DEF IInv, Phases, Late
  <2>3. (registered /\ ~deregError)' = FALSE
    <3>1. CASE consul /\ registered' = FALSE  BY <3>1
    <3>2. CASE consul /\ deregError' = TRUE  BY <3>2
    <3>3. CASE ~consul /\ UNCHANGED <<registered, deregError>>
      BY <3>3 DEF IInv, Phases
    <3>. QED  BY <1>1, <3>1, <3>2, <3>3 DEF Unregister
  <2>4. Phase = "open" /\ Phase' = "leaving"
    BY <2>1, <2>2 DEF Phase, Up
  <2>5. Life' = Life  BY <2>1 DEF Life
  <2>6. Abs!Leave  BY <2>1, <2>3, <2>4, <2>5 DEF Abs!Leave, Abs!Enter
  <2>. QED  BY <2>6 DEF Abs!Next
<1>2. CASE CloseListener
  <2>1. /\ Up /\ main = "shutdown" /\ main' = "drain" /\ listener' = "closed"
        /\ req' = [r \in Requests |-> IF req[r] = "queued" THEN "reset" ELSE req[r]]
        /\ UNCHANGED <<proc, registered, deregError, cleaned>>
    BY <1>2 DEF CloseListener, Close, Goto
  <2>2. listener = "open"
    BY <2>1 DEF IInv, Phases, Late
  <2>3. Phase = "leaving" /\ Phase' = "draining"
    BY <2>1, <2>2 DEF Phase, Up
  <2>4. Life' = Life
    <3>1. ASSUME NEW r \in Requests
          PROVE  (CASE req'[r] = "done"                -> "done"
                    [] req'[r] \in {"handling", "cut"} -> "handling"
                    [] OTHER                           -> "outside")
                   = (CASE req[r] = "done"                -> "done"
                        [] req[r] \in {"handling", "cut"} -> "handling"
                        [] OTHER                          -> "outside")
      <4>1. req'[r] = (IF req[r] = "queued" THEN "reset" ELSE req[r])
        BY <2>1
      <4>2. CASE req[r] = "queued"  BY <4>1, <4>2
      <4>3. CASE req[r] # "queued"
        <5>1. req'[r] = req[r]  BY <4>1, <4>3
        <5>. QED  BY <5>1
      <4>. QED  BY <4>2, <4>3
    <3>. QED  BY <3>1 DEF Life
  <2>5. (registered /\ ~deregError)' = (registered /\ ~deregError)  BY <2>1
  <2>6. Abs!Shut  BY <2>1, <2>3, <2>4, <2>5 DEF Abs!Shut, Abs!Enter
  <2>. QED  BY <2>6 DEF Abs!Next
<1>3. CASE Drained \/ CleanupDone
  <2>1. /\ UNCHANGED <<proc, listener, registered, deregError, cleaned, req>>
        /\ main # "shutdown" /\ main' # "shutdown"
    BY <1>3 DEF Drained, Drain, CleanupDone, Return, Goto, service
  <2>. QED  BY <2>1, SeenIs
<1>4. CASE DrainTimeout
  <2>1. Up /\ Die("fatal") /\ UNCHANGED <<registered, deregError, cleaned>>
    BY <1>4 DEF DrainTimeout, Exit
  <2>. QED  BY <2>1, CrashIs DEF Abs!Next
<1>5. ASSUME NEW b \in Backends, CleanBackend(b)
      PROVE  Abs!Next
  <2>1. /\ Up /\ main = "cleanup" /\ b \notin cleaned /\ cleaned' = cleaned \union {b}
        /\ UNCHANGED <<proc, main, listener, registered, deregError, req>>
    BY <1>5 DEF CleanBackend, service
  <2>2. listener = "closed" /\ Handling = {}
    BY <2>1 DEF IInv, Phases, Late
  <2>3. Phase = "draining" /\ Phase' = "draining"
    BY <2>1, <2>2 DEF Phase, Up
  <2>4. Life' = Life  BY <2>1 DEF Life
  <2>5. Abs!Idle
    <3>1. ASSUME NEW r \in Requests PROVE Life[r] # "handling"
      <4>1. req[r] # "handling" /\ req[r] # "cut"
        BY <2>1, <2>2 DEF IInv, Phases, Handling, Up
      <4>2. Life[r] = (CASE req[r] = "done"                -> "done"
                         [] req[r] \in {"handling", "cut"} -> "handling"
                         [] OTHER                          -> "outside")
        BY DEF Life
      <4>. QED  BY <4>1, <4>2
    <3>. QED  BY <3>1 DEF Abs!Idle
  <2>6. (registered /\ ~deregError)' = (registered /\ ~deregError)  BY <2>1
  <2>7. Abs!Clean(b)  BY <2>1, <2>3, <2>4, <2>5, <2>6 DEF Abs!Clean
  <2>. QED  BY <2>7 DEF Abs!Next
<1>6. CASE LeaveMain
  <2>1. Up /\ UNCHANGED <<main, registered, deregError, cleaned>>
    BY <1>6 DEF LeaveMain, Exit
  <2>2. CASE main = "returned" /\ Die("ok")
    <3>1. listener = "closed" /\ Handling = {} /\ cleaned = Backends
      BY <2>2 DEF IInv, Phases, Late
    <3>2. Phase = "draining" /\ Phase' = "stopped"
      BY <2>1, <2>2, <3>1 DEF Phase, Up, Die
    <3>3. Life' = Life  BY <2>2, DeadLife
    <3>4. \A r \in Requests : req[r] # "handling" /\ req[r] # "cut"
      BY <2>1, <3>1 DEF IInv, Phases, Handling, Up
    <3>5. Abs!Idle
      <4>1. ASSUME NEW r \in Requests PROVE Life[r] # "handling"
        <5>1. Life[r] = (CASE req[r] = "done"                -> "done"
                           [] req[r] \in {"handling", "cut"} -> "handling"
                           [] OTHER                          -> "outside")
          BY DEF Life
        <5>. QED  BY <3>4, <5>1
      <4>. QED  BY <4>1 DEF Abs!Idle
    <3>6. (registered /\ ~deregError)' = (registered /\ ~deregError)  BY <2>1
    <3>7. Abs!Stop  BY <2>1, <3>1, <3>2, <3>3, <3>5, <3>6 DEF Abs!Stop, Abs!Enter
    <3>. QED  BY <3>7 DEF Abs!Next
  <2>3. CASE Die("fatal")
    BY <2>1, <2>3, CrashIs DEF Abs!Next
  <2>. QED  BY <1>6, <2>2, <2>3 DEF LeaveMain, Exit
<1>. QED  BY <1>1, <1>2, <1>3, <1>4, <1>5, <1>6

\* The Serve goroutine and the connections.
LEMMA ServingRefines ==
  ASSUME IInv,
         \/ Serve \/ ServeFails
         \/ \E r \in Requests : Connect(r) \/ Accept(r) \/ Finish(r)
  PROVE  Abs!Next \/ UNCHANGED Seen
<1>1. CASE Serve
  <2>1. UNCHANGED <<proc, main, listener, registered, deregError, cleaned, req>>
    BY <1>1 DEF Serve
  <2>. QED  BY <2>1, SeenIs
<1>2. CASE ServeFails
  <2>1. Up /\ Die("fatal") /\ UNCHANGED <<registered, deregError, cleaned>>
    BY <1>2 DEF ServeFails, Exit
  <2>. QED  BY <2>1, CrashIs DEF Abs!Next
<1>3. ASSUME NEW r \in Requests, Connect(r) \/ Accept(r) \/ Finish(r)
      PROVE  Abs!Next \/ UNCHANGED Seen
  <2>1. /\ Up /\ UNCHANGED <<proc, main, listener, registered, deregError, cleaned>>
        /\ Phase' = Phase
    <3>1. Up /\ UNCHANGED <<proc, main, listener, registered, deregError, cleaned>>
      BY <1>3 DEF Connect, Accept, Finish, Connection, service
    <3>. QED  BY <3>1 DEF Phase, Up
  <2>2. req \in [Requests -> {"none", "queued", "handling", "done", "reset", "cut"}]
    BY DEF IInv, TypeOK
  <2>3. (registered /\ ~deregError)' = (registered /\ ~deregError)  BY <2>1
  <2>4. CASE Connect(r)
    <3>1. req[r] = "none" /\ req' = [req EXCEPT ![r] = "queued"]
      BY <2>4 DEF Connect, Connection
    <3>2. Life' = Life  BY <2>2, <3>1 DEF Life
    <3>. QED  BY <2>1, <2>3, <3>2 DEF Seen
  <2>5. CASE Accept(r)
    <3>1. /\ acceptor = "serving" /\ req[r] = "queued"
          /\ req' = [req EXCEPT ![r] = "handling"]
      BY <2>5 DEF Accept, Connection
    <3>2. Life[r] = "outside" /\ Life' = [Life EXCEPT ![r] = "handling"]
      BY <2>2, <3>1 DEF Life
    <3>3. main \notin Late
      BY <3>1 DEF IInv, Phases
    <3>4. listener \in {"none", "open", "closed"} /\ proc = "up"
      BY <2>1 DEF IInv, TypeOK, Up
    <3>5. listener = "open"
      BY <3>1, <3>3, <3>4 DEF IInv, Phases, Up
    <3>6. Phase \in {"open", "leaving"}
      BY <3>4, <3>5 DEF Phase, Up
    <3>7. Abs!Begin(r)  BY <2>1, <2>3, <3>2, <3>6 DEF Abs!Begin, Abs!Move
    <3>. QED  BY <3>7 DEF Abs!Next
  <2>6. CASE Finish(r)
    <3>1. req[r] = "handling" /\ req' = [req EXCEPT ![r] = "done"]
      BY <2>6 DEF Finish, Connection
    <3>2. Life[r] = "handling" /\ Life' = [Life EXCEPT ![r] = "done"]
      BY <2>2, <3>1 DEF Life
    <3>3. listener \in {"open", "closed"} /\ proc = "up"
      BY <2>1, <3>1 DEF IInv, TypeOK, Phases, Up, Handling
    <3>4. Phase \in {"open", "leaving", "draining"}
      BY <3>3 DEF Phase, Up
    <3>5. Abs!End(r)  BY <2>1, <2>3, <3>2, <3>4 DEF Abs!End, Abs!Move
    <3>. QED  BY <3>5 DEF Abs!Next
  <2>. QED  BY <1>3, <2>4, <2>5, <2>6
<1>. QED  BY <1>1, <1>2, <1>3

\* Signals and Stop.
LEMMA SignalsRefine ==
  ASSUME IInv,
         \/ CloseLogs
         \/ \E sig \in Signals : Send(sig) \/ Deliver(sig)
         \/ \E s \in Stoppers : CheckChan(s) \/ CloseChan(s)
  PROVE  Abs!Next \/ UNCHANGED Seen
<1>1. CASE CloseLogs \/ (\E sig \in Signals : Send(sig)) \/ (\E s \in Stoppers : CheckChan(s))
  <2>1. UNCHANGED <<proc, main, listener, registered, deregError, cleaned, req>>
    BY <1>1 DEF CloseLogs, Send, CheckChan, Check, service
  <2>. QED  BY <2>1, SeenIs
<1>2. ASSUME Up, NEW misused \in BOOLEAN, PanicIf(misused),
             UNCHANGED <<registered, deregError, cleaned>>,
             main' = main \/ (main' # "shutdown" /\ main # "shutdown")
      PROVE  Abs!Next \/ UNCHANGED Seen
  <2>1. CASE misused
    <3>1. Die("panic")  BY <1>2, <2>1 DEF PanicIf
    <3>. QED  BY <1>2, <3>1, CrashIs DEF Abs!Next
  <2>2. CASE ~misused
    <3>1. UNCHANGED <<proc, listener, req>>  BY <1>2, <2>2 DEF PanicIf
    <3>. QED  BY <1>2, <3>1, SeenIs
  <2>. QED  BY <2>1, <2>2
<1>3. ASSUME NEW sig \in Signals, Deliver(sig)
      PROVE  Abs!Next \/ UNCHANGED Seen
  <2>1. /\ Up /\ UNCHANGED <<registered, deregError, cleaned>>
        /\ PanicIf(sig = "INT" /\ chan = "notified" /\ closed)
        /\ main' = main \/ (main' # "shutdown" /\ main # "shutdown")
    BY <1>3 DEF Deliver, DeliverThen
  <2>2. (sig = "INT" /\ chan = "notified" /\ closed) \in BOOLEAN
    BY DEF IInv, TypeOK
  <2>. QED  BY <1>2, <2>1, <2>2
<1>4. ASSUME NEW s \in Stoppers, CloseChan(s)
      PROVE  Abs!Next \/ UNCHANGED Seen
  <2>1. /\ Up /\ UNCHANGED <<main, registered, deregError, cleaned>>
        /\ PanicIf(closed)
    BY <1>4 DEF CloseChan, CloseWhen
  <2>2. closed \in BOOLEAN
    BY DEF IInv, TypeOK
  <2>. QED  BY <1>2, <2>1, <2>2
<1>. QED  BY <1>1, <1>3, <1>4

\* Every step of every actor is a step of ServerLife, or nothing that is seen.
LEMMA NextAbs == IInv /\ [Next]_vars => [Abs!Next]_(Abs!vars)
<1>1. ASSUME IInv, Next PROVE Abs!Next \/ UNCHANGED Seen
  <2>1. CASE Main
    BY <1>1, <2>1, StartRefines, ShutdownRefines DEF Main
  <2>2. CASE \/ Serve \/ ServeFails
             \/ \E r \in Requests : Connect(r) \/ Accept(r) \/ Finish(r)
    BY <1>1, <2>2, ServingRefines
  <2>3. CASE \/ CloseLogs
             \/ \E sig \in Signals : Send(sig) \/ Deliver(sig)
             \/ \E s \in Stoppers : CheckChan(s) \/ CloseChan(s)
    BY <1>1, <2>3, SignalsRefine
  <2>4. CASE Rest
    <3>1. UNCHANGED <<proc, main, listener, registered, deregError, cleaned, req>>
      BY <2>4 DEF Rest, vars, service
    <3>. QED  BY <3>1, SeenIs
  <2>. QED  BY <1>1, <2>1, <2>2, <2>3, <2>4 DEF Next, Internal, External
<1>2. ASSUME IInv, UNCHANGED vars PROVE UNCHANGED Seen
  <2>1. UNCHANGED <<proc, main, listener, registered, deregError, cleaned, req>>
    BY <1>2 DEF vars, service
  <2>. QED  BY <2>1, SeenIs
<1>3. UNCHANGED Seen => UNCHANGED Abs!vars
  BY DEF Seen, Abs!vars
<1>. QED  BY <1>1, <1>2, <1>3

\* Seen from outside, Start, Stop, Serve, the signals and the connections together are a
\* server that does what ServerLife promises: server.go:91-159.
THEOREM Refinement == Spec => ImplementsServerLife
  BY NextAbs, InitAbs, Invariance, PTL DEF Spec, Abs!Spec, ImplementsServerLife

===============================================================================
