------------------------------ MODULE LogRotation ------------------------------
(***************************************************************************)
(* Log rotation: the goroutine rotatedLogging.start, its timer, and the    *)
(* files it renames.                                                       *)
(*                                                                         *)
(* Time is a number of ticks since the Unix epoch. Both policies rotate at *)
(* the end of an interval, a day or an hour; they differ in that the wait  *)
(* for the end of a day is corrected by the offset of the local time zone. *)
(* Flush runs under the logger's mutex, so no line is written during it.   *)
(***************************************************************************)
EXTENDS Integers, FiniteSets

CONSTANTS
  Settings,   \* [policy, offset]: --log.rotate and the local zone, in ticks
  Ticks,      \* ticks of an interval: [day |-> Nat, hour |-> Nat]
  Grace,      \* rotateRename names the archive after the moment Grace ago
  Late,       \* bound: a due timer is served within Late ticks
  MaxTime,    \* bound: the last tick
  MaxLines    \* bound: lines logged

Files == {"standard", "trace"}   \* openWriter: NoLevel and Trace

ASSUME TicksAssumption ==
  \A p \in {"day", "hour"} : Ticks[p] \in Nat /\ Ticks[p] > 0
ASSUME SettingsAssumption ==
  \A s \in Settings : s.policy \in {"day", "hour"} /\ s.offset \in Int
ASSUME BoundsAssumption ==
  Grace \in Nat /\ Late \in Nat /\ Late < Grace /\ MaxTime \in Nat /\ MaxLines \in Nat
\* Grace is a quarter of an hour.
ASSUME GraceAssumption ==
  \A p \in {"day", "hour"} : Grace <= Ticks[p]
\* Zones are less than a day away from UTC, and by whole quarters of an hour: past
\* the last whole hour none is ahead by less than Grace and by more than nothing.
ASSUME ZonesAssumption ==
  \A s \in Settings :
    /\ s.policy = "day" => -Ticks.day < s.offset /\ s.offset < Ticks.day
    /\ s.policy = "hour" => s.offset % Ticks.hour = 0 \/ s.offset % Ticks.hour >= Grace

VARIABLES
  conf,      \* the settings, fixed at start
  now,       \* the clock
  began,     \* when this process began
  set,       \* when the timer was last set
  due,       \* when it fires
  loop,      \* the rotation goroutine: "running", "ended"
  open,      \* does the logger's writer lead to open files?
  live,      \* live[f]: when the lines of <app>.log were written
  archive,   \* archive[f][n]: the lines of the archive of interval n
  written    \* written[f]: every line that was written to an open file

vars == <<conf, now, began, set, due, loop, open, live, archive, written>>

Interval == Ticks[conf.policy]

-------------------------------------------------------------------------------
(* The computations of logging.go. *)

\* nextDayOfMilliDuration and nextHourOfMilliDuration.
WaitWhole(t) == Interval - (IF conf.policy = "day" THEN conf.offset ELSE 0)

WaitUnreduced(t) == Interval - t

WaitOneShort(t) == Interval - (t % Interval) - 1

Wait(t) == Interval - (t % Interval) - (IF conf.policy = "day" THEN conf.offset ELSE 0)

\* Which interval of the local clock a moment is in.
IntervalOf(t) == (t + conf.offset) \div Interval

PastAtOnce(t) == IntervalOf(t)

\* rotateRename: the archive is named after a moment that is Grace ago.
Past(t) == IntervalOf(t - Grace)

\* os.Rename replaces an archive of that name.
Renamed(f, n) == [m \in DOMAIN archive[f] \union {n} |-> IF m = n THEN live[f] ELSE archive[f][m]]

TruncatedLive(f) == {}

\* openFile opens with O_APPEND: what the file holds stays.
ReopenedLive(f) == live[f]

-------------------------------------------------------------------------------
(* A step of the clock. The goroutine is not delayed by more than Late. *)
Tick ==
  /\ now < MaxTime
  /\ loop = "running" => now < due + Late
  /\ now' = now + 1
  /\ UNCHANGED <<conf, began, set, due, loop, open, live, archive, written>>

\* hclog ignores the error of a write to a closed file.
Log(f) ==
  /\ Cardinality(written["standard"]) + Cardinality(written["trace"]) < MaxLines
  /\ open /\ now \notin written[f]
  /\ live' = [live EXCEPT ![f] = @ \union {now}]
  /\ written' = [written EXCEPT ![f] = @ \union {now}]
  /\ UNCHANGED <<conf, now, began, set, due, loop, open, archive>>

(***************************************************************************)
(* The timer fires: ResetOutputWithFlush calls Flush, and the timer is set *)
(* again whatever came of it. Flush closes the files, renames them one by  *)
(* one and opens new ones; on an error it returns, the files stay closed,  *)
(* and since closing them again is an error too every later Flush fails.   *)
(***************************************************************************)
Fire ==
  /\ loop = "running" /\ now >= due
  /\ set' = now
  /\ due' = now + Wait(now)
  /\ UNCHANGED <<conf, now, began, loop>>

Rename(renamed) ==
  archive' = [f \in Files |-> IF f \in renamed THEN Renamed(f, Past(now)) ELSE archive[f]]

\* The goroutine logs a line of its own, to the new file, if the level admits it.
Rotate ==
  /\ open
  /\ Fire
  /\ Rename(Files)
  /\ \E line \in {{}, {now}} :
       /\ live' = [standard |-> line, trace |-> {}]
       /\ written' = [written EXCEPT !["standard"] = @ \union line]
  /\ UNCHANGED open

\* A rename fails, of the first file or of the second, or opening fails after both.
RotateFails ==
  /\ open
  /\ Fire
  /\ \E renamed \in {{}, {"standard"}, Files} :
       /\ Rename(renamed)
       /\ live' = [f \in Files |-> IF f \in renamed THEN {} ELSE live[f]]
  /\ open' = FALSE
  /\ UNCHANGED written

RotateClosed ==
  /\ ~open
  /\ Fire
  /\ UNCHANGED <<open, live, archive, written>>

\* The channel of MakeShutdownCh is closed.
Shutdown ==
  /\ loop = "running"
  /\ loop' = "ended"
  /\ open' = FALSE
  /\ UNCHANGED <<conf, now, began, set, due, live, archive, written>>

\* The process ends at any moment and another begins: NewLogger.
Restart ==
  /\ began < now
  /\ began' = now
  /\ set' = now /\ due' = now + Wait(now)
  /\ loop' = "running" /\ open' = TRUE
  /\ live' = [f \in Files |-> ReopenedLive(f)]
  /\ UNCHANGED <<conf, now, archive, written>>

Init ==
  /\ conf \in Settings
  /\ now \in 0..(Interval - 1) /\ began = now
  /\ set = now /\ due = now + Wait(now)
  /\ loop = "running" /\ open = TRUE
  /\ live = [f \in Files |-> {}]
  /\ archive = [f \in Files |-> << >>]
  /\ written = [f \in Files |-> {}]

\* The last tick is the end of the run, not a deadlock of the program.
End == now = MaxTime /\ UNCHANGED vars

Next ==
  \/ Tick \/ Rotate \/ RotateFails \/ RotateClosed \/ Shutdown \/ Restart \/ End
  \/ \E f \in Files : Log(f)

Spec == Init /\ [][Next]_vars

-------------------------------------------------------------------------------
(* Properties. *)

\* The shape of the state, and the timer is never set into the past.
TypeOK ==
  /\ conf \in Settings
  /\ now \in Nat /\ began \in Nat /\ began <= now
  /\ set \in began..now /\ due \in Nat /\ due > set
  /\ loop \in {"running", "ended"} /\ open \in BOOLEAN
  /\ \A f \in Files :
       /\ live[f] \subseteq 0..now /\ written[f] \subseteq 0..now
       /\ \A n \in DOMAIN archive[f] : n \in Int /\ archive[f][n] \subseteq 0..now

\* No rotation, however it fails and whatever restarts, destroys a line: each is
\* still in the live file or in an archive. (It holds for zones not east of UTC.)
LinesKept ==
  \A f \in Files :
    written[f] = live[f] \union UNION {archive[f][n] : n \in DOMAIN archive[f]}

\* The boundaries of the local clock are those of UTC.
Aligned == conf.offset % Interval = 0

\* A line that this process wrote is filed under the interval it was written in,
\* or, written while a rotation was overdue, under the one before.
FiledWhereWritten ==
  Aligned => \A f \in Files : \A n \in DOMAIN archive[f] : \A t \in archive[f][n] :
               t >= began => n \in {IntervalOf(t), IntervalOf(t - Grace)}

\* Unless a rotation failed, the live file holds lines of the current interval
\* only, as soon as the rotation that is due has been done.
LiveIsCurrent ==
  Aligned /\ open /\ now < due =>
    \A f \in Files : \A t \in live[f] : t >= began => IntervalOf(t) = IntervalOf(now)

\* Every line of this process is in the file of its interval, live or archived.
LinesFiled == FiledWhereWritten /\ LiveIsCurrent

\* option/options.go:36 "Rotates the log", choice "day": the timer that is set
\* when a day has been rotated does not fire again on that same local day.
RotatedOncePerDay ==
  conf.policy = "day" /\ set > began => IntervalOf(due) # IntervalOf(set)

===============================================================================
