----------------------------- MODULE MCLogRotation -----------------------------
(* Instances of LogRotation for TLC: an hour is 4 ticks, a day 5. *)
EXTENDS LogRotation

Short == [day |-> 5, hour |-> 4]

\* Hours in zones at, east of and west of UTC, whole hours away and not; days at
\* UTC and west of it.
NotEastByDay ==
  {[policy |-> "hour", offset |-> o] : o \in {-4, 0, 2}}
    \union {[policy |-> "day", offset |-> o] : o \in {-1, 0}}

EastByDay == {[policy |-> "day", offset |-> 1]}

===============================================================================
