-------------------------------- MODULE Health --------------------------------
(***************************************************************************)
(* GET <path>/health while requests go through the pipeline: the handler   *)
(* marshals Connection field by field with plain loads.  Each load is of   *)
(* an aligned word and yields a value the counter has had.                 *)
(***************************************************************************)
EXTENDS Pipeline

CONSTANT MaxPolled  \* bound on the requests that come while health is asked for

VARIABLES
  coming,   \* the requests that come
  loaded,   \* how many of the fields the answer under way has
  answer,   \* its fields so far
  entered   \* how many requests entered since its first load
probe == <<coming, loaded, answer, entered>>

Blank == [active |-> 0, executed |-> 0]

HealthInit ==
  /\ coming \in {c \in SUBSET Requests : c = Requests \/ Cardinality(c) = MaxPolled}
  /\ loaded = 0 /\ answer = Blank /\ entered = 0

LoadActive ==
  /\ Cardinality(coming) <= MaxPolled
  /\ loaded = 0 /\ loaded' = 1
  /\ answer' = [Blank EXCEPT !.active = active]
  /\ UNCHANGED <<coming, entered>>

LoadExecuted ==
  /\ loaded = 1 /\ loaded' = 2
  /\ answer' = [answer EXCEPT !.executed = executed]
  /\ UNCHANGED <<coming, entered>>

\* The last load, of errors, after which the answer is sent.
LoadErrors ==
  /\ loaded = 2 /\ loaded' = 0
  /\ answer' = Blank /\ entered' = 0
  /\ UNCHANGED coming

\* The requests go on meanwhile.
Serve ==
  /\ Next
  /\ \A r \in Requests \ coming : pc'[r] = pc[r]
  /\ entered' = IF loaded > 0 /\ active' > active THEN entered + 1 ELSE entered
  /\ UNCHANGED <<coming, loaded, answer>>

HealthNext == Serve \/ ((LoadActive \/ LoadExecuted \/ LoadErrors) /\ UNCHANGED vars)

HealthSpec == Init /\ HealthInit /\ [][HealthNext]_<<vars, probe>>

-------------------------------------------------------------------------------
\* Three loads are no snapshot, but the answer is off by no more than the
\* requests it shows active and those that entered while it was made: it shows no
\* more errors than executions beyond these, and without these it shows every
\* execution there has been, and every error but those about to be counted.
AnswerBounded ==
  [][LoadErrors =>
       /\ errors <= answer.executed + answer.active + entered
       /\ answer.active = 0 /\ entered = 0 =>
            /\ answer.executed = executed
            /\ errors + Cardinality({r \in Requests : exit[r] = "error" /\ pc[r] = "countError"})
                 = Cardinality({r \in Requests : exit[r] = "error"})]_<<vars, probe>>
===============================================================================
