---------------------------- MODULE UplinkTurns ----------------------------
(***************************************************************************)
(* The turns of the streams under traffic that never ends                  *)
(* (telemetry/Uplink.cpp, serviceOnce): Uplink without records, messages   *)
(* and resets, and with time counted in passes of the task, one every      *)
(* 200 ms.  A backlog may be renewed for ever.  Telemetry has the          *)
(* specification.                                                          *)
(***************************************************************************)
EXTENDS UplinkScheduler

CONSTANTS
  Streams,
  AnswerPasses,   \* an answer takes at least this many passes
  TimeoutPasses   \* kAckTimeoutMs, and every backoff, at least

ASSUME TurnsAssumption ==
  /\ Streams \subseteq AllStreams
  /\ AnswerPasses \in Nat
  /\ TimeoutPasses \in Nat \ {0}
  /\ AnswerPasses <= TimeoutPasses

VARIABLES
  pending,  \* hasPending: records that are not acknowledged
  flight,   \* "none", "waiting" or "due": inFlight_
  passes,   \* passes since the batch in flight was sent
  overdue   \* the backlog is older than the quota

vars == <<pending, flight, passes, overdue>>

Init ==
  /\ pending = [s \in Streams |-> FALSE]
  /\ flight = [s \in Streams |-> "none"]
  /\ passes = [s \in Streams |-> 0]
  /\ overdue = [s \in Streams |-> FALSE]

Backlogs ==
  [s \in Streams |->
     [hasPending |-> pending[s], inFlight |-> flight[s] # "none",
      retryDue |-> flight[s] = "due", overdue |-> pending[s] /\ overdue[s]]]

\* A batch goes out (again), or a retry gives up.
Serves(s) ==
  /\ flight' \in IF flight[s] = "due"
                 THEN {[flight EXCEPT ![s] = "waiting"], [flight EXCEPT ![s] = "none"]}
                 ELSE {[flight EXCEPT ![s] = "waiting"]}
  /\ passes' = [t \in Streams |-> IF t = s THEN 0
                                  ELSE IF passes[t] < TimeoutPasses THEN passes[t] + 1 ELSE passes[t]]

\* One pass of serviceOnce().
Pass ==
  /\ overdue' = [s \in Streams |-> overdue[s] /\ pending[s]]
  /\ IF PickNext(Backlogs) = NoStream
     THEN /\ passes' = [t \in Streams |-> IF passes[t] < TimeoutPasses THEN passes[t] + 1 ELSE passes[t]]
          /\ UNCHANGED flight
     ELSE Serves(PickNext(Backlogs))
  /\ UNCHANGED pending

\* Records come in, a batch is acknowledged and more may be waiting, a timeout or a quota ends.
Arrives(s) == ~pending[s] /\ pending' = [pending EXCEPT ![s] = TRUE] /\ UNCHANGED <<flight, passes, overdue>>

Answered(s) ==
  /\ flight[s] # "none"
  /\ passes[s] >= AnswerPasses
  /\ flight' = [flight EXCEPT ![s] = "none"]
  /\ pending' \in {pending, [pending EXCEPT ![s] = FALSE]}
  /\ UNCHANGED <<passes, overdue>>

FallsDue(s) ==
  /\ flight[s] = "waiting"
  /\ passes[s] >= TimeoutPasses
  /\ flight' = [flight EXCEPT ![s] = "due"]
  /\ UNCHANGED <<pending, passes, overdue>>

QuotaPasses(s) ==
  /\ s # "Events"
  /\ pending[s]
  /\ ~overdue[s]
  /\ overdue' = [overdue EXCEPT ![s] = TRUE]
  /\ UNCHANGED <<pending, flight, passes>>

-----------------------------------------------------------------------------
(* Properties                                                              *)

Waits(s) == pending[s] /\ flight[s] = "none"
GetsATurn(s) == Waits(s) ~> ~Waits(s)

\* "con cuota mínima para data para que no se quede sin turno" (UplinkScheduler.h): whatever
\* the other streams send, are answered and send again, a stream that waits gets its turn.
EveryStreamGetsATurn == \A s \in Streams : GetsATurn(s)
=============================================================================
