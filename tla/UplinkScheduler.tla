-------------------------- MODULE UplinkScheduler --------------------------
(***************************************************************************)
(* Whose turn it is to send (telemetry/UplinkScheduler.h).  A backlog says *)
(* of each stream whether it has records to send, whether a batch of it is *)
(* in flight and due to be sent again, and whether it has been waiting for *)
(* longer than its quota.                                                  *)
(***************************************************************************)
EXTENDS Integers

AllStreams == {"Events", "Logs", "Data"}
NoStream == "none"

Backlog == [hasPending : BOOLEAN, inFlight : BOOLEAN, retryDue : BOOLEAN, overdue : BOOLEAN]

\* Of a set of streams, the one that goes first: events > logs > data.
First(S) ==
  CASE "Events" \in S -> "Events"
    [] "Events" \notin S /\ "Logs" \in S -> "Logs"
    [] S = {"Data"} -> "Data"
    [] OTHER -> NoStream

RetryDue(backlog) == {s \in DOMAIN backlog : backlog[s].inFlight /\ backlog[s].retryDue}
ReadyAgain(backlog) == {s \in DOMAIN backlog : backlog[s].hasPending}
Ready(backlog) == {s \in DOMAIN backlog : backlog[s].hasPending /\ ~backlog[s].inFlight}
Overdue(backlog) == {s \in Ready(backlog) : backlog[s].overdue}

\* (Without the retries, and without the quotas.)
PickFresh(backlog) == First(Ready(backlog))

\* pickNext(): a due retry, a stream past its quota (Data before Logs; Events has none), or
\* the first that has something to send.
PickNext(backlog) ==
  IF RetryDue(backlog) # {} THEN First(RetryDue(backlog))
  ELSE IF "Data" \in Overdue(backlog) THEN "Data"
  ELSE IF "Logs" \in Overdue(backlog) THEN "Logs"
  ELSE First(Ready(backlog))
=============================================================================
