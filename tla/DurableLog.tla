----------------------------- MODULE DurableLog -----------------------------
(***************************************************************************)
(* What the journal promises of one stream, without files, segments or an  *)
(* index: a log with consecutive numbers, of which a crash can only take   *)
(* the end that is not yet synced, and space pressure only the beginning.  *)
(***************************************************************************)
EXTENDS Integers

CONSTANTS MaxSeq, NoAck

VARIABLE
  log  \* oldest kept, next to be handed out, synced below, acknowledged up to

Appended(l) == [l EXCEPT !.next = @ + 1]
SyncedAll(l) == [l EXCEPT !.synced = l.next]
Restarted(l, next) == [l EXCEPT !.next = next, !.synced = next]
AckedTo(l, upTo) == [l EXCEPT !.acked = IF upTo > @ THEN upTo ELSE @]
ReclaimedTo(l, oldest) == [l EXCEPT !.oldest = oldest]

Init == log = [oldest |-> 0, next |-> 0, synced |-> 0, acked |-> NoAck]

Append == log.next < MaxSeq /\ log' = Appended(log)
AppendSynced == log.next < MaxSeq /\ log' = SyncedAll(Appended(log))
Sync == log' = SyncedAll(log)
Restart == \E next \in log.synced .. log.next : log' = Restarted(log, next)
Ack == \E upTo \in 0 .. log.synced - 1 : log' = AckedTo(log, upTo)
Reclaim == \E oldest \in log.oldest .. log.synced : log' = ReclaimedTo(log, oldest)

Next == Append \/ AppendSynced \/ Sync \/ Restart \/ Ack \/ Reclaim

Spec == Init /\ [][Next]_log
=============================================================================
