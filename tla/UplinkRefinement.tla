-------------------------- MODULE UplinkRefinement --------------------------
(***************************************************************************)
(* Uplink keeps each stream's journal within what DurableLog promises: it  *)
(* never acknowledges what is not synced, nor takes an acknowledgement     *)
(* back.                                                                   *)
(***************************************************************************)
EXTENDS Uplink

Log(s) == INSTANCE DurableLog WITH log <- journal[s], NoAck <- -1

\* Each stream's journal, as the uplink uses it, is the log that Journal implements.
KeepsLogs ==
  /\ \A s \in Streams : Log(s)!Init
  /\ [][\A s \in Streams : [Log(s)!Next]_(journal[s])]_journal
=============================================================================
