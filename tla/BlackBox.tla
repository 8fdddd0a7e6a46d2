------------------------------ MODULE BlackBox ------------------------------
(***************************************************************************)
(* What the capture of log lines promises, whatever it is made of: a queue *)
(* of records, oldest first, that never refuses a record, counts each one  *)
(* it gives up for lack of room, is served one record at a time, each sink *)
(* at most once and in the order of capture, and comes through a reset     *)
(* whole or not at all.                                                    *)
(***************************************************************************)
EXTENDS Naturals, Sequences

CONSTANTS
  Room,   \* records the queue holds
  Sinks,  \* where records go
  None    \* no record

VARIABLES
  waiting,  \* records captured and not served, oldest first
  lost,     \* records given up for lack of room
  serving,  \* the record in hand and the sinks it has still to reach
  output    \* sink -> the record that reached it last

bbvars == <<waiting, lost, serving, output>>

Init ==
  /\ waiting = <<>>
  /\ lost = 0
  /\ serving = [record |-> None, sinks |-> {}]
  /\ output = [s \in Sinks |-> None]

(* So many records come in.  The oldest make room for them and are counted; *)
(* of those that stay, the first may turn into another if one is spoiled.   *)
ComeIn(n, spoiled) ==
  /\ Len(waiting') <= Room
  /\ \E k \in 0..n :
       /\ lost' = lost + k
       /\ Len(waiting') = Len(waiting) + n - k
       /\ \A i \in 1..Len(waiting) : i > k + spoiled => waiting'[i - k] = waiting[i]
  /\ Len(waiting') < Len(waiting) + n => Len(waiting') = Room

(* One record, or two at once: a count of duplicates and the line that ended them. *)
Capture ==
  /\ \E n \in 1..2 : ComeIn(n, 0)
  /\ UNCHANGED <<serving, output>>

Take ==
  /\ serving.sinks = {}
  /\ waiting # <<>>
  /\ serving' = [record |-> Head(waiting), sinks |-> Sinks]
  /\ waiting' = Tail(waiting)
  /\ UNCHANGED <<lost, output>>

Serve(s) ==
  /\ s \in serving.sinks
  /\ output' \in {output, [output EXCEPT ![s] = serving.record]}
  /\ serving' = [record |-> IF serving.sinks = {s} THEN None ELSE serving.record,
                  sinks |-> serving.sinks \ {s}]
  /\ UNCHANGED <<waiting, lost>>

Reset ==
  /\ serving' = [record |-> None, sinks |-> {}]
  /\ UNCHANGED output
  /\ \/ waiting' = <<>> /\ lost' = 0
     \/ \E n \in 0..2 : ComeIn(n, 0)
     \/ \E n \in 0..1 : ComeIn(n, 1) /\ Len(waiting') = Room

Next == Capture \/ Take \/ Reset \/ \E s \in Sinks : Serve(s)

Spec == Init /\ [][Next]_bbvars
=============================================================================
