----------------------------- MODULE MCChannels -----------------------------
(* Ble, with Commands, on small instances.                                 *)
EXTENDS Ble

CONSTANTS pump

(* What may be sent: all but a timed command for a task that is not there. *)
AllButOne == Commands \ {[kind |-> "timed", task |-> NoTask]}

(* The schema takes three chunks at the default MTU and two at a larger one. *)
TwoOrThree == [mtu \in {23, 185} |-> IF mtu = 23 THEN 3 ELSE 2]
=============================================================================
