------------------------------- MODULE MCLink -------------------------------
(* Link, with Levels, on small instances.                                  *)
EXTENDS Link

CONSTANTS unset, none, torn, other, mqtt

NoCodeLevels == [t \in Tags |-> Unset]

(* More of one tag, more of everything in very many words, and more of     *)
(* everything for a while.                                                 *)
Detail == [default |-> Unset, tags |-> [t \in Tags |-> 3], ttlSec |-> 0, fits |-> TRUE]
Everything == [default |-> 3, tags |-> [t \in Tags |-> Unset], ttlSec |-> 0, fits |-> FALSE]
ForAWhile == [default |-> 4, tags |-> [t \in Tags |-> Unset], ttlSec |-> 1, fits |-> TRUE]
ThreeConfigs == {Detail, Everything, ForAWhile}

(* One account over the network, another over both, or over BLE only. *)
ThreeFirmwares ==
  { [account |-> "a", channels |-> <<"remote">>],
    [account |-> "b", channels |-> <<"ble", "remote">>],
    [account |-> "b", channels |-> <<"ble">>] }
=============================================================================
