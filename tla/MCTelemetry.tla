---------------------------- MODULE MCTelemetry ----------------------------
(* Telemetry, with Sensors and UplinkTurns, on small instances.            *)
EXTENDS Telemetry

ThreePolicies ==
  { Immediate,
    [kind |-> "Batch", periodSec |-> 1, maxSamples |-> 0],
    [kind |-> "Batch", periodSec |-> 2, maxSamples |-> 2] }
=============================================================================
