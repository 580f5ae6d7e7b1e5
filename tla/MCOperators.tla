---------------------------- MODULE MCOperators ----------------------------
(***************************************************************************)
(* Environments for the configuration, and measurements for the calibration: *)
(* a behaviour builds up one or the other.                                   *)
(***************************************************************************)
EXTENDS Config, Calibration

vars == <<given, samples, direction>>

Init == ConfigInit /\ CalibrationInit

Configuring == direction = "higher" /\ samples = <<>> /\ Give /\ UNCHANGED <<samples, direction>>

Measuring == given = [v \in {} |-> Unset] /\ Measure /\ UNCHANGED given

Next == Configuring \/ Measuring

Spec == Init /\ [][Next]_vars
=============================================================================
