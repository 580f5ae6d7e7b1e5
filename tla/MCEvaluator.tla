---------------------------- MODULE MCEvaluator ----------------------------
(* Values for Evaluator's runs. *)
EXTENDS Evaluator

(* Eyes that are shut, in the band or open against either of two widest       *)
(* openings; poses and mouths at their threshold and one short of it.         *)
MCFaces ==
  [ear : {0, 50, 70, 100}, yaw : {0}, pitch : {0}, mar : {54}] \cup
  {[ear |-> 50, yaw |-> 15, pitch |-> 0, mar |-> 54],
   [ear |-> 50, yaw |-> 14, pitch |-> -15, mar |-> 54],
   [ear |-> 50, yaw |-> 0, pitch |-> 14, mar |-> 55]}

(* The shipped pair, and the narrowest and widest bands config.go lets through. *)
MCRatios == {<<60, 85>>, <<94, 95>>, <<5, 95>>}
============================================================================
