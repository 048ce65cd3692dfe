---------------------------- MODULE MCHoloStage ----------------------------
(* Instances of HoloStage for TLC: a globe, a chart and a map of one place. *)
EXTENDS HoloStage

CONSTANT paris

StageSpecs ==
  {[type |-> "globe", title |-> "sites"],
   [type |-> "bar_3d", title |-> "load"],
   [type |-> "map", title |-> "paris", req |-> paris]}
============================================================================
