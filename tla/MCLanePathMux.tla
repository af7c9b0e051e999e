--------------------------- MODULE MCLanePathMux ---------------------------
(* LanePathMux with the initial lanes of stack.launch.py, which passes neither *)
(* node its yaml.                                                              *)
EXTENDS LanePathMux
=============================================================================
