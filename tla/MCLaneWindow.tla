---------------------------- MODULE MCLaneWindow ----------------------------
(* LaneWindow with a bounded clock, a bounded generation and a bounded      *)
(* number of late executors.                                                *)
EXTENDS LaneWindow, FiniteSets

CONSTANTS MaxTick, MaxGeneration, MaxTides

MCBound ==
  /\ now <= MaxTick
  /\ lane.generation <= MaxGeneration
  /\ Cardinality(tides) <= MaxTides
=============================================================================
