------------------------- MODULE MCRadarDataManager -------------------------
(* The data manager for TLC: a task more than there are slots, and one     *)
(* fill level, which is what the sensor delivers at a time.                *)
EXTENDS RadarDataManager

MCTasks    == {"a", "b", "c"}
OneLevel   == {2}
WholeLevel == {2}
=============================================================================
