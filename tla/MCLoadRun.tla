----------------------------- MODULE MCLoadRun ------------------------------
(* LoadRun for TLC: two ticks a second, so that a cell may start and end in *)
(* the middle of one; a short cell, whose traffic the next must not be      *)
(* charged for, and one that is longer than what its report may miss.       *)
EXTENDS LoadRun

CONSTANTS ShortRun, LongRun

MCMaxRun == <<ShortRun, LongRun>>
=============================================================================
