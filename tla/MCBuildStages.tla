--------------------------- MODULE MCBuildStages ---------------------------
(* Model-checking instance of BuildStages: two stages, Full's five        *)
(* conveyor attempts, one signal.                                           *)
EXTENDS BuildStages

MCNumStages == 2
MCConveyorAttempts == 5
MCMaxSignals == 1
=============================================================================
