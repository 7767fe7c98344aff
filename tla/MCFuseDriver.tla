---------------------------- MODULE MCFuseDriver ----------------------------
(* Model-checking instance of FuseDriver: two mount points, three helper   *)
(* processes, three poll ticks.                                             *)
EXTENDS FuseDriver

CONSTANTS t1, t2

MCTargets == {t1, t2}
MCMaxMounts == 3
MCMaxTicks == 3
=============================================================================
