----------------------------- MODULE MCMetadata -----------------------------
(* Model-checking instance of Metadata: one user label key and a lineage   *)
(* of three builds, enough for two renames into bootstrap_history.         *)
EXTENDS Metadata

CONSTANTS k1

MCUserKeys == {k1}
MCMaxBuilds == 3
MCRecipeKeys == {k1, "usage"}
MCSectionChoices == {MetaSections, {"labels"}}
=============================================================================
