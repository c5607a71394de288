------------------------- MODULE MCMissionAdmission -------------------------
(***************************************************************************)
(* Three processes admit one mission key under two contents.               *)
(***************************************************************************)
EXTENDS MissionAdmission, TLC

Symmetry == Permutations(Admitters) \cup Permutations(Contents)
=============================================================================
