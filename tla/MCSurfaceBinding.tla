-------------------------- MODULE MCSurfaceBinding --------------------------
(***************************************************************************)
(* Instances of SurfaceBinding.                                            *)
(***************************************************************************)
EXTENDS SurfaceBinding, TLC

Symmetry ==
  Permutations(Ports) \cup Permutations(Effects) \cup Permutations(Missions)
    \cup Permutations(Surfaces) \cup Permutations(References)
=============================================================================
