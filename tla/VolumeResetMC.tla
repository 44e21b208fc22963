---------------------------- MODULE VolumeResetMC ----------------------------
(* VolumeReset for TLC: run slots are interchangeable.                      *)
EXTENDS VolumeReset, TLC

Symmetry == Permutations(Procs)

=============================================================================
