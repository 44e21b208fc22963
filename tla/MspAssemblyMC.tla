---------------------------- MODULE MspAssemblyMC ----------------------------
(* MspAssembly for TLC: run slots and roots are interchangeable.            *)
EXTENDS MspAssembly, TLC

Symmetry == Permutations(Procs) \cup Permutations(Roots)

=============================================================================
