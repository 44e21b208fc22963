----------------------------- MODULE NodePrepMC -----------------------------
\* Instances of NodePrep for TLC.
EXTENDS NodePrep, TLC

\* Passwords are interchangeable, and so are the slots.
Symmetry == Permutations(Procs) \cup Permutations(Passwords)
=============================================================================
