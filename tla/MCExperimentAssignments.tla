---------------------- MODULE MCExperimentAssignments -----------------------
EXTENDS ExperimentAssignments, TLC

\* The experiments are interchangeable, and so are the host's calls.
Symmetry == Permutations(Keys) \union Permutations(Calls)
=============================================================================
