------------------------- MODULE MCExperimentStore --------------------------
EXTENDS ExperimentStore, TLC

\* The experiments are interchangeable.
Symmetry == Permutations(Keys)
=============================================================================
