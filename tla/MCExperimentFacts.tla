------------------------ MODULE MCExperimentFacts --------------------------
\* ExperimentFacts on a small instance.
EXTENDS ExperimentFacts, TLC

Symmetry == Permutations(Apps)
=============================================================================
