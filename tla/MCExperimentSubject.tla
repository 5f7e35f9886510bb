------------------------ MODULE MCExperimentSubject ------------------------
\* ExperimentSubject on a small instance.
EXTENDS ExperimentSubject, TLC

Symmetry == Permutations(Ids) \union Permutations(Calls) \union Permutations(Keys)
=============================================================================
