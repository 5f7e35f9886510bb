--------------------------- MODULE MCConsentFloor ---------------------------
(* Small instances of ConsentFloor for TLC.  Callers are interchangeable.  *)
EXTENDS ConsentFloor, TLC

CallerSymmetry == Permutations(Callers)
=============================================================================
