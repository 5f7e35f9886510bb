---------------------------- MODULE MCDiskSpool ----------------------------
EXTENDS DiskSpool, TLC

CONSTANTS e1, e2, e3

\* Every event has an id of its own; or the first two, facts of one subject,
\* share theirs.
OwnIds    == [e \in Events |-> e]
SharedIds == [e \in Events |-> IF e = e2 THEN e1 ELSE e]

Perms == Permutations(Events \ Facts)
=============================================================================
