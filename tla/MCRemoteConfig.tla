--------------------------- MODULE MCRemoteConfig ---------------------------
EXTENDS RemoteConfig, TLC

CONSTANTS proc1, proc2, fet1, fet2, fet3

\* proc1 overlaps two fetches; proc2 shares the cache file with it.
MCProcOf == fet1 :> proc1 @@ fet2 :> proc1 @@ fet3 :> proc2

\* The two fetches of proc1 are interchangeable.
Symmetry == Permutations({fet1, fet2})
=============================================================================
