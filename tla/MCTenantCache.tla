--------------------------- MODULE MCTenantCache ---------------------------
(* Two keys and two requests at a time.                                    *)
EXTENDS TenantCache, TLC

CONSTANTS k1, k2, r1, r2

Keys == {k1, k2}
Requests == {r1, r2}
Symmetric == Permutations(Keys) \cup Permutations(Requests)
=============================================================================
