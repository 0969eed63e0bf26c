--------------------------- MODULE MCLogIngestion ---------------------------
(* Two valid logs and an invalid one, each sent up to twice, two requests  *)
(* a second.                                                               *)
EXTENDS LogIngestion, TLC

CONSTANTS a, b, bad

Logs == {a, b, bad}
ValidLogs == {a, b}
Symmetric == Permutations(ValidLogs)
=============================================================================
