----------------------------- MODULE MCRcaAgent -----------------------------
(***************************************************************************)
(* A small instance of RcaAgent: a valid incident, one that is no incident *)
(* and one that cannot be decoded, two iterations of the loop with one tool *)
(* call each, two attempts, and one browser.                               *)
(***************************************************************************)
EXTENDS RcaAgent

CONSTANTS c1

Topic == <<"valid", "invalid", "undecodable">>
=============================================================================
