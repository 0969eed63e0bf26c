-------------------------- MODULE MCKnowledgeBase --------------------------
(* A tenant with two seeded incidents and one that only learns.            *)
EXTENDS KnowledgeBase

CONSTANTS acme, other

AllTenants == {acme, other}
SeededTenants == <<acme>>
=============================================================================
