-------------------------- MODULE MCIncidentStages --------------------------
(***************************************************************************)
(* A small instance of IncidentStages: two partitions, with an incident of *)
(* each kind and a malformed message.                                      *)
(***************************************************************************)
EXTENDS IncidentStages

CONSTANTS p1, p2

TwoPartitions == {p1, p2}
Garbled == {<<p2, 2>>}
Special == {<<p2, 1>>}
LowSeverity == {<<p1, 1>>}
=============================================================================
