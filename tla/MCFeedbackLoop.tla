--------------------------- MODULE MCFeedbackLoop ---------------------------
(***************************************************************************)
(* A small instance of FeedbackLoop: four incidents, of which the first    *)
(* two were investigated and cached long ago, the first by another tenant. *)
(* The third is similar to the second, the fourth to the third only (among *)
(* its own tenant's), and all are similar to the other tenant's incident.  *)
(***************************************************************************)
EXTENDS FeedbackLoop

CONSTANTS t1, t2

Incidents == 1 .. 4
PastIncidents == {1, 2}
WithoutTtl == {1}
Tenants == {t1, t2}
TenantsOf == [i \in Incidents |-> IF i = 1 THEN t2 ELSE t1]
Scores ==
    [p \in Incidents \X Incidents |->
        IF p[1] = p[2] THEN 3 ELSE IF {p[1], p[2]} = {2, 4} THEN 1 ELSE 2]
Seeds == {2}
Labels == {3}
Observations == {}
Distances ==
    [p \in Incidents \X Incidents |->
        IF p[1] = p[2] THEN 3 ELSE IF p[2] = 3 THEN 2 ELSE IF p = <<4, 2>> THEN 1 ELSE 0]
=============================================================================
