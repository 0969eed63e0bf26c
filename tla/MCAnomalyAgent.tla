--------------------------- MODULE MCAnomalyAgent ---------------------------
(***************************************************************************)
(* A small instance of AnomalyAgent: four errors of two services; a        *)
(* collection of one embedding, evicted two at a time, so that cold starts *)
(* pass the limit and evictions make services cold; and a pattern so far   *)
(* from the others that its confidence exceeds 1.                          *)
(***************************************************************************)
EXTENDS AnomalyAgent

CONSTANTS t1, s1, s2, p1, p2, p3

Error(s, p, n) == [tenant |-> t1, service |-> s, error |-> TRUE, pattern |-> p, stamp |-> n]

LogTopic ==
    << Error(s1, p1, 1), Error(s2, p1, 3), Error(s1, p2, 2), Error(s2, p3, 4) >>

Distances ==
    [pq \in {p1, p2, p3} \X {p1, p2, p3} |->
        IF pq[1] = pq[2] THEN 0 ELSE IF p3 \in {pq[1], pq[2]} THEN 4 ELSE 2]
=============================================================================
