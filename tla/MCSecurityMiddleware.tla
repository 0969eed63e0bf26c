------------------------ MODULE MCSecurityMiddleware ------------------------
(***************************************************************************)
(* A small instance of SecurityMiddleware: one partition with a log that   *)
(* holds both threats, one with personal data and a tenant_id that is no   *)
(* string, a log with personal data only and a message that is not a       *)
(* RawLogMessage.  One that is not JSON would only join it at the commit.  *)
(***************************************************************************)
EXTENDS SecurityMiddleware

CONSTANT p1

OnePartition == {p1}
Nothing == {}
First == {<<p1, 1>>}
Second == {<<p1, 2>>}
FirstToThird == {<<p1, 1>>, <<p1, 2>>, <<p1, 3>>}
Fourth == {<<p1, 4>>}
=============================================================================
