------------------------- MODULE MCAlertCorrelator -------------------------
(***************************************************************************)
(* A small instance of AlertCorrelator: two alerts of one tenant from two  *)
(* services, the first one the more severe, with an alert of another       *)
(* tenant between them, and a malformed message.                           *)
(***************************************************************************)
EXTENDS AlertCorrelator, TLC

CONSTANTS p1, t1, t2, s1, s2

OnePartition == {p1}
TwoTenants == {t1, t2}
TwoServices == {s1, s2}
Tenants == <<p1, 1>> :> t1 @@ <<p1, 2>> :> t2 @@ <<p1, 3>> :> t1 @@ <<p1, 4>> :> t1
ServicesOf == <<p1, 1>> :> s1 @@ <<p1, 2>> :> s2 @@ <<p1, 3>> :> s2 @@ <<p1, 4>> :> s1
Severities == <<p1, 1>> :> 3 @@ <<p1, 2>> :> 4 @@ <<p1, 3>> :> 2 @@ <<p1, 4>> :> 1
Last == {<<p1, LogLen>>}
=============================================================================
