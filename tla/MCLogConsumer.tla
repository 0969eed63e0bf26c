--------------------------- MODULE MCLogConsumer ---------------------------
(***************************************************************************)
(* Small instances of LogConsumer.                                         *)
(***************************************************************************)
EXTENDS LogConsumer

CONSTANTS p1, t1

OnePartition == {p1}

\* The second and the third message share a trace id, the others have none.
RepeatedTrace == [m \in Message |-> IF m[2] \in {2, 3} THEN t1 ELSE NoTrace]

NoRecord == {}
Second == {<<p1, 2>>}
Fourth == {<<p1, 4>>}
=============================================================================
