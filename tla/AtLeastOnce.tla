---------------------------- MODULE AtLeastOnce ----------------------------
(***************************************************************************)
(* What a consuming stage of the pipeline does with the messages of its    *)
(* topic: the group's offset moves over a message only when the message is *)
(* settled or was abandoned.  What settles a message - a record on the     *)
(* next topic, a dead letter, a deliberate skip - and what makes a stage   *)
(* abandon it is for the implementing stage to say.  A stage that abandons *)
(* nothing is at-least-once; the exceptions are kept in a variable of      *)
(* their own, so that no loss counts as an outcome.                        *)
(***************************************************************************)
EXTENDS Naturals

CONSTANTS
    Partition,      \* partitions of the consumed topic
    LogLen          \* messages in each partition

VARIABLES
    committed,      \* per partition, the next offset of the consumer group
    settled,        \* messages that are accounted for
    abandoned       \* messages the stage has given up without a trace

vars == <<committed, settled, abandoned>>

Message == Partition \X (1 .. LogLen)

\* The messages of a partition before offset k.
Before(p, k) == {p} \X (1 .. k - 1)

Init ==
    /\ committed = [p \in Partition |-> 1]
    /\ settled = {}
    /\ abandoned = {}

\* One or more messages are accounted for, and stay so.
Settle ==
    /\ settled' \in SUBSET Message
    /\ settled \subseteq settled'
    /\ UNCHANGED <<committed, abandoned>>

\* The message in hand is given up.
Abandon ==
    /\ \E m \in Message : abandoned' = abandoned \cup {m}
    /\ UNCHANGED <<committed, settled>>

\* The offsets move on, past settled and abandoned messages only.
Advance ==
    /\ committed' \in [Partition -> 1 .. LogLen + 1]
    /\ \A p \in Partition :
        /\ committed[p] <= committed'[p]
        /\ Before(p, committed'[p]) \subseteq settled \cup abandoned
    /\ UNCHANGED <<settled, abandoned>>

Next == Settle \/ Abandon \/ Advance

Spec == Init /\ [][Next]_vars
=============================================================================
