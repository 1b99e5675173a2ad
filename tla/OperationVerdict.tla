--------------------------- MODULE OperationVerdict ---------------------------
(***************************************************************************)
(* What a network operation of the OT-node promises, however it asks the   *)
(* nodes of the shard (how many of them, in which batches, with how many   *)
(* retries, and with what interleaving of their answers): it succeeds only *)
(* when MinAck different nodes acknowledged, it fails only when that       *)
(* cannot happen any more, and it does so at most once.                    *)
(***************************************************************************)
EXTENDS Integers, FiniteSets

CONSTANTS Answerers, MinAck

VARIABLES
    asked,      \* the nodes of the shard, {} before they are known
    acked,      \* those that acknowledged
    refused,    \* those that did not
    verdict

vars == <<asked, acked, refused, verdict>>

Init ==
    /\ asked = {} /\ acked = {} /\ refused = {}
    /\ verdict = "IN_PROGRESS"

Ask ==
    /\ asked = {} /\ verdict = "IN_PROGRESS"
    /\ \E S \in SUBSET Answerers : S # {} /\ asked' = S
    /\ UNCHANGED <<acked, refused, verdict>>

Answer(n) ==
    /\ n \in asked \ (acked \cup refused)
    /\ \/ acked' = acked \cup {n} /\ UNCHANGED refused
       \/ refused' = refused \cup {n} /\ UNCHANGED acked
    /\ UNCHANGED <<asked, verdict>>

Succeed ==
    /\ verdict = "IN_PROGRESS"
    /\ Cardinality(acked) >= MinAck
    /\ verdict' = "COMPLETED"
    /\ UNCHANGED <<asked, acked, refused>>

Fail ==
    /\ verdict = "IN_PROGRESS"
    /\ Cardinality(asked \ refused) < MinAck
    /\ verdict' = "FAILED"
    /\ UNCHANGED <<asked, acked, refused>>

Next == Ask \/ (\E n \in Answerers : Answer(n)) \/ Succeed \/ Fail

Spec == Init /\ [][Next]_vars
=============================================================================
