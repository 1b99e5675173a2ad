---------------------------- MODULE RequestAnswer ----------------------------
(***************************************************************************)
(* What a node that sends a request to another one may rely on: a request  *)
(* ends with one answer at most, and a positive answer says what is true:  *)
(* the other node has done what the operation asks for.  A negative one    *)
(* says nothing; it stands for a refusal, a failure and silence alike.     *)
(***************************************************************************)
EXTENDS Naturals

CONSTANTS Requests, Subjects

VARIABLES
    subject,    \* what the requests made so far are about
    fulfilled,  \* what the other node has done
    reply       \* the answer of a request, "none" before there is one

answerVars == <<subject, fulfilled, reply>>

AnswerInit ==
    /\ subject = [r \in Requests |-> "none"]
    /\ fulfilled \subseteq Subjects
    /\ reply = [r \in Requests |-> "none"]

Ask(r, o) ==
    /\ subject[r] = "none"
    /\ subject' = [subject EXCEPT ![r] = o]
    /\ UNCHANGED <<fulfilled, reply>>

Fulfil(o) ==
    /\ fulfilled' = fulfilled \cup {o}
    /\ UNCHANGED <<subject, reply>>

Reply(r, a) ==
    /\ subject[r] # "none" /\ reply[r] = "none"
    /\ a = "ACK" => subject[r] \in fulfilled
    /\ reply' = [reply EXCEPT ![r] = a]
    /\ UNCHANGED <<subject, fulfilled>>

AnswerNext ==
    \/ \E o \in Subjects : Fulfil(o) \/ \E r \in Requests : Ask(r, o)
    \/ \E r \in Requests, a \in {"ACK", "NACK"} : Reply(r, a)

AnswerSpec == AnswerInit /\ [][AnswerNext]_answerVars
=============================================================================
