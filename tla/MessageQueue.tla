---------------------------- MODULE MessageQueue ----------------------------
(***************************************************************************)
(* What the CEC message list promises: a FIFO queue between one producer,  *)
(* which numbers its messages, and one consumer.  It is emptied when a     *)
(* session of the producer begins, and only then.                          *)
(***************************************************************************)
EXTENDS Naturals, Sequences

VARIABLES queue, processing, arrived

queueVars == <<queue, processing, arrived>>

Idle == 0

Add ==
    /\ arrived' = arrived + 1
    /\ queue' = Append(queue, arrived')
    /\ UNCHANGED processing

Remove ==
    /\ processing = Idle
    /\ queue # <<>>
    /\ processing' = Head(queue)
    /\ queue' = Tail(queue)
    /\ UNCHANGED arrived

Finish ==
    /\ processing # Idle
    /\ processing' = Idle
    /\ UNCHANGED <<queue, arrived>>

Begin ==
    /\ processing = Idle
    /\ queue' = <<>>
    /\ UNCHANGED <<processing, arrived>>

Init == queue = <<>> /\ processing = Idle /\ arrived = 0

Next == Add \/ Remove \/ Finish \/ Begin

Spec == Init /\ [][Next]_queueVars

=============================================================================
