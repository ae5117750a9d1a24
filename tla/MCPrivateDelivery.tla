-------------------------- MODULE MCPrivateDelivery --------------------------
(* Instances of PrivateDelivery for TLC. *)
EXTENDS PrivateDelivery

ReceiverTwice == [u \in Users |-> IF u = Receiver THEN 2 ELSE 1]
SenderTwice   == [u \in Users |-> IF u = Sender THEN 2 ELSE 1]
BothTwice     == [u \in Users |-> 2]
=============================================================================
