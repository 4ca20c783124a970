----------------------------- MODULE MCDelivery -----------------------------
(* The HTTP sender with two kinds of message and a few faults.             *)
EXTENDS Delivery
=============================================================================
