------------------------------- MODULE Outbox -------------------------------
(***************************************************************************)
(* What the durable queue promises its two users, the capture that fills   *)
(* it and the delivery that drains it: a transactional FIFO.  Messages are *)
(* staged invisibly, a commit exposes everything staged at once, recovery  *)
(* may only forget what is staged, and the only way a visible message      *)
(* leaves is to be consumed, in order, one at a time.                      *)
(***************************************************************************)
EXTENDS Sequences

CONSTANT Bodies        \* message contents

VARIABLES pending,     \* exposed and not yet consumed, oldest first
          staged       \* written and still invisible

vars == <<pending, staged>>

TypeOK == /\ pending \in Seq(Bodies)
          /\ staged \in Seq(Bodies)

Init == TypeOK

Stage(body) == /\ staged' = Append(staged, body)
               /\ UNCHANGED pending

Discard == /\ staged' = <<>>
           /\ UNCHANGED pending

Commit == /\ pending' = pending \o staged
          /\ staged' = <<>>

Consume == /\ pending # <<>>
           /\ pending' = Tail(pending)
           /\ UNCHANGED staged

Next == \/ \E body \in Bodies : Stage(body)
        \/ Discard
        \/ Commit
        \/ Consume

Spec == Init /\ [][Next]_vars
=============================================================================
