------------------------------ MODULE Delivery ------------------------------
(***************************************************************************)
(* Delivery over HTTP: the Sender of internal/delivery/delivery.go, which  *)
(* posts the oldest unacknowledged message of the queue (module Queue) and *)
(* waits for a matching acknowledgement before it takes the next one.      *)
(*                                                                         *)
(* The receiver is not part of the repository.  It keeps the contract      *)
(* docs/protocol.md states: it stores a message and its identity together, *)
(* stores no identity twice, and only then answers.  A request may be lost *)
(* before it, and its answer after it; a request the sender gave up on may *)
(* still arrive later.                                                     *)
(***************************************************************************)
EXTENDS Integers, Sequences, FiniteSets

CONSTANTS Bodies, Hash, Position, None,
          MaxSeq,       \* bound on sequence numbers
          MaxGen,       \* bound on generations
          MaxFaults     \* bound on lost requests and answers, errors and crashes

VARIABLES st, items, minted,   \* Queue
          pc,           \* the sender's step: "peek", "send", "ack" or "stopped"
          message,      \* what Peek returned: number and identity, or None
          requests,     \* requests on their way; live while the sender waits for the answer
          answer,       \* the receiver's answer to the current request, or None
          log,          \* the receiver's durable log
          faults

queueVars == <<st, items, minted>>
vars == <<queueVars, pc, message, requests, answer, log, faults>>

Q == INSTANCE Queue WITH SizeOf <- [b \in Bodies |-> 1], LSNs <- {Position},
       Hashes <- {Hash}, Tokens <- {}, LsnBytes <- 0, MaxBytes <- MaxSeq,
       ReplayBytes <- 0

Faulty == faults < MaxFaults /\ faults' = faults + 1

\* The queue's message n as a request.
Request(n) == [id |-> Q!MessageID(n), seq |-> n, body |-> items[n].body]

Ids(s) == {s[i].id : i \in 1..Len(s)}

-----------------------------------------------------------------------------
(* Capture, as the queue sees it: an unsealed snapshot may start over.     *)

Capture ==
  /\ \/ Q!Initialize(Hash)
     \/ /\ st.Generation # 0
        /\ \E b \in Bodies : Q!AppendMessage([body |-> b, version |-> None, lsn |-> None])
     \/ /\ st.Generation # 0 /\ st.NextSeq > st.ReadySeq
        /\ Q!Publish(Position, st.Phase = "snapshot")
     \/ st.NextSeq > st.ReadySeq /\ Q!Recover
  /\ UNCHANGED <<pc, message, requests, answer, log, faults>>

-----------------------------------------------------------------------------
(* Sender.Run and Send.                                                    *)

\* Peek: the oldest published message that is not acknowledged.
Peek == /\ pc = "peek" /\ st.DeliveredSeq < st.ReadySeq
        /\ message' = Request(st.DeliveredSeq + 1)
        /\ pc' = "send"
        /\ UNCHANGED <<queueVars, requests, answer, log, faults>>

\* Peek returned ErrEmpty: the loop waits and peeks again.
PeekEmpty == /\ pc = "peek" /\ st.DeliveredSeq >= st.ReadySeq
             /\ UNCHANGED vars

Live == [msg |-> message, live |-> TRUE]

\* The request goes out.
Post == /\ pc = "send" /\ answer = None /\ Live \notin requests
        /\ requests' = requests \cup {Live}
        /\ UNCHANGED <<queueVars, pc, message, answer, log, faults>>

\* What is left of the requests when the sender stops waiting: the current
\* one may be lost or may still arrive.
GivenUp == {{[r EXCEPT !.live = FALSE] : r \in requests}, {r \in requests : ~r.live}}

\* Variant of Retry: the failed message counts as delivered.
RetrySkipping ==
  /\ pc = "send" /\ Live \in requests
  /\ Faulty
  /\ pc' = "ack"
  /\ requests' \in GivenUp
  /\ UNCHANGED <<queueVars, message, answer, log>>

\* A transport error, a timeout, or an answer of 408, 429 or 5xx: the loop
\* waits for a growing delay and peeks again.
Retry ==
  /\ pc = "send" /\ Live \in requests
  /\ Faulty
  /\ pc' = "peek" /\ message' = None
  /\ requests' \in GivenUp
  /\ UNCHANGED <<queueVars, answer, log>>

\* Any other status, and an answer that is not the acknowledgement of this
\* message, end Run with an error.
Stop == /\ pc = "send" /\ Live \in requests
        /\ Faulty
        /\ pc' = "stopped"
        /\ requests' \in GivenUp
        /\ UNCHANGED <<queueVars, message, answer, log>>

\* The answer names the message that was sent.
Accepted == answer # None /\ answer.id = message.id /\ answer.seq = message.seq

\* Variant of Answered: the queue is not told.
AnsweredUnacked == /\ pc = "send" /\ Accepted
                   /\ pc' = "peek" /\ message' = None
                   /\ answer' = None
                   /\ UNCHANGED <<queueVars, requests, log, faults>>

Answered == /\ pc = "send" /\ Accepted
            /\ pc' = "ack"
            /\ answer' = None
            /\ UNCHANGED <<queueVars, message, requests, log, faults>>

\* q.Ack; an error of Ack ends Run.
CanAck == /\ message.seq = st.DeliveredSeq + 1 /\ message.seq <= st.ReadySeq
          /\ message.seq \in DOMAIN items /\ message.id = Q!MessageID(message.seq)

AckMessage ==
  /\ pc = "ack"
  /\ IF CanAck
     THEN /\ Q!Ack(message.seq, message.id, {})
          /\ pc' = "peek" /\ message' = None
     ELSE /\ pc' = "stopped"
          /\ UNCHANGED <<queueVars, message>>
  /\ UNCHANGED <<requests, answer, log, faults>>

\* The process dies, or exits after an error, and starts again.
Restart == /\ (pc = "stopped" /\ UNCHANGED faults) \/ Faulty
           /\ Q!Recover
           /\ pc' = "peek" /\ message' = None /\ answer' = None
           /\ requests' \in GivenUp
           /\ UNCHANGED log

-----------------------------------------------------------------------------
(* The receiver.                                                           *)

\* A request arrives: stored unless its identity is known, then answered.
Receive ==
  \E r \in requests :
    /\ requests' = requests \ {r}
    /\ log' = IF r.msg.id \in Ids(log) THEN log ELSE Append(log, r.msg)
    /\ answer' = IF r.live THEN [id |-> r.msg.id, seq |-> r.msg.seq] ELSE answer
    /\ UNCHANGED <<queueVars, pc, message, faults>>

\* The answer is lost: the sender's request times out.
AnswerLost == /\ pc = "send" /\ answer # None
              /\ Faulty
              /\ answer' = None
              /\ pc' = "peek" /\ message' = None
              /\ UNCHANGED <<queueVars, requests, log>>

-----------------------------------------------------------------------------

Init == /\ Q!Open
        /\ pc = "peek" /\ message = None
        /\ requests = {} /\ answer = None /\ log = <<>> /\ faults = 0

Run == Peek \/ PeekEmpty \/ Post \/ Retry \/ Stop \/ Answered \/ AckMessage

Next == Capture \/ Run \/ Restart \/ Receive \/ AnswerLost

Spec == Init /\ [][Next]_vars

\* The sender's goroutine runs, the service manager restarts the process, and
\* the network and the receiver are up once faults stop.
FairSpec == /\ Spec
            /\ WF_vars(Peek \/ Post \/ Answered \/ AckMessage)
            /\ WF_vars(Receive)
            /\ WF_vars(pc = "stopped" /\ Restart)

-----------------------------------------------------------------------------
(* Properties.                                                             *)

\* Types of the sender's variables and of the receiver's log.
TypeOK == /\ Q!TypeOK
          /\ pc \in {"peek", "send", "ack", "stopped"}
          /\ log \in Seq([id : (1..MaxGen) \X (1..MaxSeq), seq : 1..MaxSeq, body : Bodies])
          /\ Cardinality(requests) <= MaxSeq

\* The receiver's log is what the queue published, in its order and without
\* repetition or gap, whatever is lost, repeated or late; and it is never more
\* than the one message in flight ahead of the acknowledgements.  The queue accepts
\* every acknowledgement the sender passes on: capture, recovery and late answers
\* never make Ack fail after a successful Send.
DeliveredInOrder ==
  /\ \A i \in 1..Len(log) : log[i].seq = i
  /\ \A i \in 1..Len(log) : i \in DOMAIN items => log[i] = Request(i)
  /\ Len(log) \in {st.DeliveredSeq, st.DeliveredSeq + 1}
  /\ pc = "ack" => CanAck

\* Everything that is published reaches the receiver and is acknowledged.
AllDelivered == \A n \in 1..MaxSeq :
                  (st.ReadySeq = n) ~> (st.DeliveredSeq >= n /\ Len(log) >= n)
=============================================================================
