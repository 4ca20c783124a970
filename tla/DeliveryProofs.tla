--------------------------- MODULE DeliveryProofs ---------------------------
(***************************************************************************)
(* Delivery in order over HTTP, for any messages, losses and crashes.      *)
(*                                                                         *)
(* DeliveredInOrder is not inductive: whether the receiver may append a    *)
(* request depends on where that request comes from.  The invariant says   *)
(* of every request on its way, live or given up, that the receiver has    *)
(* its message already or that it is the very next one, and of an answer   *)
(* that the message it acknowledges is stored.  Of the queue it needs only *)
(* that the cursors do not cross, that the unacknowledged messages are     *)
(* stored, and that what is stored is of one generation.                   *)
(***************************************************************************)
EXTENDS Delivery, TLAPS

\* The default prover and its time limit for the leaves that name none.
USE SMTT(60)

Entry == [id : Nat \X Nat, seq : Nat \ {0}, body : Bodies]

StateFields == {"Generation", "SchemaHash", "Phase", "SnapshotLSN", "DurableLSN",
                "SourceCleanup", "NextSeq", "ReadySeq", "DeliveredSeq", "Bytes",
                "EarliestSeq", "ArchiveBytes"}

\* What delivery relies on in the queue.
QueueInv ==
  /\ StateFields \subseteq DOMAIN st
  /\ st.DeliveredSeq \in Nat /\ st.ReadySeq \in Nat /\ st.NextSeq \in Nat
  /\ st.DeliveredSeq <= st.ReadySeq /\ st.ReadySeq <= st.NextSeq
  /\ st.Phase # "stream" => st.ReadySeq = 0
  /\ st.Generation # 0 => st.Phase \in {"snapshot", "stream"}
  /\ st.Generation \in Nat /\ minted \in Nat
  /\ DOMAIN items \subseteq 1..st.NextSeq
  /\ st.DeliveredSeq + 1 .. st.NextSeq \subseteq DOMAIN items
  /\ \A n \in DOMAIN items : items[n].Generation = st.Generation /\ items[n].body \in Bodies

\* The receiver's log is the beginning of what was published.
LogInv ==
  /\ log \in Seq(Entry)
  /\ Len(log) \in {st.DeliveredSeq, st.DeliveredSeq + 1} /\ Len(log) <= st.ReadySeq
  /\ \A i \in 1..Len(log) : /\ log[i].seq = i /\ log[i].id = <<st.Generation, i>>
                            /\ i \in DOMAIN items => log[i].body = items[i].body

\* A request repeats a message of the log or brings the next one.
Known(msg) == msg.seq <= Len(log) /\ msg.id = <<st.Generation, msg.seq>>
NextOne(msg) == /\ msg.seq = Len(log) + 1 /\ Len(log) = st.DeliveredSeq
                /\ msg.seq <= st.ReadySeq /\ msg = Request(msg.seq)

RequestInv ==
  /\ requests \subseteq [msg : Entry, live : BOOLEAN]
  /\ \A r \in requests : Known(r.msg) \/ NextOne(r.msg)
  /\ \A r \in requests : r.live => pc = "send" /\ r.msg = message /\ answer = None

\* The sender holds the next message, and an answer is to that one.
SenderInv ==
  /\ pc \in {"send", "ack"} => /\ st.DeliveredSeq < st.ReadySeq
                               /\ message = Request(st.DeliveredSeq + 1)
  /\ pc = "ack" => Len(log) = st.DeliveredSeq + 1
  /\ answer # None => pc = "send" /\ Len(log) = st.DeliveredSeq + 1

DeliveryInv == QueueInv /\ LogInv /\ RequestInv /\ SenderInv

-----------------------------------------------------------------------------
(* The queue.                                                              *)

\* Initialize leaves an empty queue of a new generation.
LEMMA InitializeQueue ==
  ASSUME QueueInv, Q!Initialize(Hash)
  PROVE  QueueInv' /\ st.ReadySeq = 0 /\ st'.DeliveredSeq = 0 /\ st'.ReadySeq = 0
<1>1. st.ReadySeq = 0
  BY DEF QueueInv, Q!Initialize
<1>2. items' = [n \in {} |-> None] /\ minted' = minted + 1
  BY DEF Q!Initialize
<1>3. /\ st'.DeliveredSeq = 0 /\ st'.ReadySeq = 0 /\ st'.NextSeq = 0
      /\ st'.Phase = "snapshot" /\ st'.Generation = minted + 1
      /\ StateFields \subseteq DOMAIN st'
  BY DEF Q!Initialize, Q!Blank, StateFields
<1> QED BY <1>1, <1>2, <1>3 DEF QueueInv

\* AppendMessage adds one message behind the others.
LEMMA AppendQueue ==
  ASSUME QueueInv, st.Generation # 0, NEW b \in Bodies,
         Q!AppendMessage([body |-> b, version |-> None, lsn |-> None])
  PROVE  /\ QueueInv'
         /\ st'.DeliveredSeq = st.DeliveredSeq /\ st'.ReadySeq = st.ReadySeq
         /\ st'.Generation = st.Generation
         /\ \A n \in DOMAIN items' : n <= st.ReadySeq => n \in DOMAIN items /\ items'[n] = items[n]
<1> DEFINE x == Q!Stamped([body |-> b, version |-> None, lsn |-> None])
           N == st.NextSeq
<1>1. x.Generation = st.Generation /\ x.body = b
  BY DEF Q!Stamped
<1>2. /\ items' = [n \in DOMAIN items \cup {N + 1} |-> IF n = N + 1 THEN x ELSE items[n]]
      /\ st' = [st EXCEPT !.NextSeq = @ + 1, !.Bytes = @ + x.size]
      /\ minted' = minted
  BY DEF Q!AppendMessage
<1> HIDE DEF x
<1>3. /\ StateFields \subseteq DOMAIN st'
      /\ st'.NextSeq = N + 1
      /\ st'.DeliveredSeq = st.DeliveredSeq /\ st'.ReadySeq = st.ReadySeq
      /\ st'.Phase = st.Phase /\ st'.Generation = st.Generation
  BY <1>2 DEF QueueInv, StateFields
<1>4. DOMAIN items' = DOMAIN items \cup {N + 1} /\ items'[N + 1] = x
  BY <1>2
<1>5. \A n \in DOMAIN items : items'[n] = items[n]
  BY <1>2 DEF QueueInv
<1>6. QueueInv'
  BY <1>1, <1>2, <1>3, <1>4, <1>5 DEF QueueInv
<1> QED BY <1>3, <1>4, <1>5, <1>6 DEF QueueInv

\* Publish exposes what is staged.
LEMMA PublishQueue ==
  ASSUME QueueInv, st.Generation # 0, Q!Publish(Position, st.Phase = "snapshot")
  PROVE  /\ QueueInv' /\ items' = items
         /\ st'.DeliveredSeq = st.DeliveredSeq /\ st.ReadySeq <= st'.ReadySeq
         /\ st'.Generation = st.Generation
<1>1. /\ st' = [st EXCEPT !.Phase = IF st.Phase = "snapshot" THEN "stream" ELSE @,
                          !.ReadySeq = st.NextSeq, !.DurableLSN = Position,
                          !.SourceCleanup = None]
      /\ items' = items /\ minted' = minted
  BY DEF Q!Publish, Q!PublishSource
<1>2. /\ StateFields \subseteq DOMAIN st'
      /\ st'.NextSeq = st.NextSeq /\ st'.DeliveredSeq = st.DeliveredSeq
      /\ st'.ReadySeq = st.NextSeq /\ st'.Generation = st.Generation
      /\ st'.Phase = IF st.Phase = "snapshot" THEN "stream" ELSE st.Phase
  BY <1>1 DEF QueueInv, StateFields
<1> QED BY <1>1, <1>2 DEF QueueInv

\* Recover drops what is staged.
LEMMA RecoverQueue ==
  ASSUME QueueInv, Q!Recover
  PROVE  /\ QueueInv'
         /\ st'.DeliveredSeq = st.DeliveredSeq /\ st'.ReadySeq = st.ReadySeq
         /\ st'.Generation = st.Generation
         /\ \A n \in DOMAIN items' : n \in DOMAIN items /\ items'[n] = items[n]
<1> DEFINE total == Q!Total(items, st.ReadySeq + 1, st.NextSeq)
<1>1. /\ items' = [n \in DOMAIN items \ {k \in DOMAIN items : k > st.ReadySeq} |-> items[n]]
      /\ st' = [st EXCEPT !.Bytes = @ - total, !.NextSeq = st.ReadySeq]
      /\ minted' = minted
  BY DEF Q!Recover, Q!Unpublished
<1> HIDE DEF total
<1>2. /\ StateFields \subseteq DOMAIN st'
      /\ st'.NextSeq = st.ReadySeq /\ st'.DeliveredSeq = st.DeliveredSeq
      /\ st'.ReadySeq = st.ReadySeq /\ st'.Generation = st.Generation
      /\ st'.Phase = st.Phase
  BY <1>1 DEF QueueInv, StateFields
<1>3. /\ DOMAIN items' = {k \in DOMAIN items : k <= st.ReadySeq}
      /\ \A n \in DOMAIN items' : n \in DOMAIN items /\ items'[n] = items[n]
  BY <1>1 DEF QueueInv
<1>4. QueueInv'
  BY <1>1, <1>2, <1>3 DEF QueueInv
<1> QED BY <1>2, <1>3, <1>4

\* Ack moves one cursor, and what it evicts is acknowledged.
LEMMA AckQueue ==
  ASSUME QueueInv, NEW seq, NEW id, Q!Ack(seq, id, {})
  PROVE  /\ QueueInv'
         /\ st'.DeliveredSeq = st.DeliveredSeq + 1 /\ st'.ReadySeq = st.ReadySeq
         /\ st'.Generation = st.Generation
         /\ \A n \in DOMAIN items' : n \in DOMAIN items /\ items'[n] = items[n]
<1> DEFINE first == IF st.EarliestSeq = 0 THEN 1 ELSE st.EarliestSeq
           archive == st.ArchiveBytes + Q!SizeAt(items, seq)
<1>1. seq = st.DeliveredSeq + 1 /\ seq <= st.ReadySeq /\ minted' = minted
  BY DEF Q!Ack
<1>2. PICK e \in first..(seq + 1) :
        /\ items' = [n \in DOMAIN items \ (first..(e - 1)) |-> items[n]]
        /\ st' = [st EXCEPT !.Bytes = @ - Q!SizeAt(items, seq),
                            !.ArchiveBytes = archive - Q!Total(items, first, e - 1),
                            !.DeliveredSeq = seq, !.EarliestSeq = e]
  BY Zenon DEF Q!Ack
<1> HIDE DEF first, archive
<1>3. /\ StateFields \subseteq DOMAIN st'
      /\ st'.NextSeq = st.NextSeq /\ st'.DeliveredSeq = seq
      /\ st'.ReadySeq = st.ReadySeq /\ st'.Generation = st.Generation
      /\ st'.Phase = st.Phase
  BY <1>2 DEF QueueInv, StateFields
<1>4. /\ DOMAIN items' \subseteq DOMAIN items
      /\ \A n \in DOMAIN items' : items'[n] = items[n]
      /\ \A n \in DOMAIN items : n > seq => n \in DOMAIN items'
  BY <1>1, <1>2 DEF QueueInv
<1>5. QueueInv'
  BY <1>1, <1>3, <1>4 DEF QueueInv
<1> QED BY <1>1, <1>3, <1>4, <1>5

-----------------------------------------------------------------------------
(* The actions.                                                            *)

\* Requests that are given up, or lost, or neither, are requests of before.
LEMMA GivenUpRequests ==
  ASSUME RequestInv, NEW F \in GivenUp
  PROVE  /\ F \subseteq [msg : Entry, live : BOOLEAN]
         /\ \A r \in F : ~ r.live /\ \E q \in requests : r.msg = q.msg
<1>1. CASE F = {[r EXCEPT !.live = FALSE] : r \in requests}
  <2>1. ASSUME NEW r \in requests
        PROVE  /\ [r EXCEPT !.live = FALSE] \in [msg : Entry, live : BOOLEAN]
               /\ ~ [r EXCEPT !.live = FALSE].live
               /\ [r EXCEPT !.live = FALSE].msg = r.msg
    <3>1. r \in [msg : Entry, live : BOOLEAN]
      BY DEF RequestInv
    <3>2. [r EXCEPT !.live = FALSE] \in [msg : Entry, live : BOOLEAN]
      <4>1. PICK no \in BOOLEAN : no = FALSE
        BY Zenon
      <4>2. [r EXCEPT !.live = no] \in [msg : Entry, live : BOOLEAN]
        BY <3>1
      <4> QED BY <4>1, <4>2, Zenon
    <3>3. ~ [r EXCEPT !.live = FALSE].live
      BY <3>1
    <3>4. [r EXCEPT !.live = FALSE].msg = r.msg
      BY <3>1
    <3> QED BY <3>2, <3>3, <3>4
  <2> QED BY <1>1, <2>1
<1>2. CASE F = {r \in requests : ~ r.live}
  BY <1>2 DEF RequestInv
<1> QED BY <1>1, <1>2 DEF GivenUp

\* The published messages that are not acknowledged stay what they are when
\* the queue changes and no cursor but ReadySeq and NextSeq moves.
LEMMA PublishedStays ==
  ASSUME DeliveryInv, QueueInv',
         st'.DeliveredSeq = st.DeliveredSeq, st.ReadySeq <= st'.ReadySeq,
         st'.Generation = st.Generation,
         \A n \in DOMAIN items' : n <= st.ReadySeq => n \in DOMAIN items /\ items'[n] = items[n],
         log' = log
  PROVE  /\ LogInv'
         /\ \A n \in st.DeliveredSeq + 1 .. st.ReadySeq : Request(n)' = Request(n)
         /\ \A msg \in Entry : /\ Known(msg) => Known(msg)'
                               /\ NextOne(msg) => NextOne(msg)'
<1>1. LogInv'
  BY DEF DeliveryInv, LogInv, QueueInv
<1>2. \A n \in st.DeliveredSeq + 1 .. st.ReadySeq : Request(n)' = Request(n)
  <2> TAKE n \in st.DeliveredSeq + 1 .. st.ReadySeq
  <2>1. n \in DOMAIN items'
    BY DEF DeliveryInv, QueueInv
  <2>2. items'[n] = items[n]
    BY <2>1 DEF DeliveryInv, QueueInv
  <2> QED BY <2>2 DEF Request, Q!MessageID
<1>3. ASSUME NEW msg \in Entry, Known(msg) PROVE Known(msg)'
  BY <1>3 DEF Known
<1>4. ASSUME NEW msg \in Entry, NextOne(msg) PROVE NextOne(msg)'
  <2>1. msg.seq \in st.DeliveredSeq + 1 .. st.ReadySeq
    BY <1>4 DEF NextOne, DeliveryInv, QueueInv
  <2>2. msg.seq <= st'.ReadySeq
    BY <2>1 DEF DeliveryInv, QueueInv
  <2>3. msg = Request(msg.seq)'
    BY <1>2, <1>4, <2>1 DEF NextOne
  <2> QED BY <1>4, <2>2, <2>3 DEF NextOne
<1> QED BY <1>1, <1>2, <1>3, <1>4

\* Capture never disturbs what is being delivered.
LEMMA CaptureStep ==
  ASSUME DeliveryInv, Capture
  PROVE  DeliveryInv'
<1>1. UNCHANGED <<pc, message, requests, answer, log>>
  BY DEF Capture
<1>2. CASE Q!Initialize(Hash)
  <2>1. /\ QueueInv' /\ st.ReadySeq = 0 /\ st'.DeliveredSeq = 0 /\ st'.ReadySeq = 0
        /\ st.DeliveredSeq = 0
    BY <1>2, InitializeQueue DEF DeliveryInv, QueueInv
  <2>2. Len(log) = 0
    BY <2>1 DEF DeliveryInv, LogInv
  <2>3. requests = {}
    <3> SUFFICES ASSUME NEW r \in requests PROVE FALSE
      OBVIOUS
    <3>1. r.msg.seq \in Nat \ {0}
      BY DEF DeliveryInv, RequestInv, Entry
    <3> QED BY <2>1, <2>2, <3>1 DEF DeliveryInv, RequestInv, Known, NextOne
  <2>4. pc \notin {"send", "ack"}
    BY <2>1 DEF DeliveryInv, SenderInv
  <2>5. LogInv'
    BY <1>1, <2>1, <2>2 DEF DeliveryInv, LogInv
  <2>6. RequestInv'
    BY <1>1, <2>3 DEF RequestInv
  <2>7. SenderInv'
    BY <1>1, <2>1, <2>4 DEF DeliveryInv, SenderInv
  <2> QED BY <2>1, <2>5, <2>6, <2>7 DEF DeliveryInv
<1>3. ASSUME QueueInv', st'.DeliveredSeq = st.DeliveredSeq, st.ReadySeq <= st'.ReadySeq,
             st'.Generation = st.Generation,
             \A n \in DOMAIN items' : n <= st.ReadySeq =>
               n \in DOMAIN items /\ items'[n] = items[n]
      PROVE  DeliveryInv'
  <2>1. /\ LogInv'
        /\ \A n \in st.DeliveredSeq + 1 .. st.ReadySeq : Request(n)' = Request(n)
        /\ \A msg \in Entry : /\ Known(msg) => Known(msg)'
                              /\ NextOne(msg) => NextOne(msg)'
    BY <1>1, <1>3, PublishedStays
  <2>2. RequestInv'
    BY <1>1, <2>1 DEF DeliveryInv, RequestInv
  <2>3. SenderInv'
    BY <1>1, <1>3, <2>1 DEF DeliveryInv, SenderInv, QueueInv
  <2> QED BY <1>3, <2>1, <2>2, <2>3 DEF DeliveryInv
<1>4. CASE /\ st.Generation # 0
           /\ \E b \in Bodies : Q!AppendMessage([body |-> b, version |-> None, lsn |-> None])
  BY <1>3, <1>4, AppendQueue DEF DeliveryInv, QueueInv
<1>5. CASE st.Generation # 0 /\ Q!Publish(Position, st.Phase = "snapshot")
  BY <1>3, <1>5, PublishQueue DEF DeliveryInv
<1>6. CASE Q!Recover
  BY <1>3, <1>6, RecoverQueue DEF DeliveryInv, QueueInv
<1> QED BY <1>2, <1>4, <1>5, <1>6 DEF Capture

\* The sender moves on to another message, or to none, and changes nothing else.
LEMMA SenderStep ==
  ASSUME DeliveryInv, UNCHANGED <<st, items, minted, log>>,
         requests' \in GivenUp, answer' = None,
         pc' \notin {"send", "ack"}
  PROVE  DeliveryInv'
<1>1. QueueInv' /\ LogInv'
  BY DEF DeliveryInv, QueueInv, LogInv
<1>2. \A msg : Known(msg)' <=> Known(msg)
  BY DEF Known
<1>3. \A msg : NextOne(msg)' <=> NextOne(msg)
  BY DEF NextOne, Request, Q!MessageID
<1>4. RequestInv'
  <2>1. RequestInv
    BY DEF DeliveryInv
  <2>2. /\ requests' \subseteq [msg : Entry, live : BOOLEAN]
        /\ \A r \in requests' : ~ r.live /\ \E q \in requests : r.msg = q.msg
    BY <2>1, GivenUpRequests
  <2>3. ASSUME NEW r \in requests' PROVE Known(r.msg)' \/ NextOne(r.msg)'
    BY <1>2, <1>3, <2>1, <2>2 DEF RequestInv
  <2> QED BY <2>2, <2>3 DEF RequestInv
<1>5. SenderInv'
  BY DEF SenderInv
<1> QED BY <1>1, <1>4, <1>5 DEF DeliveryInv

\* The steps of the sender that leave the queue and the log alone.
LEMMA RunStep ==
  ASSUME DeliveryInv, Peek \/ Post \/ Answered
  PROVE  DeliveryInv'
<1>1. UNCHANGED <<st, items, minted, log>>
  BY DEF Peek, Post, Answered, queueVars
<1>2. QueueInv' /\ LogInv'
  BY <1>1 DEF DeliveryInv, QueueInv, LogInv
<1>3. \A msg : Known(msg)' <=> Known(msg)
  BY <1>1 DEF Known
<1>4. \A n : Request(n)' = Request(n)
  BY <1>1 DEF Request, Q!MessageID
<1>5. \A msg : NextOne(msg)' <=> NextOne(msg)
  BY <1>1, <1>4 DEF NextOne
<1>6. CASE Peek
  <2>1. \A r \in requests : ~ r.live
    BY <1>6 DEF Peek, DeliveryInv, RequestInv
  <2>2. RequestInv'
    BY <1>3, <1>5, <1>6, <2>1 DEF Peek, DeliveryInv, RequestInv
  <2>3. SenderInv'
    BY <1>1, <1>4, <1>6 DEF Peek, DeliveryInv, SenderInv
  <2> QED BY <1>2, <2>2, <2>3 DEF DeliveryInv
<1>7. CASE Post
  <2>1. /\ st.DeliveredSeq < st.ReadySeq /\ message = Request(st.DeliveredSeq + 1)
        /\ st.DeliveredSeq + 1 \in DOMAIN items
    BY <1>7 DEF Post, DeliveryInv, SenderInv, QueueInv
  <2>2. message \in Entry /\ message.seq = st.DeliveredSeq + 1
        /\ message.id = <<st.Generation, message.seq>>
    BY <2>1 DEF Request, Q!MessageID, DeliveryInv, QueueInv, Entry
  <2>3. Known(message) \/ NextOne(message)
    BY <2>1, <2>2 DEF Known, NextOne, DeliveryInv, LogInv, QueueInv
  <2>4. Live.msg = message /\ Live \in [msg : Entry, live : BOOLEAN]
    <3>1. TRUE \in BOOLEAN
      BY Zenon
    <3> QED BY <2>2, <3>1 DEF Live
  <2>5. requests' = requests \cup {Live} /\ UNCHANGED <<pc, message, answer>>
        /\ pc = "send" /\ answer = None
    BY <1>7 DEF Post
  <2>6. RequestInv'
    <3> HIDE DEF Live
    <3> QED BY <1>3, <1>5, <2>3, <2>4, <2>5 DEF DeliveryInv, RequestInv
  <2>7. SenderInv'
    BY <1>1, <1>4, <2>5 DEF DeliveryInv, SenderInv
  <2> QED BY <1>2, <2>6, <2>7 DEF DeliveryInv
<1>8. CASE Answered
  <2>1. /\ pc = "send" /\ answer # None /\ pc' = "ack" /\ answer' = None
        /\ UNCHANGED <<message, requests>>
    BY <1>8 DEF Answered, Accepted
  <2>2. RequestInv'
    BY <1>3, <1>5, <2>1 DEF DeliveryInv, RequestInv
  <2>3. SenderInv'
    BY <1>1, <1>4, <2>1 DEF DeliveryInv, SenderInv
  <2> QED BY <1>2, <2>2, <2>3 DEF DeliveryInv
<1> QED BY <1>6, <1>7, <1>8

\* An acknowledgement is taken: every request is one the log knows.
LEMMA AckMessageStep ==
  ASSUME DeliveryInv, AckMessage
  PROVE  DeliveryInv'
<1>1. pc = "ack" /\ UNCHANGED <<requests, answer, log>>
  BY DEF AckMessage
<1>2. Len(log) = st.DeliveredSeq + 1 /\ answer = None /\ \A r \in requests : ~ r.live
  BY <1>1 DEF DeliveryInv, SenderInv, RequestInv
<1>3. CASE CanAck
  <2>1. Q!Ack(message.seq, message.id, {}) /\ pc' = "peek"
    BY <1>3 DEF AckMessage
  <2>2. /\ QueueInv'
        /\ st'.DeliveredSeq = st.DeliveredSeq + 1 /\ st'.ReadySeq = st.ReadySeq
        /\ st'.Generation = st.Generation
        /\ \A n \in DOMAIN items' : n \in DOMAIN items /\ items'[n] = items[n]
    BY <2>1, AckQueue DEF DeliveryInv
  <2>3. LogInv'
    BY <1>1, <1>2, <2>2 DEF DeliveryInv, LogInv, QueueInv
  <2>4. \A r \in requests : Known(r.msg)
    BY <1>2 DEF DeliveryInv, RequestInv, NextOne, QueueInv
  <2>5. RequestInv'
    BY <1>1, <1>2, <2>2, <2>4 DEF DeliveryInv, RequestInv, Known
  <2>6. SenderInv'
    BY <1>1, <1>2, <2>1 DEF SenderInv
  <2> QED BY <2>2, <2>3, <2>5, <2>6 DEF DeliveryInv
<1>4. CASE ~ CanAck
  <2>1. pc' = "stopped" /\ UNCHANGED <<st, items, minted>>
    BY <1>4 DEF AckMessage, queueVars
  <2>2. requests' \in GivenUp
    <3>1. requests = {r \in requests : ~ r.live}
      BY <1>2
    <3> QED BY <1>1, <3>1 DEF GivenUp
  <2> QED BY <1>1, <1>2, <2>1, <2>2, SenderStep
<1> QED BY <1>3, <1>4

\* The sender gives up a request, or its answer is lost.
LEMMA GiveUpStep ==
  ASSUME DeliveryInv, Retry \/ Stop \/ AnswerLost
  PROVE  DeliveryInv'
<1>1. UNCHANGED <<st, items, minted, log>> /\ pc' \notin {"send", "ack"}
  BY DEF Retry, Stop, AnswerLost, queueVars
<1>2. CASE Retry \/ Stop
  <2>1. Live \in requests /\ Live.live = TRUE /\ answer' = answer /\ requests' \in GivenUp
    BY <1>2 DEF Retry, Stop, Live
  <2>2. answer' = None
    BY <2>1 DEF DeliveryInv, RequestInv
  <2> QED BY <1>1, <2>1, <2>2, SenderStep
<1>3. CASE AnswerLost
  <2>1. answer # None /\ answer' = None /\ requests' = requests
    BY <1>3 DEF AnswerLost
  <2>2. requests = {r \in requests : ~ r.live}
    BY <2>1 DEF DeliveryInv, RequestInv
  <2>3. requests' \in GivenUp
    BY <2>1, <2>2 DEF GivenUp
  <2> QED BY <1>1, <2>1, <2>3, SenderStep
<1> QED BY <1>2, <1>3

\* A crash: recovery drops only what was never published.
LEMMA RestartStep ==
  ASSUME DeliveryInv, Restart
  PROVE  DeliveryInv'
<1>1. /\ Q!Recover /\ pc' = "peek" /\ answer' = None
      /\ requests' \in GivenUp /\ log' = log
  BY DEF Restart
<1>2. /\ QueueInv'
      /\ st'.DeliveredSeq = st.DeliveredSeq /\ st'.ReadySeq = st.ReadySeq
      /\ st'.Generation = st.Generation
      /\ \A n \in DOMAIN items' : n \in DOMAIN items /\ items'[n] = items[n]
  BY <1>1, RecoverQueue DEF DeliveryInv
<1>3. /\ LogInv'
      /\ \A msg \in Entry : /\ Known(msg) => Known(msg)'
                            /\ NextOne(msg) => NextOne(msg)'
  <2>1. st.ReadySeq <= st'.ReadySeq
    BY <1>2 DEF DeliveryInv, QueueInv
  <2> QED BY <1>1, <1>2, <2>1, PublishedStays
<1>4. RequestInv'
  <2>1. RequestInv
    BY DEF DeliveryInv
  <2>2. /\ requests' \subseteq [msg : Entry, live : BOOLEAN]
        /\ \A r \in requests' : ~ r.live /\ \E q \in requests : r.msg = q.msg
    BY <1>1, <2>1, GivenUpRequests
  <2>3. ASSUME NEW r \in requests' PROVE Known(r.msg)' \/ NextOne(r.msg)'
    BY <1>3, <2>1, <2>2 DEF RequestInv
  <2> QED BY <2>2, <2>3 DEF RequestInv
<1>5. SenderInv'
  BY <1>1 DEF SenderInv
<1> QED BY <1>2, <1>3, <1>4, <1>5 DEF DeliveryInv

\* A request arrives: its message is known, or it is the next one.
LEMMA ReceiveStep ==
  ASSUME DeliveryInv, Receive
  PROVE  DeliveryInv'
<1>1. PICK r \in requests :
        /\ requests' = requests \ {r}
        /\ log' = IF r.msg.id \in Ids(log) THEN log ELSE Append(log, r.msg)
        /\ answer' = IF r.live THEN [id |-> r.msg.id, seq |-> r.msg.seq] ELSE answer
        /\ UNCHANGED <<queueVars, pc, message, faults>>
  BY DEF Receive
<1>2. UNCHANGED <<st, items, minted, pc, message>>
  BY <1>1 DEF queueVars
<1>3. r.msg \in Entry /\ (Known(r.msg) \/ NextOne(r.msg))
  BY DEF DeliveryInv, RequestInv
<1>4. QueueInv'
  BY <1>2 DEF DeliveryInv, QueueInv
<1>5. \A n : Request(n)' = Request(n)
  BY <1>2 DEF Request, Q!MessageID
<1>6. /\ log \in Seq(Entry) /\ Len(log) \in Nat
      /\ \A i \in 1..Len(log) : log[i].id = <<st.Generation, i>>
  BY DEF DeliveryInv, LogInv
<1>7. \A q \in requests' : q.live => answer' = None
  <2> SUFFICES ASSUME NEW q \in requests', q.live PROVE answer' = None
    OBVIOUS
  <2>1. q \in requests /\ q # r /\ q.msg = message /\ answer = None
    BY <1>1 DEF DeliveryInv, RequestInv
  <2>2. ASSUME r.live PROVE FALSE
    <3>1. r.msg = message /\ r \in [msg : Entry, live : BOOLEAN] /\ q \in [msg : Entry, live : BOOLEAN]
      BY <2>1, <2>2 DEF DeliveryInv, RequestInv
    <3>2. r = q
      BY <2>1, <2>2, <3>1
    <3> QED BY <2>1, <3>2
  <2> QED BY <1>1, <2>1, <2>2
<1>8. CASE Known(r.msg)
  <2>1. r.msg.id \in Ids(log)
    <3>1. r.msg.seq \in 1..Len(log)
      BY <1>3, <1>6, <1>8 DEF Known, Entry
    <3>2. log[r.msg.seq].id = r.msg.id
      BY <1>6, <1>8, <3>1 DEF Known
    <3> QED BY <3>1, <3>2 DEF Ids
  <2>2. log' = log
    BY <1>1, <2>1
  <2>3. LogInv'
    BY <1>2, <2>2 DEF DeliveryInv, LogInv
  <2>4. \A msg : (Known(msg)' <=> Known(msg)) /\ (NextOne(msg)' <=> NextOne(msg))
    BY <1>2, <1>5, <2>2 DEF Known, NextOne
  <2>5. r.live => Len(log) = st.DeliveredSeq + 1 /\ pc = "send"
    <3> SUFFICES ASSUME r.live PROVE Len(log) = st.DeliveredSeq + 1 /\ pc = "send"
      OBVIOUS
    <3>1. pc = "send" /\ r.msg = Request(st.DeliveredSeq + 1)
      BY DEF DeliveryInv, RequestInv, SenderInv
    <3>2. r.msg.seq = st.DeliveredSeq + 1
      BY <3>1 DEF Request
    <3> QED BY <1>8, <3>1, <3>2 DEF Known, DeliveryInv, LogInv, QueueInv
  <2>7. RequestInv'
    BY <1>1, <1>2, <1>7, <2>4 DEF DeliveryInv, RequestInv
  <2>8. SenderInv'
    BY <1>1, <1>2, <1>5, <2>2, <2>5 DEF DeliveryInv, SenderInv
  <2> QED BY <1>4, <2>3, <2>7, <2>8 DEF DeliveryInv
<1>9. CASE NextOne(r.msg)
  <2> DEFINE D == st.DeliveredSeq
  <2>1. /\ D \in Nat /\ st.ReadySeq \in Nat /\ Len(log) = D /\ D + 1 <= st.ReadySeq
        /\ r.msg.seq = D + 1 /\ r.msg = Request(D + 1) /\ D + 1 \in DOMAIN items
    BY <1>9 DEF NextOne, DeliveryInv, QueueInv
  <2>2. r.msg.id = <<st.Generation, D + 1>> /\ r.msg.body = items[D + 1].body
    BY <2>1 DEF Request, Q!MessageID, DeliveryInv, QueueInv
  <2>3. r.msg.id \notin Ids(log)
    <3> SUFFICES ASSUME NEW i \in 1..Len(log), r.msg.id = log[i].id PROVE FALSE
      BY DEF Ids
    <3>1. <<st.Generation, i>> = <<st.Generation, D + 1>>
      BY <1>6, <2>2, Zenon
    <3>2. i = D + 1
      BY <3>1
    <3> QED BY <2>1, <3>2
  <2>4. /\ log' \in Seq(Entry) /\ Len(log') = D + 1 /\ log'[D + 1] = r.msg
        /\ \A i \in 1..D : log'[i] = log[i]
    BY <1>1, <1>3, <1>6, <2>1, <2>3
  <2>5. LogInv'
    <3>1. ASSUME NEW i \in 1..(D + 1)
          PROVE  /\ log'[i].seq = i /\ log'[i].id = <<st.Generation, i>>
                 /\ i \in DOMAIN items => log'[i].body = items[i].body
      <4>1. CASE i = D + 1
        BY <2>1, <2>2, <2>4, <4>1
      <4>2. CASE i \in 1..D
        BY <2>1, <2>4, <4>2 DEF DeliveryInv, LogInv
      <4> QED BY <2>1, <4>1, <4>2
    <3> QED BY <1>2, <2>1, <2>4, <3>1 DEF LogInv
  <2>6. ASSUME NEW q \in requests PROVE Known(q.msg)'
    <3>1. q.msg \in Entry /\ (Known(q.msg) \/ NextOne(q.msg))
      BY DEF DeliveryInv, RequestInv
    <3>2. CASE Known(q.msg)
      BY <1>2, <2>1, <2>4, <3>1, <3>2 DEF Known, Entry
    <3>3. CASE NextOne(q.msg)
      <4>1. q.msg = r.msg
        BY <2>1, <3>3 DEF NextOne
      <4> QED BY <1>2, <2>1, <2>2, <2>4, <4>1 DEF Known
    <3> QED BY <3>1, <3>2, <3>3
  <2>7. RequestInv'
    BY <1>1, <1>2, <1>7, <2>6 DEF DeliveryInv, RequestInv
  <2>8. r.live => pc = "send"
    BY DEF DeliveryInv, RequestInv
  <2>9. answer = None \/ r.live
    BY <2>1 DEF DeliveryInv, SenderInv
  <2>10. SenderInv'
    BY <1>1, <1>2, <1>5, <2>1, <2>4, <2>8, <2>9 DEF DeliveryInv, SenderInv
  <2> QED BY <1>4, <2>5, <2>7, <2>10 DEF DeliveryInv
<1> QED BY <1>3, <1>8, <1>9

\* The invariant holds from Open on, through every interleaving.
THEOREM DeliveryInvariant == Spec => []DeliveryInv
<1>1. Init => DeliveryInv
  <2> SUFFICES ASSUME Init PROVE DeliveryInv
    OBVIOUS
  <2>1. /\ st.DeliveredSeq = 0 /\ st.ReadySeq = 0 /\ st.NextSeq = 0
        /\ st.Generation = 0 /\ StateFields \subseteq DOMAIN st
        /\ items = [n \in {} |-> None] /\ minted = 0
    BY DEF Init, Q!Open, Q!Blank, StateFields
  <2>2. pc = "peek" /\ requests = {} /\ answer = None /\ log = <<>>
    BY DEF Init
  <2>3. QueueInv
    BY <2>1 DEF QueueInv
  <2>4. LogInv
    BY <2>1, <2>2 DEF LogInv
  <2>5. RequestInv /\ SenderInv
    BY <2>2 DEF RequestInv, SenderInv
  <2> QED BY <2>3, <2>4, <2>5 DEF DeliveryInv
<1>2. DeliveryInv /\ [Next]_vars => DeliveryInv'
  <2> SUFFICES ASSUME DeliveryInv, [Next]_vars PROVE DeliveryInv'
    OBVIOUS
  <2>1. ASSUME UNCHANGED vars PROVE DeliveryInv'
    <3>1. UNCHANGED <<st, items, minted, pc, message, requests, answer, log>>
      BY <2>1 DEF vars, queueVars
    <3> QED BY <3>1 DEF DeliveryInv, QueueInv, LogInv, RequestInv, SenderInv,
                        Known, NextOne, Request, Q!MessageID
  <2>2. PeekEmpty => UNCHANGED vars
    BY DEF PeekEmpty
  <2> QED BY <2>1, <2>2, CaptureStep, RunStep, AckMessageStep, GiveUpStep,
             RestartStep, ReceiveStep, Zenon DEF Next, Run
<1> QED BY <1>1, <1>2, PTL DEF Spec

\* Whatever is lost, repeated or late, the receiver's log is what the queue
\* published, in its order and without gap or repetition, at most one message
\* ahead of the acknowledgements, and Ack never fails after a successful Send
\* (Sender.Run, Send, Store.Ack).
THEOREM AlwaysInOrder == Spec => []DeliveredInOrder
<1>1. DeliveryInv => DeliveredInOrder
  <2> SUFFICES ASSUME DeliveryInv PROVE DeliveredInOrder
    OBVIOUS
  <2>1. ASSUME NEW i \in 1..Len(log), i \in DOMAIN items PROVE log[i] = Request(i)
    <3>1. log[i] \in Entry
      BY DEF DeliveryInv, LogInv
    <3>2. log[i].seq = i /\ log[i].id = <<st.Generation, i>> /\ log[i].body = items[i].body
      BY <2>1 DEF DeliveryInv, LogInv
    <3>3. items[i].Generation = st.Generation
      BY <2>1 DEF DeliveryInv, QueueInv
    <3> QED BY <3>1, <3>2, <3>3 DEF Request, Q!MessageID, Entry
  <2>2. pc = "ack" => CanAck
    <3> SUFFICES ASSUME pc = "ack" PROVE CanAck
      OBVIOUS
    <3>1. /\ message = Request(st.DeliveredSeq + 1)
          /\ st.DeliveredSeq + 1 <= st.ReadySeq /\ st.DeliveredSeq + 1 \in DOMAIN items
      BY DEF DeliveryInv, SenderInv, QueueInv
    <3> QED BY <3>1 DEF CanAck, Request
  <2> QED BY <2>1, <2>2 DEF DeliveryInv, LogInv, DeliveredInOrder
<1> QED BY <1>1, DeliveryInvariant, PTL
=============================================================================
