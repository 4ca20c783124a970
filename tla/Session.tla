------------------------------ MODULE Session -------------------------------
(***************************************************************************)
(* Delivery over gRPC: the collector's GRPCSender (delivery/grpc.go), the  *)
(* server's Connect handler with its lease (server/server.go, target.go),  *)
(* the scheduled reconciliation that may ask for a repair                  *)
(* (server/reconcile.go), the queue the sender reads (module Queue) and    *)
(* the target the handler writes (module Target).                          *)
(*                                                                         *)
(* The collector has one stream at a time, to any server process.  The two *)
(* directions of a stream are FIFO; when it breaks both lose what they     *)
(* hold, the sender notices at once and the handler when it next uses it,  *)
(* so that an orphaned handler can still commit the event it has in hand.  *)
(* Capture is reduced to the calls it makes on the queue.                  *)
(***************************************************************************)
EXTENDS Integers, Sequences

CONSTANTS Servers,       \* server processes
          Hash,          \* the schema hash of the source
          Position,      \* a source position
          EmptyTransactions, \* capture publishes transactions without rows
                         \* of its tables, as the PostgreSQL capture does
          None,
          MaxSeq,        \* bound on sequence numbers
          MaxGen,        \* bound on generations
          MaxBreaks,     \* bound on broken streams and crashes
          MaxReconciles  \* bound on scheduled reconciliations

ASSUME SessionAssumption == None \notin Servers /\ None # "tx"

VARIABLES st, items, minted,                              \* Queue
          db, tables, columns, files, types, retry, last, informed, \* Target
          conn,         \* the sender's stream
          sender,       \* the sender's step: "recv", "get" or "stopped"
          handler,      \* per server process, its Connect handler
          lease,        \* the process holding the advisory lock, or None
          paused,       \* capture is stopped for a reconciliation
          breaks, reconciles

queueVars == <<st, items, minted>>
targetVars == <<db, tables, columns, files, types, retry, last, informed>>
linkVars == <<conn, sender, handler, lease>>
vars == <<queueVars, targetVars, linkVars, paused, breaks, reconciles>>

\* Message contents: a snapshot and transactions of at most one chunk.
Plain(kind, tx) == [kind |-> kind, tx |-> tx, scope |-> {}, rows |-> <<>>]

Kinds == {Plain("snapshot_begin", None), Plain("snapshot_end", None),
          Plain("transaction_rows", "tx"), Plain("transaction_end", "tx")}

Q == INSTANCE Queue WITH Bodies <- Kinds, SizeOf <- [k \in Kinds |-> 1],
       LSNs <- {Position}, Hashes <- {Hash}, Tokens <- {}, LsnBytes <- 0,
       MaxBytes <- MaxSeq, ReplayBytes <- 1

T == INSTANCE Target WITH Versions <- {Hash}, Tables <- {}, Keyed <- {},
       Values <- {}, Columns <- {}, BaseColumns <- {},
       SchemaCols <- [v \in {Hash} |-> {}], Nullable <- {}, AutoAdd <- FALSE,
       Paths <- {}, FileOps <- {}, Bodies <- {}

\* The message a queue item encodes.
Payload(item) == [kind |-> item.body.kind, tx |-> item.body.tx,
                  scope |-> {}, rows |-> <<>>, version |-> item.SchemaVersion]

-----------------------------------------------------------------------------
(* Frames and the stream.                                                  *)

Frame(t, gen, seq, body) == [t |-> t, gen |-> gen, seq |-> seq, body |-> body]
Plainly(t) == Frame(t, 0, 0, None)

Down == [up |-> FALSE, to |-> None, c2s |-> <<>>, s2c |-> <<>>]

\* The sender's send, and its receive of a frame of type t.
Reply(f) == [conn EXCEPT !.s2c = Tail(@), !.c2s = Append(@, f)]
Got(t) == /\ conn.up /\ sender = "recv" /\ conn.s2c # <<>> /\ Head(conn.s2c).t = t

\* Handlers that were on the stream to s find it broken.
Orphaned == [s \in Servers |-> IF conn.up /\ conn.to = s
                               THEN [handler[s] EXCEPT !.live = FALSE] ELSE handler[s]]

Idle == [pc |-> "none", live |-> FALSE, gen |-> 0, next |-> 0, event |-> None]

\* connect returns: the stream is closed, and its deferred function resumes a
\* capture that a reconciliation had stopped.
Disconnect == /\ conn' = Down /\ handler' = Orphaned
              /\ paused' = FALSE

\* The handler's receive of a frame of type t, and its sends in reply.
Received(s, t) == /\ handler[s].pc = "wait" /\ handler[s].live
                  /\ conn.c2s # <<>> /\ Head(conn.c2s).t = t
Respond(fs) == [conn EXCEPT !.c2s = Tail(@), !.s2c = @ \o fs]

\* The handler returns with an error status: the stream ends on both sides.
Refuse(s) == /\ handler' = [handler EXCEPT ![s].pc = "done", ![s].live = FALSE]
             /\ conn' = Down /\ paused' = FALSE

-----------------------------------------------------------------------------
(* Capture, as the queue sees it.                                          *)

Closing == {"snapshot_end", "transaction_end"}

\* What capture may stage next: a snapshot, then transactions.
Following ==
  CASE st.NextSeq = 0 -> {Plain("snapshot_begin", None)}
    [] st.NextSeq > 0 /\ st.Phase = "snapshot" -> {Plain("snapshot_end", None)}
    [] st.NextSeq > st.ReadySeq /\ st.Phase = "stream" -> {Plain("transaction_end", "tx")}
    [] OTHER -> {Plain("transaction_rows", "tx")}
                \cup (IF EmptyTransactions THEN {Plain("transaction_end", "tx")} ELSE {})

\* A snapshot or a transaction is staged to its end.
Complete == st.NextSeq > st.ReadySeq /\ items[st.NextSeq].body.kind \in Closing

\* An attempt in an unsealed phase starts over with a new generation.  The
\* bound on generations leaves one for each reconciliation still to come.
StartSnapshot == /\ st.Generation = 0 \/ minted + MaxReconciles < MaxGen
                 /\ Q!Initialize(Hash)

CaptureAppend == /\ st.Phase # "empty" /\ st.Generation # 0
                 /\ ~Complete
                 /\ \E body \in Following :
                      Q!AppendMessage([body |-> body, version |-> None, lsn |-> None])

CapturePublish == /\ Complete
                  /\ Q!Publish(Position, st.Phase = "snapshot")

Capture == /\ ~paused
           /\ StartSnapshot \/ CaptureAppend \/ CapturePublish
           /\ UNCHANGED <<targetVars, linkVars, paused, breaks, reconciles>>

-----------------------------------------------------------------------------
(* The sender.                                                             *)

\* connect: Bounds, then Hello; it is an error to have no generation yet.
Connect(s) ==
  /\ ~conn.up /\ sender # "stopped" /\ st.Generation # 0
  /\ conn' = [up |-> TRUE, to |-> s, c2s |-> <<Frame("hello", st.Generation, 0, None)>>,
              s2c |-> <<>>]
  /\ UNCHANGED <<queueVars, targetVars, sender, handler, lease, paused, breaks, reconciles>>

\* An acknowledgement of an earlier message is ignored; one of another
\* generation or beyond the next message ends the stream.
HandleAck ==
  LET f == Head(conn.s2c)
  IN  /\ Got("ack")
      /\ IF f.gen # st.Generation \/ f.seq > st.DeliveredSeq + 1
         THEN Disconnect /\ UNCHANGED queueVars
         ELSE /\ IF f.seq = st.DeliveredSeq + 1
                 THEN Q!Ack(f.seq, <<f.gen, f.seq>>, {})
                 ELSE UNCHANGED queueVars
              /\ conn' = [conn EXCEPT !.s2c = Tail(@)]
              /\ UNCHANGED <<handler, paused>>
      /\ UNCHANGED <<targetVars, sender, lease, breaks, reconciles>>

\* A pull is checked against Bounds; the message is read by a later Get.
HandlePull ==
  LET f == Head(conn.s2c)
  IN  /\ Got("pull")
      /\ \/ /\ f.gen # st.Generation
            /\ Disconnect /\ UNCHANGED sender
         \/ /\ f.gen = st.Generation /\ f.seq < Q!Earliest
            /\ conn' = Reply(Plainly("unavailable"))
            /\ UNCHANGED <<sender, handler, paused>>
         \/ /\ f.gen = st.Generation /\ f.seq >= Q!Earliest /\ f.seq > st.ReadySeq
            /\ conn' = Reply(Plainly("idle"))
            /\ UNCHANGED <<sender, handler, paused>>
         \/ /\ f.gen = st.Generation /\ f.seq \in Q!Earliest..st.ReadySeq
            /\ sender' = "get"
            /\ UNCHANGED <<conn, handler, paused>>
      /\ UNCHANGED <<queueVars, targetVars, lease, breaks, reconciles>>

\* Get and the send of the event; the event carries the stored generation.
SendEvent ==
  LET n == Head(conn.s2c).seq
  IN  /\ conn.up /\ sender = "get"
      /\ sender' = "recv"
      /\ IF n \in DOMAIN items /\ n <= st.ReadySeq
         THEN /\ conn' = Reply(Frame("event", items[n].Generation, n, Payload(items[n])))
              /\ UNCHANGED <<handler, paused>>
         ELSE Disconnect
      /\ UNCHANGED <<queueVars, targetVars, lease, breaks, reconciles>>

\* Variant of HandleReconcile: the queue need not be drained.
HandleReconcileUndrained ==
  /\ Got("reconcile")
  /\ paused' = TRUE
  /\ conn' = Reply(Plainly("digests"))
  /\ UNCHANGED <<queueVars, targetVars, sender, handler, lease, breaks, reconciles>>

\* Reconcile: capture stops, and the scan runs only on a drained queue.  A scan
\* that fails leaves capture stopped until the stream ends.
HandleReconcile ==
  LET drained == st.NextSeq = st.ReadySeq /\ st.DeliveredSeq = st.ReadySeq
  IN  /\ Got("reconcile")
      /\ paused' = drained
      /\ \/ drained /\ conn' = Reply(Plainly("digests"))
         \/ conn' = Reply(Plainly("failed"))
      /\ UNCHANGED <<queueVars, targetVars, sender, handler, lease, breaks, reconciles>>

HandleResume ==
  /\ Got("resume")
  /\ paused' = FALSE
  /\ conn' = Reply(Plainly("resumed"))
  /\ UNCHANGED <<queueVars, targetVars, sender, handler, lease, breaks, reconciles>>

\* Repair: the queue is reset and the sender leaves at once to reconnect with
\* the new generation; the handler may or may not see the acceptance.  When
\* the reset is refused (a snapshot is under way) it leaves with the error.
HandleRepair ==
  /\ Got("repair")
  /\ \/ paused /\ Q!ResetForSnapshot
     \/ (~paused \/ st.Phase # "stream") /\ UNCHANGED queueVars
  /\ Disconnect
  /\ UNCHANGED <<targetVars, sender, lease, breaks, reconciles>>

-----------------------------------------------------------------------------
(* The handler.                                                            *)

\* acquire: one handler per syncer in a process.
Accept(s) ==
  /\ conn.up /\ conn.to = s /\ conn.c2s # <<>> /\ Head(conn.c2s).t = "hello"
  /\ IF handler[s].pc = "none"
     THEN /\ handler' = [handler EXCEPT ![s] = [Idle EXCEPT !.pc = "lease", !.live = TRUE,
                                                            !.gen = Head(conn.c2s).gen]]
          /\ conn' = [conn EXCEPT !.c2s = Tail(@)]
     ELSE conn' = Down /\ UNCHANGED handler
  /\ UNCHANGED <<queueVars, targetVars, sender, lease, paused, breaks, reconciles>>

\* pg_try_advisory_lock on a connection of its own.
AcquireLease(s) ==
  /\ handler[s].pc = "lease"
  /\ IF lease = None
     THEN /\ lease' = s
          /\ handler' = [handler EXCEPT ![s].pc = "resume"]
          /\ UNCHANGED <<conn, paused>>
     ELSE /\ UNCHANGED lease
          /\ IF handler[s].live THEN Refuse(s)
             ELSE /\ handler' = [handler EXCEPT ![s].pc = "done"]
                  /\ UNCHANGED <<conn, paused>>
  /\ UNCHANGED <<queueVars, targetVars, sender, breaks, reconciles>>

\* Variant of Foreign: the generation is not compared.
ForeignNever(s) == FALSE

\* A collector of another generation needs an authorised repair, which this
\* consumes; the first pull follows.
Foreign(s) == db.Generation # 0 /\ db.Generation # handler[s].gen

StartAt(s) == IF Foreign(s) THEN 1 ELSE db.Received + 1

Resume(s) ==
  /\ handler[s].pc = "resume"
  /\ db' = IF Foreign(s) THEN [db EXCEPT !.Authorized = FALSE] ELSE db
  /\ IF Foreign(s) /\ ~db.Authorized
     THEN IF handler[s].live THEN Refuse(s)
          ELSE /\ handler' = [handler EXCEPT ![s].pc = "done"]
               /\ UNCHANGED <<conn, paused>>
     ELSE /\ handler' = [handler EXCEPT ![s].pc = IF handler[s].live THEN "wait" ELSE "done",
                                        ![s].next = StartAt(s)]
          /\ conn' = IF handler[s].live
                     THEN [conn EXCEPT !.s2c =
                             Append(@, Frame("pull", handler[s].gen, StartAt(s), None))]
                     ELSE conn
          /\ UNCHANGED paused
  /\ UNCHANGED <<queueVars, tables, columns, files, types, retry, last, informed,
                 sender, lease, breaks, reconciles>>

Pull(s) == Frame("pull", handler[s].gen, handler[s].next, None)

\* Idle: wait and pull again, or reconcile when it is due and no batch is open.
HandleIdle(s) ==
  /\ Received(s, "idle")
  /\ \/ /\ conn' = Respond(<<Pull(s)>>)
        /\ UNCHANGED reconciles
     \/ /\ reconciles < MaxReconciles
        /\ reconciles' = reconciles + 1
        /\ conn' = Respond(<<Plainly("reconcile")>>)
  /\ UNCHANGED <<queueVars, targetVars, sender, handler, lease, paused, breaks>>

\* runReconcile after the scan: equal digests resume capture, a mismatch is
\* recorded as an authorised repair before the collector is asked for it.
HandleDigests(s) ==
  /\ Received(s, "digests")
  /\ \/ /\ conn' = Respond(<<Plainly("resume")>>)
        /\ UNCHANGED db
     \/ /\ conn' = Respond(<<Plainly("repair")>>)
        /\ db' = [db EXCEPT !.Authorized = TRUE]
  /\ UNCHANGED <<queueVars, tables, columns, files, types, retry, last, informed,
                 sender, handler, lease, paused, breaks, reconciles>>

HandleResumed(s) ==
  /\ Received(s, "resumed")
  /\ conn' = Respond(<<Pull(s)>>)
  /\ UNCHANGED <<queueVars, targetVars, sender, handler, lease, paused, breaks, reconciles>>

\* A failed scan and a replay that is no longer retained end the stream.
HandleFailure(s) ==
  /\ Received(s, "failed") \/ Received(s, "unavailable")
  /\ Refuse(s)
  /\ UNCHANGED <<queueVars, targetVars, sender, lease, breaks, reconciles>>

\* The envelope check; InvalidArgument stops the sender for good.
Enveloped(s, f) == f.seq = handler[s].next /\ f.gen = handler[s].gen

\* Variant of HandleEvent: the acknowledgement precedes the store.
HandleEventAckFirst(s) ==
  LET f == Head(conn.c2s)
  IN  /\ Received(s, "event")
      /\ IF Enveloped(s, f)
         THEN /\ handler' = [handler EXCEPT ![s].pc = "store", ![s].event = f]
              /\ conn' = Respond(<<Frame("ack", handler[s].gen, handler[s].next, None)>>)
              /\ UNCHANGED <<sender, paused>>
         ELSE Refuse(s) /\ sender' = "stopped"
      /\ UNCHANGED <<queueVars, targetVars, lease, breaks, reconciles>>

HandleEvent(s) ==
  LET f == Head(conn.c2s)
  IN  /\ Received(s, "event")
      /\ IF Enveloped(s, f)
         THEN /\ handler' = [handler EXCEPT ![s].pc = "store", ![s].event = f]
              /\ conn' = [conn EXCEPT !.c2s = Tail(@)]
              /\ UNCHANGED <<sender, paused>>
         ELSE Refuse(s) /\ sender' = "stopped"
      /\ UNCHANGED <<queueVars, targetVars, lease, breaks, reconciles>>

Incoming(s) == [gen |-> handler[s].event.gen, seq |-> handler[s].event.seq,
                body |-> handler[s].event.body]

\* lease.Store, then the acknowledgement and the next pull.  A Store whose commit
\* takes effect and returns an error is this action followed by Break.
StoreEvent(s) ==
  /\ handler[s].pc = "store" /\ lease = s
  /\ \/ T!Commits(s, Incoming(s)) /\ T!Answered(s, Incoming(s))
     \/ T!Duplicate(Incoming(s))
  /\ handler' = [handler EXCEPT ![s].pc = IF handler[s].live THEN "wait" ELSE "done",
                                ![s].event = None, ![s].next = @ + 1]
  /\ conn' = IF handler[s].live
             THEN [conn EXCEPT !.s2c = @ \o
                     <<Frame("ack", handler[s].gen, handler[s].next, None),
                       Frame("pull", handler[s].gen, handler[s].next + 1, None)>>]
             ELSE conn
  /\ UNCHANGED <<queueVars, sender, lease, paused, breaks, reconciles>>

\* The target takes the message, as a new one or as one it has.
Storable(m) == T!Admissible(m) \/ (m.gen = db.Generation /\ m.seq <= db.Received)

\* The store fails: the connection that holds the lease is gone, or the target
\* refuses the message.
StoreFails(s) ==
  /\ handler[s].pc = "store"
  /\ lease # s \/ ~Storable(Incoming(s))
  /\ IF handler[s].live THEN Refuse(s)
     ELSE handler' = [handler EXCEPT ![s].pc = "done"] /\ UNCHANGED <<conn, paused>>
  /\ UNCHANGED <<queueVars, targetVars, sender, lease, breaks, reconciles>>

\* Variant of Finish: the lease is not closed.
FinishKeepingLease(s) ==
  /\ handler[s].pc = "done" \/ (handler[s].pc = "wait" /\ ~handler[s].live)
  /\ handler' = [handler EXCEPT ![s] = Idle]
  /\ UNCHANGED <<queueVars, targetVars, conn, sender, lease, paused, breaks, reconciles>>

\* A receive or send on the broken stream fails; the deferred calls close the
\* lease and release the syncer.
Finish(s) ==
  /\ handler[s].pc = "done" \/ (handler[s].pc = "wait" /\ ~handler[s].live)
  /\ handler' = [handler EXCEPT ![s] = Idle]
  /\ lease' = IF lease = s THEN None ELSE lease
  /\ UNCHANGED <<queueVars, targetVars, conn, sender, paused, breaks, reconciles>>

-----------------------------------------------------------------------------
(* Failures.                                                               *)

\* The network drops the stream.
Break == /\ conn.up
         /\ breaks < MaxBreaks /\ breaks' = breaks + 1
         /\ Disconnect
         /\ sender' = IF sender = "get" THEN "recv" ELSE sender
         /\ UNCHANGED <<queueVars, targetVars, lease, reconciles>>

\* The collector process dies and starts again; capture recovers the queue.
CollectorCrash == /\ breaks < MaxBreaks /\ breaks' = breaks + 1
                  /\ Q!Recover
                  /\ Disconnect
                  /\ sender' = "recv"
                  /\ UNCHANGED <<targetVars, lease, reconciles>>

\* A server process dies; PostgreSQL ends its session and the lease with it.
ServerCrash(s) ==
  /\ handler[s].pc # "none"
  /\ breaks < MaxBreaks /\ breaks' = breaks + 1
  /\ lease' = IF lease = s THEN None ELSE lease
  /\ IF handler[s].live
     THEN conn' = Down /\ paused' = FALSE
     ELSE UNCHANGED <<conn, paused>>
  /\ handler' = [handler EXCEPT ![s] = Idle]
  /\ sender' = IF handler[s].live /\ sender = "get" THEN "recv" ELSE sender
  /\ UNCHANGED <<queueVars, targetVars, reconciles>>

\* PostgreSQL ends the session that holds the lease; its handler lives on.
LeaseLost == /\ lease # None
             /\ breaks < MaxBreaks /\ breaks' = breaks + 1
             /\ lease' = None
             /\ UNCHANGED <<queueVars, targetVars, conn, sender, handler, paused, reconciles>>

-----------------------------------------------------------------------------

Init == /\ Q!Open /\ T!Init
        /\ conn = Down /\ sender = "recv"
        /\ handler = [s \in Servers |-> Idle] /\ lease = None
        /\ paused = FALSE /\ breaks = 0 /\ reconciles = 0

Send == \/ HandleAck \/ HandlePull \/ SendEvent
        \/ HandleReconcile \/ HandleResume \/ HandleRepair

\* One handler's goroutine.
Serve(s) == \/ AcquireLease(s) \/ Resume(s)
            \/ HandleIdle(s) \/ HandleDigests(s) \/ HandleResumed(s) \/ HandleFailure(s)
            \/ HandleEvent(s) \/ StoreEvent(s) \/ StoreFails(s) \/ Finish(s)

Fail == Break \/ CollectorCrash \/ LeaseLost \/ \E s \in Servers : ServerCrash(s)

Next == \/ Capture \/ Send \/ Fail
        \/ \E s \in Servers : Connect(s) \/ Accept(s) \/ Serve(s)

Spec == Init /\ [][Next]_vars

\* The goroutines of both sides run, capture makes progress, and the sender
\* reconnects after its delay to some server; failures are not fair.
Fairness == /\ WF_vars(CaptureAppend /\ Capture) /\ WF_vars(CapturePublish /\ Capture)
            /\ WF_vars(st.Generation = 0 /\ Capture)
            /\ WF_vars(Send)
            /\ WF_vars(\E s \in Servers : Connect(s))
            /\ \A s \in Servers : WF_vars(Accept(s)) /\ WF_vars(Serve(s))

FairSpec == Spec /\ Fairness

-----------------------------------------------------------------------------
(* Properties.                                                             *)

\* Types of both ends: the queue's, the sync_state cursors and the program counters.
TypeOK == /\ Q!TypeOK
          /\ db.Generation \in 0..MaxGen /\ db.Received \in 0..MaxSeq
          /\ lease \in Servers \cup {None}
          /\ sender \in {"recv", "get", "stopped"}
          /\ \A s \in Servers : handler[s].pc \in
               {"none", "lease", "resume", "wait", "store", "done"}

\* The queue lets go of a message only after the target has committed it, for
\* every order of failures: grpc.go acknowledges what Connect stored.
AckedIsDurable ==
  st.DeliveredSeq > 0 => db.Generation = st.Generation /\ st.DeliveredSeq <= db.Received

\* What the target stored under the queue's generation is what the queue holds
\* under the same numbers: no message is skipped, replaced or reordered.
SameLog ==
  db.Generation = st.Generation =>
    /\ db.Received <= st.ReadySeq
    /\ \A n \in DOMAIN items : n <= db.Received =>
          db.message_hash[n] = Payload(items[n])

\* Under the lease the event in hand is always the target's next one, in the
\* phase and under the version the target is in, so the gap, generation, schema
\* and phase errors of store are never met by a live session; of its refusals
\* only that of a transaction_end without an open transaction is left.
LeaseSerializes ==
  \A s \in Servers : handler[s].pc = "store" /\ lease = s =>
    LET m == Incoming(s)
        d == T!Current(m)
    IN  /\ T!SwitchAllowed(m) /\ T!Contiguous(d, m)
        /\ T!Barrier(d, m.body) /\ T!InPhase(d, m.body)
        /\ T!Batch(d, m.body) \/ (m.body.kind = "transaction_end" /\ d.OpenTransaction = None)

\* A repair request finds capture stopped and nothing undelivered, so that the
\* reset it asks for can only be refused while a snapshot is being taken.
RepairDrained ==
  conn.s2c # <<>> /\ Head(conn.s2c).t = "repair" =>
    paused /\ st.NextSeq = st.ReadySeq /\ st.DeliveredSeq = st.ReadySeq

\* The target's next message ends a transaction that brought it no rows, which
\* store refuses ("transaction_end does not match the open transaction").
AtEmptyTransaction ==
  /\ db.Received < st.ReadySeq /\ db.OpenTransaction = None
  /\ items[db.Received + 1].body.kind = "transaction_end"

\* Once failures stop, the target holds everything that was published before the
\* first transaction without rows, unless it is left for ever with another
\* generation than the collector's.
Converges ==
  <>[](db.Generation \in {0, st.Generation}) =>
    <>[](/\ db.Generation = st.Generation
         /\ db.Received = st.ReadySeq \/ AtEmptyTransaction)

\* "transaction_rows (zero or more), transaction_end", the latter sent without
\* rows "to advance in order" (docs/protocol.md): such a transaction does not
\* keep the target from the messages that follow it.
\* The code does not keep it, since store refuses its end (README.md).
EmptyTransactionsPass == []<>~(db.Generation = st.Generation /\ AtEmptyTransaction)

\* "On mismatch, auto_repair requests a new complete snapshot generation" and
\* the old target is replaced when its snapshot_end arrives (docs/server.md): a
\* generation that is not the target's eventually becomes the target's.
\* The code does not keep it, since the authorisation is consumed first (README.md).
RepairCompletes ==
  (db.Generation # 0 /\ st.Generation # 0 /\ db.Generation # st.Generation)
    ~> (db.Generation = st.Generation)

\* "A lost ACK causes the collector to redeliver" (integration_test.go): once
\* failures stop, every published message is acknowledged to the queue.
EventuallyAcked == <>[](st.DeliveredSeq = st.ReadySeq)
=============================================================================
