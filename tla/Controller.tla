----------------------------- MODULE Controller -----------------------------
(***************************************************************************)
(* The collector process, internal/app: app.Run starts the capture under a *)
(* captureController and the delivery beside it; the delivery's stream     *)
(* goroutine (delivery/grpc.go) calls Reconcile, Resume and Repair of the  *)
(* controller, which stops and starts the capture.                         *)
(*                                                                         *)
(* The queue between capture and delivery is the transactional FIFO that   *)
(* module Queue implements (module Outbox).  A capture that is cancelled   *)
(* runs on until it next looks at its context: it may still append and     *)
(* publish.                                                                *)
(***************************************************************************)
EXTENDS Naturals, FiniteSets, Sequences

CONSTANTS Slots,        \* goroutines that may run a capture
          Bodies, None,
          MaxQueued,    \* bound on messages in the queue
          Tables,       \* configured tables, scanned one after the other
          MaxRequests,  \* bound on reconciliations
          MaxLate       \* bound on captures that stop has left behind

\* A slot is free beside the captures that stop can leave behind, and beside
\* one whose error is still to be reported.
ASSUME SlotsAssumption == /\ None \notin Slots /\ MaxLate \in Nat
                          /\ Cardinality(Slots) > MaxLate + 1

VARIABLES pending, staged,   \* Outbox
          worker,       \* per goroutine: "none", "starting", "running" or "failed"
          cancelled,    \* running goroutines whose context is cancelled
          cancel,       \* captureController.cancel: the goroutine it cancels, or None
          done,         \* captureController.done: the goroutine that closes it
          late,         \* history: goroutines that outlived the deadline of stop
          pausedFor,    \* the reconciliation that holds the capture, or None
          pc,           \* the stream goroutine
          active,       \* connect's activeReconcile
          requests,     \* reconciliations requested so far
          table,        \* tables the current one has asked for
          exiting       \* the error group's context is cancelled

queueVars == <<pending, staged>>
ctlVars == <<cancelled, cancel, done, late, pausedFor>>
vars == <<queueVars, worker, ctlVars, pc, active, requests, table, exiting>>

O == INSTANCE Outbox

Capturing == {w \in Slots : worker[w] \in {"starting", "running"}}

Drained == pending = <<>> /\ staged = <<>>

-----------------------------------------------------------------------------
(* The capture goroutines.                                                 *)

\* A goroutine that runs no capture; which one does not matter.
Free == CHOOSE w \in Slots : worker[w] = "none"

\* startLocked: a goroutine with a context and a done channel of its own.
StartCapture == /\ \E w \in Slots : worker[w] = "none"
                /\ worker' = [worker EXCEPT ![Free] = "starting"]
                /\ cancel' = Free /\ done' = Free
                /\ cancelled' = cancelled \ {Free} /\ late' = late \ {Free}

\* An attempt begins by recovering the queue.
Begin(w) == /\ worker[w] = "starting"
            /\ worker' = [worker EXCEPT ![w] = "running"]
            /\ O!Discard
            /\ UNCHANGED <<ctlVars, pc, active, requests, table, exiting>>

Work(w) == /\ worker[w] = "running"
           /\ \/ /\ Len(pending \o staged) < MaxQueued
                 /\ \E b \in Bodies : O!Stage(b)
              \/ O!Commit
           /\ UNCHANGED <<worker, ctlVars, pc, active, requests, table, exiting>>

\* run returns context.Canceled, which is not an error of the capture.
Return(w) == /\ worker[w] \in {"starting", "running"} /\ (w \in cancelled \/ exiting)
             /\ worker' = [worker EXCEPT ![w] = "none"]
             /\ cancelled' = cancelled \ {w}
             /\ UNCHANGED <<queueVars, cancel, done, late, pausedFor,
                            pc, active, requests, table, exiting>>

\* run returns another error and done is closed.
Fail(w) == /\ worker[w] = "running"
           /\ worker' = [worker EXCEPT ![w] = "failed"]
           /\ UNCHANGED <<queueVars, ctlVars, pc, active, requests, table, exiting>>

\* The error ends the process unless the context was cancelled meanwhile.
Report(w) == /\ worker[w] = "failed"
             /\ worker' = [worker EXCEPT ![w] = "none"]
             /\ exiting' = (exiting \/ w \notin cancelled)
             /\ cancelled' = cancelled \ {w}
             /\ UNCHANGED <<queueVars, cancel, done, late, pausedFor,
                            pc, active, requests, table>>

Closed(w) == worker[w] \in {"none", "failed"}

-----------------------------------------------------------------------------
(* The controller's methods, called by the stream goroutine.               *)

\* stop up to its select: nothing to wait for when it was called before.
Stop == /\ cancel' = None
        /\ cancelled' = cancelled \cup ({cancel} \ {None})
        /\ pc' = IF cancel = None THEN "check" ELSE "stopping"
        /\ UNCHANGED <<done, late>>

\* Variant of Resume: neither the request nor a running capture is looked at.
ResumeAlways(id) ==
  /\ pausedFor' = None
  /\ IF exiting THEN UNCHANGED <<worker, cancelled, cancel, done, late>>
     ELSE StartCapture

\* Resume(id), which fails when the request is not the one that holds the
\* capture; the capture starts if it was stopped and the process goes on.
Resume(id) ==
  IF pausedFor # id THEN UNCHANGED <<worker, ctlVars>>
  ELSE /\ pausedFor' = None
       /\ IF ~exiting /\ cancel = None
          THEN StartCapture
          ELSE UNCHANGED <<worker, cancelled, cancel, done, late>>

\* A Reconcile frame: the first table of a new request or a further table of
\* the current one.
Reconcile ==
  /\ \/ /\ pc = "recv" /\ requests < MaxRequests
        /\ requests' = requests + 1 /\ table' = 1
     \/ /\ pc = "reply" /\ table < Tables
        /\ table' = table + 1 /\ UNCHANGED requests
  /\ active' = requests'
  /\ IF pausedFor \notin {None, requests'}
     THEN pc' = "failed" /\ UNCHANGED ctlVars
     ELSE pausedFor' = requests' /\ Stop
  /\ UNCHANGED <<queueVars, worker, exiting>>

\* stop's select: the capture has returned, or the deadline came first.
Stopped == /\ pc = "stopping" /\ Closed(done)
           /\ pc' = "check"
           /\ UNCHANGED <<queueVars, worker, ctlVars, active, requests, table, exiting>>

StopTimeout == /\ pc = "stopping" /\ ~Closed(done) /\ Cardinality(late) < MaxLate
               /\ pc' = "failed" /\ late' = late \cup {done}
               /\ UNCHANGED <<queueVars, worker, cancelled, cancel, done, pausedFor,
                              active, requests, table, exiting>>

\* Variant of CheckDrained: only what is exposed is looked at.
CheckDelivered ==
  /\ pc = "check"
  /\ IF pending = <<>>
     THEN pc' = "scan" /\ UNCHANGED <<worker, ctlVars>>
     ELSE pc' = "failed" /\ Resume(active)
  /\ UNCHANGED <<queueVars, active, requests, table, exiting>>

\* The scan runs on a drained queue; otherwise the capture is resumed at once.
CheckDrained ==
  /\ pc = "check"
  /\ IF Drained
     THEN pc' = "scan" /\ UNCHANGED <<worker, ctlVars>>
     ELSE pc' = "failed" /\ Resume(active)
  /\ UNCHANGED <<queueVars, active, requests, table, exiting>>

Scan == /\ pc = "scan"
        /\ pc' \in {"reply", "failed"}
        /\ UNCHANGED <<queueVars, worker, ctlVars, active, requests, table, exiting>>

\* A Resume frame follows the last table.
HandleResume == /\ pc = "reply" /\ table = Tables
                /\ Resume(active)
                /\ pc' = "recv" /\ active' = None /\ table' = 0
                /\ UNCHANGED <<queueVars, requests, exiting>>

\* A Repair frame: the queue is reset, which needs a sealed capture, the
\* capture starts anew and connect leaves.  When the reset is refused connect
\* leaves with the error.
HandleRepair == /\ pc = "reply" /\ table = Tables
                /\ pausedFor = active /\ cancel = None /\ Drained
                /\ pausedFor' = None
                /\ IF exiting THEN UNCHANGED <<worker, cancelled, cancel, done, late>>
                   ELSE StartCapture
                /\ pc' = "recv" /\ active' = None /\ table' = 0
                /\ UNCHANGED <<queueVars, requests, exiting>>

RepairRefused == /\ pc = "reply" /\ table = Tables
                 /\ pc' = "failed"
                 /\ UNCHANGED <<queueVars, worker, ctlVars, active, requests, table, exiting>>

\* Variant of Disconnect: connect returns without its deferred function.
DisconnectPlainly == /\ pc \in {"recv", "reply", "failed"}
                     /\ pc' = "recv" /\ active' = None /\ table' = 0
                     /\ UNCHANGED <<queueVars, worker, ctlVars, requests, exiting>>

\* connect returns, at an error of the stream or after a failed request; its
\* deferred function resumes what a reconciliation stopped.
Disconnect == /\ pc \in {"recv", "reply", "failed"}
              /\ IF active = None THEN UNCHANGED <<worker, ctlVars>> ELSE Resume(active)
              /\ pc' = "recv" /\ active' = None /\ table' = 0
              /\ UNCHANGED <<queueVars, requests, exiting>>

\* The delivery acknowledges a message; it does so on the same goroutine.
Deliver == /\ pc = "recv" /\ O!Consume
           /\ UNCHANGED <<worker, ctlVars, pc, active, requests, table, exiting>>

\* The process has ended and the service manager starts it again.
Restart == /\ exiting /\ \A w \in Slots : worker[w] = "none"
           /\ StartCapture
           /\ pausedFor' = None /\ pc' = "recv" /\ active' = None /\ table' = 0
           /\ exiting' = FALSE
           /\ UNCHANGED <<queueVars, requests>>

-----------------------------------------------------------------------------

Init == /\ pending = <<>> /\ staged = <<>>
        /\ done = (CHOOSE w \in Slots : TRUE) /\ cancel = done
        /\ worker = [w \in Slots |-> IF w = done THEN "starting" ELSE "none"]
        /\ cancelled = {} /\ late = {} /\ pausedFor = None
        /\ pc = "recv" /\ active = None /\ requests = 0 /\ table = 0
        /\ exiting = FALSE

Call == \/ Stopped \/ CheckDrained \/ Scan
        \/ pc \in {"reply", "failed"} /\ (HandleResume \/ Disconnect)

Next == \/ \E w \in Slots : Begin(w) \/ Work(w) \/ Return(w) \/ Fail(w) \/ Report(w)
        \/ Reconcile \/ Stopped \/ StopTimeout \/ CheckDrained \/ Scan
        \/ HandleResume \/ HandleRepair \/ RepairRefused \/ Disconnect
        \/ Deliver \/ Restart

Spec == Init /\ [][Next]_vars

\* The goroutines run; a server that asked for a reconciliation answers or its
\* stream ends; a cancelled capture returns; the process is restarted.
FairSpec == /\ Spec
            /\ WF_vars(Call) /\ WF_vars(Restart)
            /\ \A w \in Slots : WF_vars(Begin(w)) /\ WF_vars(Return(w)) /\ WF_vars(Report(w))

-----------------------------------------------------------------------------
(* Properties.                                                             *)

\* Types of the controller's fields.
TypeOK == /\ worker \in [Slots -> {"none", "starting", "running", "failed"}]
          /\ cancelled \subseteq Slots /\ cancel \in Slots \cup {None} /\ done \in Slots
          /\ pausedFor \in 1..MaxRequests \cup {None}
          /\ active \in 1..MaxRequests \cup {None}
          /\ pc \in {"recv", "stopping", "check", "scan", "reply", "failed"}

\* While the source is scanned nothing is captured and nothing waits in the
\* queue, so source and target describe the same point (Reconcile).  The
\* exception is a capture that an earlier stop did not wait for.
ScanQuiesced == pc \in {"scan", "reply"} => /\ Capturing \subseteq late
                                            /\ late = {} => Drained

\* "captureController serializes capture lifecycle changes with
\* reconciliation" (app/reconcile.go): two captures never run side by side,
\* except beside one that did not return before the deadline of stop.
AtMostOneCapture == Cardinality(Capturing \ late) <= 1

\* The same without the exception, which the code does not keep, since stop
\* gives up at its deadline (README.md).
SerializedCaptures == Cardinality(Capturing) <= 1

\* A capture that is stopped, or that failed, runs again: whatever becomes of
\* the stream that paused it, connect resumes it or the process restarts.
CaptureResumes == []<>(Capturing # {})
=============================================================================
