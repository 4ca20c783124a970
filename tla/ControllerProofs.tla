--------------------------- MODULE ControllerProofs ---------------------------
(***************************************************************************)
(* Proofs about captureController for any number of goroutines, tables and  *)
(* reconciliations, and for any queue contents.                             *)
(*                                                                          *)
(* Neither AtMostOneCapture nor ScanQuiesced is inductive: both rest on     *)
(* what the fields cancel and done say about the goroutines.  A capture     *)
(* that stop has not given up is the one whose channel is in done; when     *)
(* cancel is nil, that one has returned or was given up, or the stream      *)
(* goroutine is still waiting for it; and from the end of stop to the       *)
(* Resume or Repair that follows, cancel is nil.                            *)
(***************************************************************************)
EXTENDS Controller, FiniteSetTheorems, TLAPS

USE SMTT(60)

\* No capture runs but for the one of done and the ones given up.
OnlyDone == \A w \in Slots : worker[w] \in {"starting", "running"} => w = done \/ w \in late

\* The controller counts on the capture being over when cancel is nil.
StoppedIsOver == cancel = None => pc = "stopping" \/ Closed(done) \/ done \in late

\* The stream goroutine is inside a reconciliation.
Paused == pc \in {"stopping", "check", "scan", "reply"} => cancel = None

\* Nothing is queued while the source is scanned.
QuietQueue == pc \in {"scan", "reply"} /\ late = {} => Drained

CtlTypes == /\ worker \in [Slots -> {"none", "starting", "running", "failed"}]
            /\ done \in Slots /\ cancel \in Slots \cup {None}
            /\ late \subseteq Slots

CtlInv == CtlTypes /\ OnlyDone /\ StoppedIsOver /\ Paused /\ QuietQueue

\* A free goroutine is one of the slots and runs nothing.
LEMMA FreeIsFree ==
  ASSUME \E w \in Slots : worker[w] = "none"
  PROVE  Free \in Slots /\ worker[Free] = "none"
BY Zenon DEF Free

\* startLocked, called when the last capture is over or was given up: the new
\* capture is then the only one but for those given up.
LEMMA StartKeeps ==
  ASSUME CtlTypes, OnlyDone, Closed(done) \/ done \in late, StartCapture
  PROVE  CtlTypes' /\ OnlyDone' /\ cancel' # None
<1>1. Free \in Slots /\ worker[Free] = "none"
  BY FreeIsFree DEF StartCapture
<1>2. /\ worker' = [worker EXCEPT ![Free] = "starting"]
      /\ cancel' = Free /\ done' = Free /\ late' = late \ {Free}
  BY DEF StartCapture
<1>3. CtlTypes' /\ cancel' # None
  BY <1>1, <1>2, SlotsAssumption DEF CtlTypes
<1>4. OnlyDone'
  BY <1>1, <1>2 DEF CtlTypes, OnlyDone, Closed
<1> QED BY <1>3, <1>4

\* Resume outside of stop starts a capture only when the last one is over, and
\* otherwise leaves the goroutines alone.
LEMMA ResumeKeeps ==
  ASSUME CtlInv, NEW id, Resume(id), pc # "stopping"
  PROVE  CtlTypes' /\ OnlyDone'
         /\ (cancel' = None => Closed(done)' \/ (done \in late)')
<1>1. CASE UNCHANGED <<worker, cancelled, cancel, done, late>>
  BY <1>1 DEF CtlInv, CtlTypes, OnlyDone, StoppedIsOver, Closed, Resume
<1>2. CASE StartCapture /\ cancel = None
  BY <1>2, StartKeeps DEF CtlInv, StoppedIsOver, Resume
<1> QED BY <1>1, <1>2 DEF Resume, ctlVars

\* newCaptureController starts the first capture.
LEMMA CtlInit == Init => CtlInv
<1> SUFFICES ASSUME Init PROVE CtlInv
  OBVIOUS
<1>1. Slots # {}
  BY SlotsAssumption, FS_EmptySet
<1>2. done \in Slots
  BY <1>1, Zenon DEF Init
<1> QED BY <1>2, SlotsAssumption DEF Init, CtlInv, CtlTypes, OnlyDone, StoppedIsOver, Paused,
                                     QuietQueue

-----------------------------------------------------------------------------
(* One step.                                                                *)

\* Every step of a goroutine, of the controller's methods and of the process
\* keeps the invariant.
LEMMA CtlNext == CtlInv /\ [Next]_vars => CtlInv'
<1> SUFFICES ASSUME CtlInv, [Next]_vars PROVE CtlInv'
  OBVIOUS
<1>0. CASE UNCHANGED vars
  BY <1>0 DEF vars, queueVars, ctlVars, CtlInv, CtlTypes, OnlyDone, StoppedIsOver, Paused,
              QuietQueue, Drained, Closed
\* The goroutines: one that writes the queue during a scan was given up.
<1>1. ASSUME NEW w \in Slots, Begin(w) \/ Work(w) PROVE CtlInv'
  <2>1. /\ worker[w] \in {"starting", "running"}
        /\ worker' \in {worker, [worker EXCEPT ![w] = "running"]}
        /\ UNCHANGED <<ctlVars, pc>>
    BY <1>1 DEF Begin, Work
  <2>2. CtlTypes' /\ OnlyDone'
    BY <2>1 DEF CtlInv, CtlTypes, OnlyDone, ctlVars
  <2>3. StoppedIsOver' /\ Paused'
    BY <2>1 DEF CtlInv, CtlTypes, StoppedIsOver, Paused, Closed, ctlVars
  <2>4. QuietQueue'
    BY <2>1, SlotsAssumption
       DEF CtlInv, CtlTypes, OnlyDone, StoppedIsOver, Paused, QuietQueue, Closed, ctlVars
  <2> QED BY <2>2, <2>3, <2>4 DEF CtlInv
<1>2. ASSUME NEW w \in Slots, Return(w) \/ Fail(w) \/ Report(w) PROVE CtlInv'
  <2>1. /\ \/ worker' = [worker EXCEPT ![w] = "none"]
           \/ worker' = [worker EXCEPT ![w] = "failed"]
        /\ UNCHANGED <<queueVars, cancel, done, late, pc>>
    BY <1>2 DEF Return, Fail, Report, ctlVars
  <2> QED
    BY <2>1 DEF CtlInv, CtlTypes, OnlyDone, StoppedIsOver, Paused, QuietQueue, Closed, Drained,
                queueVars
\* stop.
<1>3. ASSUME Reconcile PROVE CtlInv'
  <2>1. UNCHANGED <<worker, queueVars, done, late>>
    BY <1>3 DEF Reconcile, Stop, ctlVars
  <2>2. CASE pc' = "failed" /\ UNCHANGED ctlVars
    <3>1. pc # "stopping"
      BY <1>3 DEF Reconcile
    <3> QED
      BY <2>1, <2>2, <3>1 DEF CtlInv, CtlTypes, OnlyDone, StoppedIsOver, Paused, QuietQueue,
                             Closed, ctlVars
  <2>3. CASE Stop
    <3>1. pc # "stopping"
      BY <1>3 DEF Reconcile
    <3> QED
      BY <2>1, <2>3, <3>1 DEF Stop, CtlInv, CtlTypes, OnlyDone, StoppedIsOver, Paused, QuietQueue,
                             Closed
  <2> QED BY <1>3, <2>2, <2>3 DEF Reconcile
<1>4. ASSUME Stopped PROVE CtlInv'
  BY <1>4 DEF Stopped, CtlInv, CtlTypes, OnlyDone, StoppedIsOver, Paused, QuietQueue, Closed,
              ctlVars
<1>5. ASSUME StopTimeout PROVE CtlInv'
  BY <1>5 DEF StopTimeout, CtlInv, CtlTypes, OnlyDone, StoppedIsOver, Paused, QuietQueue, Closed
\* The scan and what follows it.
<1>6. ASSUME CheckDrained PROVE CtlInv'
  <2>1. CASE Drained
    BY <1>6, <2>1 DEF CheckDrained, CtlInv, CtlTypes, OnlyDone, StoppedIsOver, Paused, QuietQueue,
                      Closed, Drained, queueVars, ctlVars
  <2>2. CASE ~Drained
    <3>1. pc' = "failed" /\ Resume(active) /\ pc = "check"
      BY <1>6, <2>2 DEF CheckDrained
    <3>2. /\ CtlTypes' /\ OnlyDone'
          /\ cancel' = None => Closed(done)' \/ (done \in late)'
      BY <3>1, ResumeKeeps
    <3> QED BY <3>1, <3>2 DEF CtlInv, StoppedIsOver, Paused, QuietQueue
  <2> QED BY <2>1, <2>2
<1>7. ASSUME Scan \/ RepairRefused PROVE CtlInv'
  BY <1>7 DEF Scan, RepairRefused, CtlInv, CtlTypes, OnlyDone, StoppedIsOver, Paused, QuietQueue,
              Closed, Drained, queueVars, ctlVars
<1>8. ASSUME HandleResume \/ Disconnect PROVE CtlInv'
  <2>1. /\ pc' = "recv" /\ pc # "stopping"
        /\ Resume(active) \/ UNCHANGED <<worker, ctlVars>>
    BY <1>8 DEF HandleResume, Disconnect
  <2>2. CASE Resume(active)
    <3>1. /\ CtlTypes' /\ OnlyDone'
          /\ cancel' = None => Closed(done)' \/ (done \in late)'
      BY <2>1, <2>2, ResumeKeeps
    <3> QED BY <2>1, <3>1 DEF CtlInv, StoppedIsOver, Paused, QuietQueue
  <2>3. CASE UNCHANGED <<worker, ctlVars>>
    BY <2>1, <2>3 DEF CtlInv, CtlTypes, OnlyDone, StoppedIsOver, Paused, QuietQueue, Closed,
                      ctlVars
  <2> QED BY <2>1, <2>2, <2>3
<1>9. ASSUME HandleRepair PROVE CtlInv'
  <2>1. pc' = "recv" /\ cancel = None /\ pc = "reply"
    BY <1>9 DEF HandleRepair
  <2>2. CASE StartCapture
    <3>1. CtlTypes' /\ OnlyDone' /\ cancel' # None
      BY <2>1, <2>2, StartKeeps DEF CtlInv, StoppedIsOver
    <3> QED BY <2>1, <3>1 DEF CtlInv, StoppedIsOver, Paused, QuietQueue
  <2>3. CASE UNCHANGED <<worker, cancelled, cancel, done, late>>
    BY <2>1, <2>3 DEF CtlInv, CtlTypes, OnlyDone, StoppedIsOver, Paused, QuietQueue, Closed
  <2> QED BY <1>9, <2>2, <2>3 DEF HandleRepair
<1>10. ASSUME Deliver PROVE CtlInv'
  BY <1>10 DEF Deliver, CtlInv, CtlTypes, OnlyDone, StoppedIsOver, Paused, QuietQueue, Closed,
               ctlVars
<1>11. ASSUME Restart PROVE CtlInv'
  <2>1. pc' = "recv" /\ StartCapture /\ \A w \in Slots : worker[w] = "none"
    BY <1>11 DEF Restart
  <2>2. CtlTypes' /\ OnlyDone' /\ cancel' # None
    BY <2>1, StartKeeps DEF CtlInv, CtlTypes, Closed
  <2> QED BY <2>1, <2>2 DEF CtlInv, StoppedIsOver, Paused, QuietQueue
<1> QED
  BY <1>0, <1>1, <1>2, <1>3, <1>4, <1>5, <1>6, <1>7, <1>8, <1>9, <1>10, <1>11 DEF Next

-----------------------------------------------------------------------------
(* The theorems.                                                            *)

\* The invariant holds in every reachable state.
LEMMA CtlInvariance == Spec => []CtlInv
BY CtlInit, CtlNext, PTL DEF Spec

\* Two captures never run side by side, but for one that did not return before
\* the deadline of stop: for any number of requests, failures, restarts and
\* broken streams (startLocked, stop, Resume, Repair).
THEOREM CapturesSerialized == Spec => []AtMostOneCapture
<1>1. CtlInv => AtMostOneCapture
  <2> SUFFICES ASSUME CtlInv PROVE Cardinality(Capturing \ late) <= 1
    BY DEF AtMostOneCapture
  <2>1. Capturing \ late \subseteq {done}
    BY DEF CtlInv, OnlyDone, Capturing
  <2>2. IsFiniteSet({done}) /\ Cardinality({done}) = 1
    BY FS_Singleton
  <2> QED BY <2>1, <2>2, FS_Subset
<1> QED BY <1>1, CtlInvariance, PTL

\* A scan sees a stopped capture and, unless a capture was given up, a drained
\* queue until its answer is dealt with (Reconcile, Resume, Repair).
THEOREM ScansQuiesced == Spec => []ScanQuiesced
<1>1. CtlInv => ScanQuiesced
  <2> SUFFICES ASSUME CtlInv, pc \in {"scan", "reply"}
               PROVE  Capturing \subseteq late /\ (late = {} => Drained)
    BY DEF ScanQuiesced
  <2>1. Closed(done) \/ done \in late
    BY DEF CtlInv, StoppedIsOver, Paused
  <2> QED BY <2>1 DEF CtlInv, CtlTypes, OnlyDone, QuietQueue, Capturing, Closed
<1> QED BY <1>1, CtlInvariance, PTL
=============================================================================
