--------------------------- MODULE Reconciliation ---------------------------
(***************************************************************************)
(* Scheduled reconciliation from end to end: the server decides when it is *)
(* due, asks the collector for the digests of each table, compares them    *)
(* with the target's and ends with a resumed capture or with a repair      *)
(* (server/reconcile.go).  The collector's side is module Controller, whose *)
(* actions this module joins with the server's; the digests are module     *)
(* Digest.                                                                 *)
(*                                                                         *)
(* The source is a history of committed inserts on top of Base, a capture  *)
(* a position in that history.  A queued message is <<"row", n>>, the n-th *)
(* insert, or <<"snapshot", n>>, all the tables as they were after n of    *)
(* them; that a delivered message reaches the target is module Session's   *)
(* matter, and so is the authorisation that lets a new generation in.  A   *)
(* frame and its answer are one step unless something can come in between; *)
(* a stream that breaks is a step of each side.                            *)
(*                                                                         *)
(* Time passes in ticks of the day.  The schedule is kept as the ticks     *)
(* still to wait, the audit table as the ticks since its last repair.      *)
(***************************************************************************)
EXTENDS Controller, Digest

CONSTANTS Base,         \* table -> rows of the source when it is first seen
          Copies,       \* what the target may hold by then; others may have edited it
          Writes,       \* inserts the application may make: table and value
          MaxWrites,    \* bound on them
          Day,          \* ticks of a day
          DailyAt,      \* reconcile.daily_at
          RetryAfter,   \* ticks of retryReconcile
          MinInterval   \* reconcile.repair_min_interval

ASSUME ScheduleAssumption == /\ Day \in Nat \ {0} /\ DailyAt \in 0 .. Day - 1
                             /\ RetryAfter \in 1 .. Day /\ MinInterval \in Nat \ {0}

VARIABLES log,          \* the source's inserts, in commit order
          pos,          \* per capture: how many it has read, None before its snapshot
          durable,      \* the position published last, None when a snapshot is due
          target,       \* table -> rows of the target
          run,          \* runReconcile: its step, the answer in hand, the mismatches
          now,          \* time of day
          wait,         \* ticks until reconcileNext, None for the zero time
          sinceRepair,  \* ticks since the last repair in the audit table
          drifted,      \* history: the target may differ from what was delivered
          sinceReset,   \* history: ticks since a repair reset the queue
          recorded,     \* history: that repair is in the audit table
          served        \* history: runs since daily_at passed that did not fail

dataVars == <<log, pos, durable, target>>
serverVars == <<run, wait, sinceRepair>>
history == <<drifted, sinceReset, recorded, served>>
allVars == <<vars, dataVars, serverVars, now, history>>

\* The source tables after n inserts.
Inserts(n, t) == SelectSeq(SubSeq(log, 1, n), LAMBDA w : w.table = t)

Content(n) == [t \in 1..Tables |->
                 Base[t] \o [i \in DOMAIN Inserts(n, t) |-> Inserts(n, t)[i].value]]

-----------------------------------------------------------------------------
(* The source and its capture.                                             *)

Write == /\ Len(log) < MaxWrites
         /\ \E w \in Writes : log' = Append(log, w)
         /\ UNCHANGED <<vars, pos, durable, target, serverVars, now, history>>

\* Variant of CaptureBegins: the attempt goes on from the source's current end.
CaptureBeginsAtEnd(w) == /\ Begin(w)
                         /\ pos' = [pos EXCEPT ![w] = Len(log)]
                         /\ UNCHANGED <<log, durable, target, serverVars, now, history>>

\* An attempt goes on from what is published.
CaptureBegins(w) == /\ Begin(w)
                    /\ pos' = [pos EXCEPT ![w] = durable]
                    /\ UNCHANGED <<log, durable, target, serverVars, now, history>>

\* The next message of capture w: a snapshot, or the insert it has come to.
Message(w) == IF pos[w] = None THEN <<"snapshot", Len(log)>> ELSE <<"row", pos[w] + 1>>

CaptureReads(w) == /\ pos[w] # None => pos[w] < Len(log)
                   /\ Work(w)
                   /\ staged' = Append(staged, Message(w))
                   /\ pos' = [pos EXCEPT ![w] = Message(w)[2]]
                   /\ UNCHANGED <<log, durable, target, serverVars, now, history>>

CapturePublishes(w) == /\ pos[w] # None /\ Work(w)
                       /\ staged' = <<>>
                       /\ durable' = pos[w]
                       /\ UNCHANGED <<log, pos, target, serverVars, now, history>>

CaptureEnds(w) == /\ Return(w) \/ Fail(w) \/ Report(w)
                  /\ pos' = [pos EXCEPT ![w] = 0]
                  /\ UNCHANGED <<log, durable, target, serverVars, now, history>>

\* A message is stored in the target and acknowledged.
DeliverMessage ==
  /\ run.pc = "none" /\ Deliver
  /\ LET m == Head(pending)
     IN  IF m[1] = "row"
         THEN /\ target' = [target EXCEPT ![log[m[2]].table] = Append(@, log[m[2]].value)]
              /\ UNCHANGED drifted
         ELSE /\ target' = Content(m[2])
              /\ drifted' = (late # {})
  /\ UNCHANGED <<log, pos, durable, run, wait, sinceRepair, now,
                 sinceReset, recorded, served>>

-----------------------------------------------------------------------------
(* The schedule: reconcileDue and retryReconcile.                          *)

\* Variant of UntilDaily: today's instant is kept when it is now.
UntilDailyInclusive == IF now <= DailyAt THEN DailyAt - now ELSE DailyAt - now + Day

\* Ticks until the next daily_at after now.
UntilDaily == IF now < DailyAt THEN DailyAt - now ELSE DailyAt - now + Day

Due == wait = 0 \/ (wait = None /\ now >= DailyAt)

\* An Idle frame: everything published is acknowledged and no run is active.
Idling == run.pc = "none" /\ pc = "recv" /\ pending = <<>>

\* The first look at the schedule before daily_at only fixes the time.
Schedule == /\ Idling /\ wait = None /\ now < DailyAt
            /\ wait' = DailyAt - now
            /\ UNCHANGED <<vars, dataVars, run, sinceRepair, now, history>>

Down(n) == IF n \in Nat /\ n > 0 THEN n - 1 ELSE n
Up(n) == IF n < MinInterval THEN n + 1 ELSE n

Tick == /\ now' = (now + 1) % Day
        /\ wait' = IF wait = None THEN None ELSE Down(wait)
        /\ sinceRepair' = Up(sinceRepair)
        /\ sinceReset' = Up(sinceReset)
        /\ recorded' = (recorded /\ sinceReset' < MinInterval)
        /\ served' = IF now' = DailyAt THEN 0 ELSE served
        /\ UNCHANGED <<vars, dataVars, run, drifted>>

\* The schedule lives in memory: a reload that changes the settings clears it.
ReloadSchedule == /\ wait' = None /\ served' = 0
                  /\ UNCHANGED <<vars, dataVars, run, sinceRepair, now,
                                 drifted, sinceReset, recorded>>

-----------------------------------------------------------------------------
(* runReconcile.                                                           *)

NoRun == [pc |-> "none", scanned |-> 0, total |-> 0]

\* The run ends with an error: the audit row says so and it is due again soon.
RunFails == /\ run' = NoRun
            /\ wait' = RetryAfter
            /\ served' = 0
            /\ UNCHANGED <<sinceRepair, now, drifted, sinceReset, recorded>>

StartRun == /\ Idling /\ Due /\ Reconcile
            /\ wait' = UntilDaily
            /\ run' = [NoRun EXCEPT !.pc = "asked"]
            /\ served' = served + 1
            /\ UNCHANGED <<dataVars, sinceRepair, now,
                           drifted, sinceReset, recorded>>

\* The collector works on the request; a capture that outlives stop may go on
\* to write the queue beside its successor.
CollectorWorks == /\ Stopped \/ StopTimeout \/ CheckDrained
                  /\ drifted' = (drifted \/ late' # {})
                  /\ UNCHANGED <<dataVars, serverVars, now, sinceReset, recorded, served>>

\* The source table is read in one transaction; the answer holds its digests.
ScanTable == /\ Scan
             /\ run' = IF run.pc = "none" THEN run ELSE [run EXCEPT !.scanned = Len(log)]
             /\ UNCHANGED <<dataVars, wait, sinceRepair, now, history>>

Differing == Mismatches(Digests(Content(run.scanned)[table]), Digests(target[table]))

\* reconcileDigests and sameDigests for the table just answered.
Compare == /\ pc = "reply" /\ run.pc = "asked"
           /\ run' = [run EXCEPT !.pc = "compared", !.total = @ + Differing]
           /\ UNCHANGED <<vars, dataVars, wait, sinceRepair, now, history>>

AskNext == /\ run.pc = "compared" /\ pc = "reply" /\ Reconcile
           /\ run' = [run EXCEPT !.pc = "asked"]
           /\ UNCHANGED <<dataVars, wait, sinceRepair, now, history>>

\* Variant of CanRepair: the audit table is not asked.
CanRepairAlways == run.total > 0

\* A mismatch is repaired unless the audit table has a repair that is too recent.
CanRepair == run.total > 0 /\ sinceRepair >= MinInterval

\* The last table is compared and nothing is to be repaired: capture resumes.
AskResume == /\ run.pc = "compared" /\ ~CanRepair /\ HandleResume
             /\ run' = [run EXCEPT !.pc = "resuming"]
             /\ UNCHANGED <<dataVars, wait, sinceRepair, now, history>>

\* The repair is authorised and asked for.  The collector resets its queue,
\* which a snapshot not yet published forbids, and leaves the stream.
AskRepair == /\ run.pc = "compared" /\ CanRepair
             /\ \/ /\ durable # None /\ HandleRepair
                   /\ durable' = None
                   /\ run' = [run EXCEPT !.pc = "repairing"]
                   /\ sinceReset' = 0 /\ recorded' = FALSE
                \/ /\ RepairRefused
                   /\ UNCHANGED <<durable, run, sinceReset, recorded>>
             /\ UNCHANGED <<log, pos, target, wait, sinceRepair, now, drifted, served>>

\* ResumeAccepted arrives: the run is recorded as a match or a mismatch.
Resumed == /\ run.pc = "resuming"
           /\ run' = NoRun
           /\ UNCHANGED <<vars, dataVars, wait, sinceRepair, now, history>>

\* RepairAccepted arrives: the repair is recorded, if the insert succeeds.
Repaired == /\ run.pc = "repairing"
            /\ run' = NoRun
            /\ \/ sinceRepair' = 0 /\ recorded' = TRUE
               \/ UNCHANGED <<sinceRepair, recorded>>
            /\ UNCHANGED <<vars, dataVars, wait, now, drifted, sinceReset, served>>

-----------------------------------------------------------------------------
(* Failures.                                                               *)

\* The stream ends before the answer to Resume or Repair arrives; the
\* collector has done its part and is no longer on the stream.
AnswerLost == /\ run.pc \in {"resuming", "repairing"}
              /\ RunFails
              /\ UNCHANGED <<vars, dataVars>>

\* The server finds the stream broken while the collector still works.
AnswerMissed == /\ run.pc = "asked" /\ pc \in {"stopping", "check", "scan"}
                /\ RunFails
                /\ UNCHANGED <<vars, dataVars>>

\* The stream ends, by a fault or because either side returned an error; the
\* collector's connect leaves.
StreamEnds == /\ run.pc \in {"none", "asked", "compared"} /\ Disconnect
              /\ IF run.pc = "none" THEN UNCHANGED <<serverVars, now, history>> ELSE RunFails
              /\ UNCHANGED dataVars

\* The collector process is started again.
CollectorRestarts == /\ Restart
                     /\ IF run.pc = "none" THEN UNCHANGED <<serverVars, now, history>>
                        ELSE RunFails
                     /\ UNCHANGED dataVars

\* The server process dies: no audit row is written and the schedule is lost.
ServerCrash == /\ run.pc # "none"
               /\ run' = NoRun /\ wait' = None /\ served' = 0
               /\ UNCHANGED <<vars, dataVars, sinceRepair, now,
                              drifted, sinceReset, recorded>>

-----------------------------------------------------------------------------

ReconcileInit ==
  /\ Init
  /\ log = <<>> /\ durable = 0 /\ pos = [w \in Slots |-> 0]
  /\ target \in Copies
  /\ run = NoRun
  /\ now = 0 /\ wait = None /\ sinceRepair = MinInterval
  /\ drifted = (\E t \in 1..Tables : ~SameRows(Base[t], target[t]))
  /\ sinceReset = MinInterval /\ recorded = FALSE /\ served = 0

Serve == Schedule \/ StartRun \/ Compare \/ AskNext \/ AskResume \/ AskRepair
         \/ Resumed \/ Repaired

ReconcileNext ==
  \/ Write \/ DeliverMessage
  \/ \E w \in Slots : CaptureBegins(w) \/ CaptureReads(w) \/ CapturePublishes(w)
                      \/ CaptureEnds(w)
  \/ Tick \/ ReloadSchedule \/ Serve \/ CollectorWorks \/ ScanTable
  \/ AnswerLost \/ AnswerMissed \/ StreamEnds \/ CollectorRestarts \/ ServerCrash

ReconcileSpec == ReconcileInit /\ [][ReconcileNext]_allVars

\* Both sides go on with a run or their stream ends; the capture goroutines
\* run and a cancelled one returns; the process is restarted.  Nothing is
\* assumed of the application, the clock, the deadline of stop or of failures.
ReconcileFairSpec ==
  /\ ReconcileSpec
  /\ WF_allVars(Compare \/ AskNext \/ AskResume \/ AskRepair \/ Resumed \/ Repaired
                \/ (Stopped /\ CollectorWorks) \/ (CheckDrained /\ CollectorWorks)
                \/ ScanTable \/ (pc \in {"reply", "failed"} /\ StreamEnds))
  /\ WF_allVars(CollectorRestarts)
  /\ \A w \in Slots : /\ WF_allVars(CaptureBegins(w))
                      /\ WF_allVars((Return(w) \/ Report(w)) /\ CaptureEnds(w))

-----------------------------------------------------------------------------
(* Properties.                                                             *)

Answered == pc = "reply" /\ run.pc = "asked"

\* "compared with an order-independent, duplicate-sensitive SHA-256 aggregate"
\* (docs/server.md): the digests of the two sides agree in every bucket exactly
\* when source and target hold the same rows, each as often (Builder, sameDigests).
DigestsDecide ==
  Answered => (Differing = 0 <=> SameRows(Content(run.scanned)[table], target[table]))

\* A mismatch is never an artefact of the protocol: it is reported only when
\* the target was edited or a capture outlived stop, when the source has
\* writes that the stopped capture had not come to, or when the snapshot of an
\* earlier repair is still to be taken (runReconcile, captureController.Reconcile).
NoFalseAlarm ==
  Answered /\ Differing > 0 => drifted \/ durable = None \/ run.scanned > durable

\* A repair resets the queue within repair_min_interval of another one only
\* when the other one never reached the audit table (repairAllowed).
RepairSpaced == durable # None /\ durable' = None =>
                  sinceReset >= MinInterval \/ ~recorded

RepairsLimited == [][RepairSpaced]_allVars

\* "Repairs are rate limited by repair_min_interval" (docs/server.md).  The code
\* does not keep it, since the audit row follows the repair (README.md).
RepairsRateLimited ==
  [][durable # None /\ durable' = None => sinceReset >= MinInterval]_allVars

\* Between two passages of daily_at one run is made, unless a run fails, the
\* server restarts or its settings change (reconcileDue, retryReconcile).
OncePerDay == served <= 1
=============================================================================
