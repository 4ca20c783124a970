------------------------------- MODULE Reload -------------------------------
(***************************************************************************)
(* The target connections of the server and hot reload,                    *)
(* internal/server/server.go.  A reload reads the configuration file, opens *)
(* the targets whose settings changed, switches the configuration and the   *)
(* targets in one locked assignment, and closes the targets it replaced.   *)
(* A stream takes its target from the map when it connects, is told to end *)
(* between two batches once that target is replaced, and then closes it.   *)
(*                                                                         *)
(* A target is a number, in the order of opening; 0 is no target.  The     *)
(* settings of a syncer are a version; 0 is a syncer that is not listed.   *)
(***************************************************************************)
EXTENDS Integers, Sequences, FiniteSets

CONSTANTS Syncers, Streams,
          Reloads,      \* reloads that may run at the same time
          Settings,     \* versions a syncer's settings can have, and 0
          MaxTargets,   \* bound on the targets opened
          MaxWrites     \* bound on changes of the configuration file

\* There is a syncer, each has a target at the start, and 0 marks an absent one.
ASSUME SyncersAssumption == /\ IsFiniteSet(Syncers) /\ Syncers # {}
                            /\ MaxTargets \in Nat /\ Cardinality(Syncers) <= MaxTargets
                            /\ 0 \in Settings

VARIABLES file,         \* the configuration file
          writes,
          cfg, targets, connected,      \* Service, under its mutex
          opened,       \* every target ever opened, with its syncer's settings
          closed,       \* targets closed
          reload,       \* local variables of each reload
          stream        \* local variables of each Connect

vars == <<file, writes, cfg, targets, connected, opened, closed, reload, stream>>
fileVars == <<file, writes>>
serviceVars == <<cfg, targets, connected>>

Config == [Syncers -> Settings]

Target(i, v) == [id |-> i, settings |-> v]

IdleReload == [pc |-> "idle", candidate |-> [i \in Syncers |-> 0],
               current |-> [i \in Syncers |-> 0], old |-> [i \in Syncers |-> 0],
               new |-> [i \in Syncers |-> 0], todo |-> {}, closing |-> 0]

IdleStream == [pc |-> "idle", id |-> CHOOSE i \in Syncers : TRUE, used |-> 0, openBatch |-> FALSE]

-----------------------------------------------------------------------------
(* reload, by the watcher's timer or the ReloadConfig call.                *)

WriteFile(c) == /\ writes < MaxWrites /\ c # file
                /\ file' = c /\ writes' = writes + 1
                /\ UNCHANGED <<serviceVars, opened, closed, reload, stream>>

Set(r, f) == reload' = [reload EXCEPT ![r] = f]

\* The watcher's timer or an administrator starts a reload: Load reads the file ...
Load(r) == /\ reload[r].pc = "idle"
           /\ Set(r, [reload[r] EXCEPT !.pc = "loaded", !.candidate = file])
           /\ UNCHANGED <<fileVars, serviceVars, opened, closed, stream>>

\* ... and the current configuration and targets are read together.
ReadCurrent(r) ==
  /\ reload[r].pc = "loaded"
  /\ Set(r, [reload[r] EXCEPT !.pc = "open", !.current = cfg, !.old = targets,
                              !.new = [i \in Syncers |-> 0],
                              !.todo = {i \in Syncers : reload[r].candidate[i] # 0}])
  /\ UNCHANGED <<fileVars, serviceVars, opened, closed, stream>>

\* A syncer whose settings are unchanged keeps its target.
Unchanged(r, i) == reload[r].current[i] = reload[r].candidate[i]

OpenTarget(r, i) ==
  /\ reload[r].pc = "open" /\ i \in reload[r].todo
  /\ IF Unchanged(r, i)
     THEN /\ Set(r, [reload[r] EXCEPT !.todo = @ \ {i}, !.new[i] = reload[r].old[i]])
          /\ UNCHANGED opened
     ELSE /\ Len(opened) < MaxTargets
          /\ opened' = Append(opened, Target(i, reload[r].candidate[i]))
          /\ Set(r, [reload[r] EXCEPT !.todo = @ \ {i}, !.new[i] = Len(opened) + 1])
  /\ UNCHANGED <<fileVars, serviceVars, closed, stream>>

Ours(r) == {reload[r].new[i] : i \in {j \in Syncers : reload[r].new[j] # reload[r].old[j]}} \ {0}

\* A target that can not be opened, or that overlaps another, ends the reload;
\* the targets opened by it are closed.
OpenFails(r) ==
  /\ reload[r].pc = "open"
  /\ closed' = closed \cup Ours(r)
  /\ Set(r, IdleReload)
  /\ UNCHANGED <<fileVars, serviceVars, opened, stream>>

\* Variant of Switch: the configuration is stored, the targets are not.
SwitchConfig(r) ==
  /\ reload[r].pc = "open" /\ reload[r].todo = {}
  /\ cfg' = reload[r].candidate
  /\ Set(r, [reload[r] EXCEPT !.pc = "retire", !.todo = Syncers])
  /\ UNCHANGED <<fileVars, targets, connected, opened, closed, stream>>

Switch(r) ==
  /\ reload[r].pc = "open" /\ reload[r].todo = {}
  /\ cfg' = reload[r].candidate /\ targets' = reload[r].new
  /\ Set(r, [reload[r] EXCEPT !.pc = "retire", !.todo = Syncers])
  /\ UNCHANGED <<fileVars, connected, opened, closed, stream>>

Replaced(r, i) == reload[r].old[i] # 0 /\ reload[r].new[i] # reload[r].old[i]

Checked(r, i, close) ==
  /\ reload[r].pc = "retire" /\ reload[r].closing = 0 /\ i \in reload[r].todo
  /\ Set(r, [reload[r] EXCEPT !.todo = @ \ {i}, !.closing = IF close THEN reload[r].old[i] ELSE 0])
  /\ UNCHANGED <<fileVars, serviceVars, opened, closed, stream>>

\* Variant of CheckActive: a target in use is closed like the others.
CheckNothing(r, i) == Checked(r, i, Replaced(r, i))

\* A replaced target is to be closed unless a stream of its syncer is connected ...
CheckActive(r, i) == Checked(r, i, Replaced(r, i) /\ ~connected[i])

\* ... and is closed outside the lock.
CloseReplaced(r) ==
  /\ reload[r].closing # 0
  /\ closed' = closed \cup {reload[r].closing}
  /\ Set(r, [reload[r] EXCEPT !.closing = 0])
  /\ UNCHANGED <<fileVars, serviceVars, opened, stream>>

Finish(r) == /\ reload[r].pc = "retire" /\ reload[r].closing = 0 /\ reload[r].todo = {}
             /\ Set(r, IdleReload)
             /\ UNCHANGED <<fileVars, serviceVars, opened, closed, stream>>

-----------------------------------------------------------------------------
(* Connect.                                                                *)

Become(s, f) == stream' = [stream EXCEPT ![s] = f]

Acquire(s, i) ==
  /\ stream[s].pc = "idle" /\ targets[i] # 0 /\ ~connected[i]
  /\ connected' = [connected EXCEPT ![i] = TRUE]
  /\ Become(s, [pc |-> "streaming", id |-> i, used |-> targets[i], openBatch |-> FALSE])
  /\ UNCHANGED <<fileVars, cfg, targets, opened, closed, reload>>

\* Variant of Retiring: a target still in the configuration is not retired.
RetiringRemoved(s) == targets[stream[s].id] = 0

Retiring(s) == targets[stream[s].id] # stream[s].used

\* Handling one event, or one idle frame when openBatch does not change.
Frame(s, openBatch) ==
  /\ stream[s].pc = "streaming"
  /\ Become(s, [stream[s] EXCEPT !.openBatch = openBatch,
                                 !.pc = IF Retiring(s) /\ ~openBatch THEN "release" ELSE @])
  /\ UNCHANGED <<fileVars, serviceVars, opened, closed, reload>>

\* The stream breaks, whatever it is doing.
Break(s) == /\ stream[s].pc = "streaming"
            /\ Become(s, [stream[s] EXCEPT !.pc = "release"])
            /\ UNCHANGED <<fileVars, serviceVars, opened, closed, reload>>

\* release compares the targets under the lock and closes outside it.
Release(s) ==
  /\ stream[s].pc = "release"
  /\ connected' = [connected EXCEPT ![stream[s].id] = FALSE]
  /\ Become(s, IF Retiring(s) THEN [stream[s] EXCEPT !.pc = "close"] ELSE IdleStream)
  /\ UNCHANGED <<fileVars, cfg, targets, opened, closed, reload>>

CloseUsed(s) == /\ stream[s].pc = "close"
                /\ closed' = closed \cup {stream[s].used}
                /\ Become(s, IdleStream)
                /\ UNCHANGED <<fileVars, serviceVars, opened, reload>>

-----------------------------------------------------------------------------

\* New opens every target of the file.
Init ==
  /\ file \in {c \in Config : \A i \in Syncers : c[i] # 0}
  /\ writes = 0
  /\ cfg = file
  /\ \E order \in [Syncers -> 1..Cardinality(Syncers)] :
       /\ \A i, j \in Syncers : order[i] = order[j] => i = j
       /\ targets = order
       /\ opened = [t \in 1..Cardinality(Syncers) |->
                      LET i == CHOOSE j \in Syncers : order[j] = t IN Target(i, file[i])]
  /\ connected = [i \in Syncers |-> FALSE]
  /\ closed = {}
  /\ reload = [r \in Reloads |-> IdleReload]
  /\ stream = [s \in Streams |-> IdleStream]

ReloadStep(r) == \/ ReadCurrent(r) \/ OpenFails(r) \/ Switch(r) \/ CloseReplaced(r) \/ Finish(r)
                 \/ \E i \in Syncers : OpenTarget(r, i) \/ CheckActive(r, i)

StreamStep(s) == Release(s) \/ CloseUsed(s)

Next == \/ \E c \in Config : WriteFile(c)
        \/ \E r \in Reloads : Load(r) \/ ReloadStep(r)
        \/ \E s \in Streams : \/ \E i \in Syncers : Acquire(s, i)
                              \/ \E b \in BOOLEAN : Frame(s, b)
                              \/ Break(s) \/ StreamStep(s)

Spec == Init /\ [][Next]_vars

\* Reloads run to their end, and a connected stream keeps receiving frames, of
\* which one in the end closes the batch.
FairSpec == /\ Spec
            /\ \A r \in Reloads : WF_vars(ReloadStep(r))
            /\ \A s \in Streams : WF_vars(StreamStep(s)) /\ SF_vars(Frame(s, FALSE))

-----------------------------------------------------------------------------
(* Properties.                                                             *)

\* Types of the Service's fields and of the target numbers.
TypeOK == /\ cfg \in Config /\ file \in Config
          /\ targets \in [Syncers -> 0..MaxTargets]
          /\ connected \in [Syncers -> BOOLEAN]
          /\ opened \in Seq([id : Syncers, settings : Settings])
          /\ closed \subseteq 1..Len(opened)

\* The one locked assignment of reload: every listed syncer, and no other, has
\* a target, and the target was opened for it with the settings that are active.
TargetMatchesConfig ==
  \A i \in Syncers : IF targets[i] = 0 THEN cfg[i] = 0
                     ELSE opened[targets[i]] = Target(i, cfg[i])

\* A stream is never left with a closed target: reload leaves the targets of
\* connected streams to release.
StreamTargetOpen == \A s \in Streams : stream[s].pc = "streaming" => stream[s].used \notin closed

\* The targets in the map are connected: closing is for targets that were
\* replaced or never came into use.
ActiveTargetOpen == \A i \in Syncers : targets[i] # 0 => targets[i] \notin closed

\* Whatever the moment of a reload, nothing closes a target in use: neither
\* one a stream writes to nor one the next stream will get (reload, release).
OpenWhileUsed == StreamTargetOpen /\ ActiveTargetOpen

\* A stream whose target was replaced ends and closes it; it does not go on
\* writing with the replaced settings.
ReplacedTargetClosed ==
  \A t \in 1..MaxTargets :
    (\E s \in Streams : /\ stream[s].pc = "streaming" /\ stream[s].used = t
                        /\ targets[stream[s].id] # t)
      ~> (t \in closed \/ \E i \in Syncers : targets[i] = t)
=============================================================================
