---------------------------- MODULE ReloadProofs ----------------------------
(***************************************************************************)
(* Theorems about Reload, for any number of syncers, streams and targets:  *)
(* settings and targets stay paired however many reloads overlap, and when *)
(* reloads do not overlap no target in use is closed.                      *)
(***************************************************************************)
EXTENDS Reload, TLAPS, FiniteSetTheorems, SequenceTheorems

\* The default prover and its time limit for the leaves that name none.
USE SMTT(60)

ReloadType == [pc : {"idle", "loaded", "open", "retire"},
               candidate : Config, current : Config,
               old : [Syncers -> Nat], new : [Syncers -> Nat],
               todo : SUBSET Syncers, closing : Nat]

StreamType == [pc : {"idle", "streaming", "release", "close"},
               id : Syncers, used : Nat, openBatch : BOOLEAN]

\* A target recorded for syncer i was opened, for i, with settings v.
Paired(ops, t, i, v) == IF t = 0 THEN v = 0 ELSE t <= Len(ops) /\ ops[t] = Target(i, v)

\* What one reload has read and opened so far.
ReloadPaired(r) ==
  \A i \in Syncers :
    /\ reload[r].pc = "open" => /\ Paired(opened, reload[r].old[i], i, reload[r].current[i])
                                /\ i \notin reload[r].todo =>
                                     Paired(opened, reload[r].new[i], i, reload[r].candidate[i])
                                /\ i \in reload[r].todo => reload[r].new[i] = 0
    /\ reload[r].new[i] <= Len(opened) /\ reload[r].old[i] <= Len(opened)
    /\ reload[r].closing <= Len(opened)

\* The invariant behind TargetMatchesConfig.
PairInv == /\ cfg \in Config /\ file \in Config
           /\ targets \in [Syncers -> Nat] /\ connected \in [Syncers -> BOOLEAN]
           /\ opened \in Seq([id : Syncers, settings : Settings]) /\ Len(opened) <= MaxTargets
           /\ closed \subseteq 1..Len(opened)
           /\ reload \in [Reloads -> ReloadType]
           /\ stream \in [Streams -> StreamType]
           /\ \A s \in Streams : stream[s].used <= Len(opened)
           /\ \A s \in Streams : stream[s].pc # "idle" => stream[s].used # 0
           /\ \A i \in Syncers : Paired(opened, targets[i], i, cfg[i])
           /\ \A r \in Reloads : ReloadPaired(r)

\* A stream that counts as connected.
Connected(s) == stream[s].pc \in {"streaming", "release"}

\* A target known to no one but the reload that opened it.
Private(t) == /\ t \notin closed
              /\ \A i \in Syncers : targets[i] # t
              /\ \A s \in Streams : stream[s].used # t

\* A target that no syncer has and no connected stream uses.
Unused(t) == /\ \A i \in Syncers : targets[i] # t
             /\ \A s \in Streams : Connected(s) => stream[s].used # t

\* A stream uses a target of its own syncer, is marked in connected while it is
\* connected, excludes others of its syncer, and closes only an unused target.
StreamUse ==
  /\ \A s \in Streams : stream[s].used # 0 => opened[stream[s].used].id = stream[s].id
  /\ \A s \in Streams : Connected(s) => connected[stream[s].id]
  /\ \A s, u \in Streams : Connected(s) /\ Connected(u) /\ stream[s].id = stream[u].id => s = u
  /\ \A s \in Streams : stream[s].pc = "close" => Unused(stream[s].used)

\* Nothing in use is closed.
InUseOpen ==
  /\ \A i \in Syncers : targets[i] # 0 => targets[i] \notin closed
  /\ \A s \in Streams : Connected(s) => stream[s].used \notin closed

\* A reload that has read the targets still sees the current ones, what it opened
\* is its own until the switch, and what it is about to close is unused.
ReloadUse(r) ==
  /\ reload[r].pc # "retire" => reload[r].closing = 0
  /\ reload[r].pc = "open" => /\ reload[r].old = targets /\ reload[r].current = cfg
                              /\ \A i \in Syncers : \/ reload[r].new[i] = 0
                                                    \/ reload[r].new[i] = targets[i]
                                                    \/ Private(reload[r].new[i])
  /\ reload[r].pc = "retire" =>
       /\ reload[r].new = targets
       /\ \A i \in Syncers : reload[r].old[i] # 0 => opened[reload[r].old[i]].id = i
       /\ reload[r].closing # 0 => Unused(reload[r].closing)

\* The invariant behind StreamTargetOpen and ActiveTargetOpen, for reloads that
\* do not overlap.
UseInv == StreamUse /\ InUseOpen /\ \A r \in Reloads : ReloadUse(r)

-----------------------------------------------------------------------------
(* Pairing.                                                                *)

\* Init: New opens one target per syncer, so numbering them is a bijection and
\* the pairing holds.
LEMMA PairInit == Init => PairInv
<1> SUFFICES ASSUME Init PROVE PairInv
  OBVIOUS
<1> DEFINE n == Cardinality(Syncers)
<1>1. n \in Nat /\ n # 0
  BY SyncersAssumption, FS_CardinalityType, FS_EmptySet
<1>2. PICK order \in [Syncers -> 1..n] :
        /\ \A i, j \in Syncers : order[i] = order[j] => i = j
        /\ targets = order
        /\ opened = [t \in 1..n |-> LET i == CHOOSE j \in Syncers : order[j] = t
                                    IN Target(i, file[i])]
  BY Zenon DEF Init
<1>3. \A t \in 1..n : \E j \in Syncers : order[j] = t
  <2>1. order \in Injection(Syncers, 1..n)
    BY <1>2 DEF Injection, IsInjective
  <2>2. IsFiniteSet(1..n) /\ Cardinality(1..n) = n
    BY <1>1, FS_Interval
  <2>3. order \in Surjection(Syncers, 1..n)
    BY <2>1, <2>2, SyncersAssumption, FS_Injection
  <2> QED
    BY <2>3 DEF Surjection
<1>4. /\ opened \in Seq([id : Syncers, settings : Settings])
      /\ Len(opened) = n
      /\ \A i \in Syncers : opened[order[i]] = Target(i, file[i])
  <2>1. \A t \in 1..n : opened[t] \in [id : Syncers, settings : Settings]
    BY <1>2, <1>3 DEF Target, Config, Init
  <2>2. opened \in [1..n -> [id : Syncers, settings : Settings]]
    BY <1>2, <2>1, Zenon
  <2>3. \A i \in Syncers : opened[order[i]] = Target(i, file[i])
    <3> SUFFICES ASSUME NEW i \in Syncers PROVE opened[order[i]] = Target(i, file[i])
      OBVIOUS
    <3>1. (CHOOSE j \in Syncers : order[j] = order[i]) = i
      BY <1>2
    <3> QED BY <1>2, <3>1
  <2>4. opened \in Seq([id : Syncers, settings : Settings])
    <3>1. opened \in UNION {[1..m -> [id : Syncers, settings : Settings]] : m \in Nat}
      BY <1>1, <2>2, Zenon
    <3> QED BY <3>1, SeqDef, Zenon
  <2> QED BY <1>1, <2>2, <2>3, <2>4
<1>5. \A i \in Syncers : Paired(opened, targets[i], i, cfg[i])
  BY <1>1, <1>2, <1>4 DEF Paired, Init
<1>6. reload \in [Reloads -> ReloadType] /\ stream \in [Streams -> StreamType]
  <2>1. IdleReload \in ReloadType
    BY SyncersAssumption DEF IdleReload, ReloadType, Config
  <2>2. IdleStream \in StreamType
    BY SyncersAssumption DEF IdleStream, StreamType
  <2> QED BY <2>1, <2>2 DEF Init
<1>7. \A r \in Reloads : ReloadPaired(r)
  BY <1>1, <1>4 DEF Init, IdleReload, ReloadPaired
<1>8. \A s \in Streams : stream[s].pc = "idle" /\ stream[s].used = 0
  BY DEF Init, IdleStream
<1>9. cfg \in Config /\ file \in Config /\ targets \in [Syncers -> Nat]
      /\ connected \in [Syncers -> BOOLEAN] /\ closed \subseteq 1..Len(opened)
  BY <1>1, <1>2 DEF Init
<1> QED
  BY <1>1, <1>4, <1>5, <1>6, <1>7, <1>8, <1>9, SyncersAssumption DEF PairInv

\* A step of a reload keeps the pairing if it keeps the types, the opened
\* targets and the pairing of that reload and of the map.
LEMMA PairReloadStep ==
  ASSUME PairInv, NEW r \in Reloads, NEW f \in ReloadType, Set(r, f),
         UNCHANGED <<fileVars, connected, stream>>,
         cfg' \in Config, targets' \in [Syncers -> Nat],
         opened' \in Seq([id : Syncers, settings : Settings]),
         Len(opened') <= MaxTargets, Len(opened) <= Len(opened'),
         \A t \in 1..Len(opened) : opened'[t] = opened[t],
         closed' \subseteq 1..Len(opened'),
         \A i \in Syncers : Paired(opened, targets[i], i, cfg[i])',
         ReloadPaired(r)'
  PROVE  PairInv'
<1>1. reload' \in [Reloads -> ReloadType]
  BY DEF PairInv, Set
<1>2. ASSUME NEW q \in Reloads PROVE ReloadPaired(q)'
  <2>1. CASE q = r
    BY <2>1
  <2>2. CASE q # r
    <3>1. reload'[q] = reload[q] /\ reload[q] \in ReloadType
      BY <2>2 DEF PairInv, Set
    <3>2. ReloadPaired(q)
      BY DEF PairInv
    <3>3. Len(opened) \in Nat /\ Len(opened') \in Nat
      BY DEF PairInv
    <3> SUFFICES ASSUME NEW i \in Syncers
        PROVE /\ reload[q].pc = "open" =>
                   /\ Paired(opened', reload[q].old[i], i, reload[q].current[i])
                   /\ i \notin reload[q].todo =>
                        Paired(opened', reload[q].new[i], i, reload[q].candidate[i])
                   /\ i \in reload[q].todo => reload[q].new[i] = 0
              /\ reload[q].new[i] <= Len(opened') /\ reload[q].old[i] <= Len(opened')
              /\ reload[q].closing <= Len(opened')
      BY <3>1 DEF ReloadPaired
    <3>4. reload[q].old[i] \in Nat /\ reload[q].new[i] \in Nat /\ reload[q].closing \in Nat
      BY <3>1 DEF ReloadType
    <3>5. /\ reload[q].pc = "open" =>
               /\ Paired(opened, reload[q].old[i], i, reload[q].current[i])
               /\ i \notin reload[q].todo =>
                    Paired(opened, reload[q].new[i], i, reload[q].candidate[i])
               /\ i \in reload[q].todo => reload[q].new[i] = 0
          /\ reload[q].new[i] <= Len(opened) /\ reload[q].old[i] <= Len(opened)
          /\ reload[q].closing <= Len(opened)
      BY <3>2 DEF ReloadPaired
    <3>6. \A t, v : t \in Nat /\ Paired(opened, t, i, v) => Paired(opened', t, i, v)
      BY <3>3 DEF Paired
    <3>7. Len(opened) <= Len(opened')
      OBVIOUS
    <3>8. /\ Paired(opened, reload[q].old[i], i, reload[q].current[i]) =>
               Paired(opened', reload[q].old[i], i, reload[q].current[i])
          /\ Paired(opened, reload[q].new[i], i, reload[q].candidate[i]) =>
               Paired(opened', reload[q].new[i], i, reload[q].candidate[i])
      BY <3>4, <3>6, ZenonT(60)
    <3>9. /\ reload[q].new[i] <= Len(opened') /\ reload[q].old[i] <= Len(opened')
          /\ reload[q].closing <= Len(opened')
      BY <3>3, <3>4, <3>5, <3>7
    <3> QED
      BY <3>5, <3>8, <3>9, ZenonT(60)
  <2> QED BY <2>1, <2>2
<1>3. \A s \in Streams : stream'[s].used <= Len(opened')
  BY DEF PairInv, StreamType
<1>4. file' \in Config /\ connected' \in [Syncers -> BOOLEAN] /\ stream' \in [Streams -> StreamType]
      /\ \A s \in Streams : stream'[s].pc # "idle" => stream'[s].used # 0
  BY DEF PairInv, fileVars
<1> QED
  BY <1>1, <1>2, <1>3, <1>4 DEF PairInv

\* A step of a stream keeps the pairing if the stream's new state is well formed.
LEMMA PairStreamStep ==
  ASSUME PairInv, NEW s \in Streams, NEW f \in StreamType, Become(s, f),
         f.used <= Len(opened), f.pc # "idle" => f.used # 0,
         UNCHANGED <<fileVars, cfg, targets, opened, reload>>,
         connected' \in [Syncers -> BOOLEAN], closed' \subseteq 1..Len(opened)
  PROVE  PairInv'
<1>1. stream' \in [Streams -> StreamType]
  BY DEF PairInv, Become
<1>2. \A u \in Streams : /\ stream'[u].used <= Len(opened)
                         /\ stream'[u].pc # "idle" => stream'[u].used # 0
  BY DEF PairInv, Become
<1>3. (\A i \in Syncers : Paired(opened, targets[i], i, cfg[i]))'
  BY DEF PairInv, Paired
<1>4. (\A r \in Reloads : ReloadPaired(r))'
  BY DEF PairInv, ReloadPaired, Paired
<1> QED
  BY <1>1, <1>2, <1>3, <1>4 DEF PairInv, fileVars

\* Every step keeps the pairing, whichever reloads are running.
LEMMA PairNext == PairInv /\ [Next]_vars => PairInv'
<1> SUFFICES ASSUME PairInv, [Next]_vars PROVE PairInv'
  OBVIOUS
<1> USE DEF serviceVars
<1>n. Len(opened) \in Nat /\ opened \in Seq([id : Syncers, settings : Settings])
  BY DEF PairInv
<1>i. IdleReload \in ReloadType /\ IdleStream \in StreamType
  BY SyncersAssumption DEF IdleReload, IdleStream, ReloadType, StreamType, Config
<1>p. \A i \in Syncers : Paired(opened, targets[i], i, cfg[i])
  BY DEF PairInv
<1>r. ASSUME NEW r \in Reloads
      PROVE  /\ reload[r] \in ReloadType /\ ReloadPaired(r)
             /\ reload[r].closing \in Nat /\ reload[r].candidate \in Config
             /\ reload[r].old \in [Syncers -> Nat] /\ reload[r].new \in [Syncers -> Nat]
  BY DEF PairInv, ReloadType
<1>q. ASSUME NEW r \in Reloads, NEW f \in ReloadType, Set(r, f), ReloadPaired(r)',
             UNCHANGED <<fileVars, serviceVars, opened, stream>>, closed' \subseteq 1..Len(opened)
      PROVE  PairInv'
  <2>1. cfg' \in Config /\ targets' \in [Syncers -> Nat] /\ Len(opened) <= MaxTargets
    BY <1>q DEF PairInv
  <2>2. (\A i \in Syncers : Paired(opened, targets[i], i, cfg[i]))'
    BY <1>q, <1>p DEF Paired
  <2>3. /\ opened' \in Seq([id : Syncers, settings : Settings]) /\ Len(opened') <= MaxTargets
        /\ Len(opened) <= Len(opened') /\ closed' \subseteq 1..Len(opened')
        /\ \A t \in 1..Len(opened) : opened'[t] = opened[t]
    BY <1>q, <1>n, <2>1
  <2>4. UNCHANGED <<fileVars, connected, stream>>
    BY <1>q
  <2> QED
    BY <1>q, <2>1, <2>2, <2>3, <2>4, PairReloadStep, ZenonT(60)
<1>c. closed \subseteq 1..Len(opened)
  BY DEF PairInv
<1>1. CASE UNCHANGED vars
  BY <1>1 DEF vars, PairInv, ReloadPaired, Paired
<1>2. ASSUME NEW c \in Config, WriteFile(c) PROVE PairInv'
  BY <1>2 DEF WriteFile, PairInv, ReloadPaired, Paired
<1>3. ASSUME NEW r \in Reloads, Load(r) PROVE PairInv'
  <2> DEFINE f == [reload[r] EXCEPT !.pc = "loaded", !.candidate = file]
  <2>1. f \in ReloadType /\ Set(r, f)
    BY <1>3, <1>r, ZenonT(60) DEF Load, ReloadType, PairInv
  <2>2. reload' [r] = f
    BY <2>1 DEF Set, PairInv
  <2>3. ReloadPaired(r)'
    BY <1>3, <1>r, <2>2 DEF ReloadPaired, Load, ReloadType
  <2> QED
    BY <1>3, <1>c, <1>q, <2>1, <2>3 DEF Load
<1>4. ASSUME NEW r \in Reloads, ReadCurrent(r) PROVE PairInv'
  <2> DEFINE f == [reload[r] EXCEPT !.pc = "open", !.current = cfg, !.old = targets,
                                    !.new = [i \in Syncers |-> 0],
                                    !.todo = {i \in Syncers : reload[r].candidate[i] # 0}]
  <2>1. f \in ReloadType /\ Set(r, f)
    BY <1>4, <1>r, ZenonT(60) DEF ReadCurrent, ReloadType, PairInv
  <2>2. reload'[r] = f
    BY <2>1 DEF Set, PairInv
  <2>3. ReloadPaired(r)'
    <3>1. /\ f.old = targets /\ f.current = cfg /\ f.new = [i \in Syncers |-> 0]
          /\ f.todo = {i \in Syncers : f.candidate[i] # 0} /\ f.closing = reload[r].closing
      BY <1>r DEF ReloadType
    <3>2. \A i \in Syncers : targets[i] <= Len(opened)
      BY <1>n, <1>p DEF Paired, PairInv
    <3>3. reload[r].closing <= Len(opened)
      BY <1>r, SyncersAssumption DEF ReloadPaired
    <3> HIDE DEF f
    <3> QED
      BY <1>4, <1>n, <1>p, <2>2, <3>1, <3>2, <3>3 DEF ReloadPaired, Paired, ReadCurrent
  <2> QED
    BY <1>4, <1>c, <1>q, <2>1, <2>3 DEF ReadCurrent
<1>5. ASSUME NEW r \in Reloads, OpenFails(r) PROVE PairInv'
  <2>1. reload'[r] = IdleReload
    BY <1>5 DEF OpenFails, Set, PairInv
  <2>2. ReloadPaired(r)'
    BY <1>5, <1>n, <2>1 DEF ReloadPaired, IdleReload, OpenFails
  <2>3. Ours(r) \subseteq 1..Len(opened)
    BY <1>n, <1>r DEF Ours, ReloadPaired
  <2> QED
    BY <1>5, <1>c, <1>i, <1>q, <2>2, <2>3, Zenon DEF OpenFails
<1>6. ASSUME NEW r \in Reloads, CloseReplaced(r) PROVE PairInv'
  <2> DEFINE f == [reload[r] EXCEPT !.closing = 0]
  <2>1. f \in ReloadType /\ Set(r, f)
    BY <1>6, <1>r DEF CloseReplaced, ReloadType
  <2>2. reload'[r] = f
    BY <2>1 DEF Set, PairInv
  <2>3. ReloadPaired(r)'
    BY <1>6, <1>n, <1>r, <2>2 DEF ReloadPaired, CloseReplaced, ReloadType, Paired
  <2>4. reload[r].closing \in 1..Len(opened)
    BY <1>6, <1>n, <1>r, SyncersAssumption DEF ReloadPaired, CloseReplaced
  <2> QED
    BY <1>6, <1>c, <1>q, <2>1, <2>3, <2>4 DEF CloseReplaced
<1>7. ASSUME NEW r \in Reloads, Finish(r) PROVE PairInv'
  <2>1. reload'[r] = IdleReload
    BY <1>7 DEF Finish, Set, PairInv
  <2>2. ReloadPaired(r)'
    BY <1>7, <1>n, <2>1 DEF ReloadPaired, IdleReload, Finish
  <2> QED
    BY <1>7, <1>c, <1>i, <1>q, <2>2 DEF Finish
<1>8. ASSUME NEW r \in Reloads, NEW i \in Syncers, CheckActive(r, i) PROVE PairInv'
  <2> DEFINE f == [reload[r] EXCEPT !.todo = @ \ {i},
                     !.closing = IF Replaced(r, i) /\ ~connected[i] THEN reload[r].old[i] ELSE 0]
  <2>1. f \in ReloadType /\ Set(r, f)
    BY <1>8, <1>r, ZenonT(60) DEF CheckActive, Checked, ReloadType
  <2>2. reload'[r] = f
    BY <2>1 DEF Set, PairInv
  <2>3. ReloadPaired(r)'
    <3>1. /\ f.pc = "retire" /\ f.new = reload[r].new /\ f.old = reload[r].old
          /\ f.closing \in {0, reload[r].old[i]}
      BY <1>8, <1>r DEF ReloadType, CheckActive, Checked
    <3> HIDE DEF f
    <3> QED
      BY <1>8, <1>n, <1>r, <2>2, <3>1 DEF ReloadPaired, CheckActive, Checked
  <2> QED
    BY <1>8, <1>c, <1>q, <2>1, <2>3 DEF CheckActive, Checked
<1>9. ASSUME NEW r \in Reloads, Switch(r) PROVE PairInv'
  <2> DEFINE f == [reload[r] EXCEPT !.pc = "retire", !.todo = Syncers]
  <2>1. f \in ReloadType /\ Set(r, f)
    BY <1>9, <1>r, ZenonT(60) DEF Switch, ReloadType
  <2>2. reload'[r] = f
    BY <2>1 DEF Set, PairInv
  <2>3. ReloadPaired(r)'
    <3>1. /\ f.pc = "retire" /\ f.new = reload[r].new /\ f.old = reload[r].old
          /\ f.closing = reload[r].closing
      BY <1>r DEF ReloadType
    <3> HIDE DEF f
    <3> QED
      BY <1>9, <1>r, <2>2, <3>1 DEF ReloadPaired, Switch
  <2>4. (\A i \in Syncers : Paired(opened, targets[i], i, cfg[i]))'
    BY <1>9, <1>r DEF Switch, ReloadPaired, Paired
  <2>5. /\ opened' \in Seq([id : Syncers, settings : Settings]) /\ Len(opened') <= MaxTargets
        /\ Len(opened) <= Len(opened') /\ closed' \subseteq 1..Len(opened')
        /\ \A t \in 1..Len(opened) : opened'[t] = opened[t]
    BY <1>9, <1>n, <1>c DEF Switch, PairInv
  <2>6. cfg' \in Config /\ targets' \in [Syncers -> Nat] /\ UNCHANGED <<fileVars, connected, stream>>
    BY <1>9, <1>r DEF Switch
  <2> QED
    BY <2>1, <2>3, <2>4, <2>5, <2>6, PairReloadStep, Zenon
<1>10. ASSUME NEW r \in Reloads, NEW i \in Syncers, OpenTarget(r, i), Unchanged(r, i)
       PROVE  PairInv'
  <2> DEFINE f == [reload[r] EXCEPT !.todo = @ \ {i}, !.new[i] = reload[r].old[i]]
  <2>1. f \in ReloadType /\ Set(r, f)
    BY <1>10, <1>r, ZenonT(60) DEF OpenTarget, ReloadType
  <2>2. reload'[r] = f
    BY <2>1 DEF Set, PairInv
  <2>3. ReloadPaired(r)'
    <3>1. /\ f.pc = "open" /\ f.candidate = reload[r].candidate /\ f.current = reload[r].current
          /\ f.old = reload[r].old /\ f.new = [reload[r].new EXCEPT ![i] = reload[r].old[i]]
          /\ f.todo = reload[r].todo \ {i} /\ f.closing = reload[r].closing
      BY <1>10, <1>r DEF ReloadType, OpenTarget
    <3> HIDE DEF f
    <3> QED
      BY <1>10, <1>r, <2>2, <3>1 DEF ReloadPaired, OpenTarget, Unchanged, Paired
  <2>4. UNCHANGED <<fileVars, serviceVars, opened, stream>> /\ closed' \subseteq 1..Len(opened)
    BY <1>10, <1>c DEF OpenTarget
  <2> QED
    BY <1>q, <2>1, <2>3, <2>4
<1>11. ASSUME NEW r \in Reloads, NEW i \in Syncers, OpenTarget(r, i), ~Unchanged(r, i)
       PROVE  PairInv'
  <2> DEFINE f == [reload[r] EXCEPT !.todo = @ \ {i}, !.new[i] = Len(opened) + 1]
             t == Target(i, reload[r].candidate[i])
  <2>1. f \in ReloadType /\ Set(r, f)
    <3>1. Len(opened) + 1 \in Nat
      BY <1>n
    <3>2. f \in ReloadType
      BY <1>r, <3>1, ZenonT(60) DEF ReloadType
    <3>3. Set(r, f)
      BY <1>11 DEF OpenTarget
    <3> QED BY <3>2, <3>3
  <2>2. reload'[r] = f
    BY <2>1 DEF Set, PairInv
  <2>3. t \in [id : Syncers, settings : Settings] /\ opened' = Append(opened, t) /\ Len(opened) < MaxTargets
    BY <1>11, <1>r DEF Target, Config, OpenTarget
  <2>4. /\ opened' \in Seq([id : Syncers, settings : Settings])
        /\ Len(opened') = Len(opened) + 1 /\ opened'[Len(opened) + 1] = t
        /\ \A k \in 1..Len(opened) : opened'[k] = opened[k]
    <3> HIDE DEF t
    <3> QED BY <1>n, <2>3
  <2>5. Len(opened') <= MaxTargets /\ Len(opened) <= Len(opened')
        /\ closed' \subseteq 1..Len(opened')
    BY <1>11, <1>c, <1>n, <2>3, <2>4, SyncersAssumption DEF OpenTarget
  <2>6. \A k, j, v : k \in Nat /\ Paired(opened, k, j, v) => Paired(opened', k, j, v)
    BY <1>n, <2>4 DEF Paired
  <2>7. Paired(opened', Len(opened) + 1, i, reload[r].candidate[i])
    BY <1>n, <2>4 DEF Paired
  <2>8. ReloadPaired(r)'
    <3>1. /\ f.pc = "open" /\ f.candidate = reload[r].candidate /\ f.current = reload[r].current
          /\ f.old = reload[r].old /\ f.new = [reload[r].new EXCEPT ![i] = Len(opened) + 1]
          /\ f.todo = reload[r].todo \ {i} /\ f.closing = reload[r].closing
      BY <1>11, <1>r DEF ReloadType, OpenTarget
    <3> HIDE DEF f, t
    <3>2. reload[r].pc = "open" /\ Len(opened) <= Len(opened') /\ Len(opened') = Len(opened) + 1
      BY <1>11, <2>4, <2>5 DEF OpenTarget
    <3> QED
      BY <1>n, <1>r, <2>2, <2>6, <2>7, <3>1, <3>2 DEF ReloadPaired
  <2>9. cfg' \in Config /\ targets' \in [Syncers -> Nat] /\ UNCHANGED <<fileVars, connected, stream>>
        /\ (\A j \in Syncers : Paired(opened, targets[j], j, cfg[j]))'
    <3>1. UNCHANGED <<fileVars, serviceVars, stream>>
      BY <1>11 DEF OpenTarget
    <3> QED BY <1>p, <2>6, <3>1 DEF PairInv
  <2> QED
    BY <2>1, <2>4, <2>5, <2>8, <2>9, PairReloadStep, ZenonT(60)
<1>s. ASSUME NEW s \in Streams
      PROVE  /\ stream[s] \in StreamType /\ stream[s].used <= Len(opened) /\ stream[s].used \in Nat
             /\ stream[s].pc # "idle" => stream[s].used # 0
  BY DEF PairInv, StreamType
<1>12. ASSUME NEW s \in Streams, NEW i \in Syncers, Acquire(s, i) PROVE PairInv'
  <2> DEFINE f == [pc |-> "streaming", id |-> i, used |-> targets[i], openBatch |-> FALSE]
  <2>1. f \in StreamType /\ f.used <= Len(opened) /\ (f.pc # "idle" => f.used # 0)
    BY <1>12, <1>p DEF Acquire, StreamType, PairInv, Paired
  <2>2. Become(s, f) /\ UNCHANGED <<fileVars, cfg, targets, opened, reload>>
        /\ connected' \in [Syncers -> BOOLEAN] /\ closed' \subseteq 1..Len(opened)
    BY <1>12, <1>c DEF Acquire, PairInv
  <2> QED
    BY <2>1, <2>2, PairStreamStep, ZenonT(60)
<1>13. ASSUME NEW s \in Streams, NEW b \in BOOLEAN, Frame(s, b) PROVE PairInv'
  <2> DEFINE f == [stream[s] EXCEPT !.openBatch = b,
                                    !.pc = IF Retiring(s) /\ ~b THEN "release" ELSE @]
  <2>1. f \in StreamType /\ f.used <= Len(opened) /\ (f.pc # "idle" => f.used # 0)
    BY <1>13, <1>s, ZenonT(60) DEF Frame, StreamType
  <2>2. Become(s, f) /\ UNCHANGED <<fileVars, cfg, targets, opened, reload>>
        /\ connected' \in [Syncers -> BOOLEAN] /\ closed' \subseteq 1..Len(opened)
    BY <1>13, <1>c DEF Frame, PairInv
  <2> QED
    BY <2>1, <2>2, PairStreamStep, ZenonT(60)
<1>14. ASSUME NEW s \in Streams, Break(s) PROVE PairInv'
  <2> DEFINE f == [stream[s] EXCEPT !.pc = "release"]
  <2>1. f \in StreamType /\ f.used <= Len(opened) /\ (f.pc # "idle" => f.used # 0)
    BY <1>14, <1>s DEF Break, StreamType
  <2>2. Become(s, f) /\ UNCHANGED <<fileVars, cfg, targets, opened, reload>>
        /\ connected' \in [Syncers -> BOOLEAN] /\ closed' \subseteq 1..Len(opened)
    BY <1>14, <1>c DEF Break, PairInv
  <2> QED
    BY <2>1, <2>2, PairStreamStep, Zenon
<1>15. ASSUME NEW s \in Streams, Release(s) PROVE PairInv'
  <2> DEFINE f == IF Retiring(s) THEN [stream[s] EXCEPT !.pc = "close"] ELSE IdleStream
  <2>1. f \in StreamType /\ f.used <= Len(opened) /\ (f.pc # "idle" => f.used # 0)
    BY <1>15, <1>s, <1>i, <1>n DEF Release, StreamType, IdleStream
  <2>2. Become(s, f) /\ UNCHANGED <<fileVars, cfg, targets, opened, reload>>
        /\ connected' \in [Syncers -> BOOLEAN] /\ closed' \subseteq 1..Len(opened)
    BY <1>15, <1>c, ZenonT(60) DEF Release, PairInv
  <2> QED
    BY <2>1, <2>2, PairStreamStep, Zenon
<1>16. ASSUME NEW s \in Streams, CloseUsed(s) PROVE PairInv'
  <2>1. IdleStream.used <= Len(opened) /\ IdleStream.pc = "idle"
    BY <1>n DEF IdleStream
  <2>2. stream[s].used \in 1..Len(opened)
    BY <1>16, <1>n, <1>s DEF CloseUsed
  <2>3. Become(s, IdleStream) /\ UNCHANGED <<fileVars, cfg, targets, opened, reload>>
        /\ connected' \in [Syncers -> BOOLEAN] /\ closed' \subseteq 1..Len(opened)
    BY <1>16, <1>c, <2>2, Zenon DEF CloseUsed, PairInv
  <2> QED
    BY <1>i, <2>1, <2>3, PairStreamStep, Zenon
<1> QED
  BY <1>1, <1>2, <1>3, <1>4, <1>5, <1>6, <1>7, <1>8, <1>9, <1>10, <1>11, <1>12, <1>13, <1>14,
     <1>15, <1>16 DEF Next, ReloadStep, StreamStep

\* What the pairing invariant says of the Service's fields.
LEMMA PairImplies == PairInv => TypeOK /\ TargetMatchesConfig
<1> SUFFICES ASSUME PairInv PROVE TypeOK /\ TargetMatchesConfig
  OBVIOUS
<1>1. TargetMatchesConfig
  BY DEF PairInv, TargetMatchesConfig, Paired
<1>2. \A i \in Syncers : targets[i] \in 0..MaxTargets
  BY SyncersAssumption DEF PairInv, Paired
<1> QED
  BY <1>1, <1>2 DEF PairInv, TypeOK

\* However many reloads overlap, and whatever fails in them, every listed
\* syncer has a target opened for it with the settings that are active: reload
\* assigns the configuration and the targets together under the mutex.
THEOREM PairingHolds == Spec => [](TypeOK /\ TargetMatchesConfig)
<1>1. Spec => []PairInv
  BY PairInit, PairNext, PTL DEF Spec
<1> QED
  BY <1>1, PairImplies, PTL

-----------------------------------------------------------------------------
(* Targets in use, when reloads do not overlap.                            *)

\* Init: every target is in the map and no stream is connected.
LEMMA UseInit == Init => UseInv
  BY DEF Init, UseInv, StreamUse, InUseOpen, ReloadUse, Connected, IdleStream, IdleReload

\* A target in the map belongs to its syncer.
LEMMA MapOwns ==
  ASSUME PairInv, NEW i \in Syncers, targets[i] # 0
  PROVE  /\ targets[i] \in 1..Len(opened) /\ opened[targets[i]].id = i
<1>1. Paired(opened, targets[i], i, cfg[i]) /\ targets[i] \in Nat /\ Len(opened) \in Nat
  BY DEF PairInv
<1> QED
  BY <1>1 DEF Paired, Target

\* A step of a reload that leaves the streams and the opened targets alone.
LEMMA UseReloadStep ==
  ASSUME \A a, b \in Reloads : a = b,
         UseInv, NEW r \in Reloads, ReloadUse(r)', InUseOpen',
         UNCHANGED <<connected, stream>>,
         \A s \in Streams : stream[s].used # 0 =>
                              opened'[stream[s].used] = opened[stream[s].used],
         \A s \in Streams : stream[s].pc = "close" =>
                              \A i \in Syncers : targets'[i] # stream[s].used
  PROVE  UseInv'
<1>1. \A q \in Reloads : ReloadUse(q)'
  <2> SUFFICES ASSUME NEW q \in Reloads PROVE ReloadUse(q)'
    OBVIOUS
  <2>1. q = r
    OBVIOUS
  <2> QED BY <2>1
<1>2. StreamUse'
  BY DEF UseInv, StreamUse, Connected, Unused
<1> QED
  BY <1>1, <1>2 DEF UseInv

\* Every step keeps the targets in use open.
LEMMA UseNext ==
  ASSUME \A a, b \in Reloads : a = b
  PROVE  PairInv /\ UseInv /\ [Next]_vars => UseInv'
<1> SUFFICES ASSUME PairInv, UseInv, [Next]_vars PROVE UseInv'
  OBVIOUS
<1> USE DEF serviceVars
<1>n. Len(opened) \in Nat /\ opened \in Seq([id : Syncers, settings : Settings])
      /\ closed \subseteq 1..Len(opened)
  BY DEF PairInv
<1>r. ASSUME NEW r \in Reloads
      PROVE  reload[r] \in ReloadType /\ ReloadPaired(r) /\ ReloadUse(r)
  BY DEF PairInv, UseInv
<1>1. CASE UNCHANGED vars
  BY <1>1 DEF vars, UseInv, StreamUse, InUseOpen, ReloadUse, Connected, Unused, Private
<1>2. ASSUME NEW c \in Config, WriteFile(c) PROVE UseInv'
  BY <1>2 DEF WriteFile, UseInv, StreamUse, InUseOpen, ReloadUse, Connected, Unused, Private
<1>q. ASSUME NEW r \in Reloads, ReloadUse(r)', UNCHANGED <<serviceVars, opened, stream>>,
             InUseOpen'
      PROVE  UseInv'
  BY <1>q, UseReloadStep DEF UseInv, StreamUse, Unused
<1>o. ASSUME UNCHANGED <<serviceVars, opened, closed, stream>> PROVE InUseOpen'
  BY <1>o DEF UseInv, InUseOpen, Connected
<1>3. ASSUME NEW r \in Reloads, Load(r) PROVE UseInv'
  <2>1. reload'[r] = [reload[r] EXCEPT !.pc = "loaded", !.candidate = file]
    BY <1>3 DEF Load, Set, PairInv
  <2>2. ReloadUse(r)'
    BY <1>3, <1>r, <2>1 DEF ReloadUse, Load, ReloadType
  <2> QED
    BY <1>3, <1>o, <1>q, <2>2 DEF Load
<1>4. ASSUME NEW r \in Reloads, ReadCurrent(r) PROVE UseInv'
  <2>1. reload'[r] = [reload[r] EXCEPT !.pc = "open", !.current = cfg, !.old = targets,
                                       !.new = [i \in Syncers |-> 0],
                                       !.todo = {i \in Syncers : reload[r].candidate[i] # 0}]
    BY <1>4 DEF ReadCurrent, Set, PairInv
  <2>2. ReloadUse(r)'
    BY <1>4, <1>r, <2>1 DEF ReloadUse, ReadCurrent, ReloadType
  <2> QED
    BY <1>4, <1>o, <1>q, <2>2 DEF ReadCurrent
<1>5. ASSUME NEW r \in Reloads, OpenFails(r) PROVE UseInv'
  <2>1. reload'[r] = IdleReload
    BY <1>5 DEF OpenFails, Set, PairInv
  <2>2. ReloadUse(r)'
    BY <1>5, <2>1 DEF ReloadUse, IdleReload
  <2>3. \A t \in Ours(r) : Private(t)
    BY <1>5, <1>r DEF Ours, ReloadUse, OpenFails
  <2>4. InUseOpen'
    BY <1>5, <2>3 DEF Private, InUseOpen, UseInv, OpenFails, Connected
  <2> QED
    BY <1>5, <1>q, <2>2, <2>4 DEF OpenFails
<1>6. ASSUME NEW r \in Reloads, CloseReplaced(r) PROVE UseInv'
  <2>1. reload'[r] = [reload[r] EXCEPT !.closing = 0]
    BY <1>6 DEF CloseReplaced, Set, PairInv
  <2>2. reload[r].pc = "retire" /\ Unused(reload[r].closing)
    BY <1>6, <1>r DEF CloseReplaced, ReloadUse
  <2>3. ReloadUse(r)'
    BY <1>6, <1>r, <2>1, <2>2 DEF ReloadUse, CloseReplaced, ReloadType
  <2>4. InUseOpen'
    BY <1>6, <2>2 DEF Unused, InUseOpen, UseInv, CloseReplaced, Connected
  <2> QED
    BY <1>6, <1>q, <2>3, <2>4 DEF CloseReplaced
<1>7. ASSUME NEW r \in Reloads, Finish(r) PROVE UseInv'
  <2>1. reload'[r] = IdleReload
    BY <1>7 DEF Finish, Set, PairInv
  <2>2. ReloadUse(r)'
    BY <1>7, <2>1 DEF ReloadUse, IdleReload
  <2> QED
    BY <1>7, <1>o, <1>q, <2>2 DEF Finish
<1>8. ASSUME NEW r \in Reloads, NEW i \in Syncers, CheckActive(r, i) PROVE UseInv'
  <2> DEFINE t == IF Replaced(r, i) /\ ~connected[i] THEN reload[r].old[i] ELSE 0
  <2>1. reload'[r] = [reload[r] EXCEPT !.todo = @ \ {i}, !.closing = t]
    BY <1>8 DEF CheckActive, Checked, Set, PairInv
  <2>2. reload[r].pc = "retire" /\ reload[r].new = targets
        /\ \A j \in Syncers : reload[r].old[j] # 0 => opened[reload[r].old[j]].id = j
    BY <1>8, <1>r DEF CheckActive, Checked, ReloadUse
  <2>3. ASSUME t # 0 PROVE Unused(t)
    <3>1. t = reload[r].old[i] /\ targets[i] # t /\ ~connected[i] /\ opened[t].id = i
      BY <2>2, <2>3 DEF Replaced
    <3>2. \A j \in Syncers : targets[j] # t
      BY <2>3, <3>1, MapOwns
    <3>3. ASSUME NEW s \in Streams, Connected(s), stream[s].used = t PROVE FALSE
      BY <2>3, <3>1, <3>3 DEF UseInv, StreamUse
    <3> QED BY <3>2, <3>3 DEF Unused
  <2>4. ReloadUse(r)'
    <3>1. /\ reload'[r].pc = "retire" /\ reload'[r].new = targets /\ reload'[r].closing = t
          /\ reload'[r].old = reload[r].old
      BY <1>r, <2>1, <2>2 DEF ReloadType
    <3>2. UNCHANGED <<serviceVars, opened, stream>>
      BY <1>8 DEF CheckActive, Checked
    <3> HIDE DEF t
    <3> QED BY <2>2, <2>3, <3>1, <3>2 DEF ReloadUse, Unused, Connected
  <2> QED
    BY <1>8, <1>o, <1>q, <2>4 DEF CheckActive, Checked
<1>9. ASSUME NEW r \in Reloads, Switch(r) PROVE UseInv'
  <2>1. reload'[r] = [reload[r] EXCEPT !.pc = "retire", !.todo = Syncers]
    BY <1>9 DEF Switch, Set, PairInv
  <2>2. /\ reload[r].pc = "open" /\ targets' = reload[r].new /\ reload[r].closing = 0
        /\ UNCHANGED <<connected, opened, closed, stream>>
        /\ \A i \in Syncers : \/ reload[r].new[i] = 0
                              \/ reload[r].new[i] = targets[i]
                              \/ Private(reload[r].new[i])
    BY <1>9, <1>r DEF Switch, ReloadUse
  <2>3. \A i \in Syncers : reload[r].old[i] # 0 => opened[reload[r].old[i]].id = i
    <3> SUFFICES ASSUME NEW i \in Syncers, reload[r].old[i] # 0
                 PROVE  opened[reload[r].old[i]].id = i
      OBVIOUS
    <3>1. Paired(opened, reload[r].old[i], i, reload[r].current[i])
      BY <1>r, <2>2 DEF ReloadPaired
    <3> QED BY <3>1 DEF Paired, Target
  <2>4. ReloadUse(r)'
    <3>1. /\ reload'[r].pc = "retire" /\ reload'[r].new = reload[r].new
          /\ reload'[r].closing = 0 /\ reload'[r].old = reload[r].old
      BY <1>r, <2>1, <2>2 DEF ReloadType
    <3> QED BY <2>2, <2>3, <3>1 DEF ReloadUse
  <2>5. InUseOpen'
    BY <2>2 DEF UseInv, InUseOpen, Private, Connected
  <2>6. ASSUME NEW s \in Streams, stream[s].pc = "close", NEW i \in Syncers
        PROVE  targets'[i] # stream[s].used
    <3>1. stream[s].used # 0 /\ targets[i] # stream[s].used
      BY <2>6 DEF PairInv, UseInv, StreamUse, Unused
    <3> QED BY <2>2, <3>1 DEF Private
  <2>7. \A s \in Streams : stream[s].used # 0 => opened'[stream[s].used] = opened[stream[s].used]
    BY <2>2
  <2>8. \A s \in Streams : stream[s].pc = "close" =>
          \A i \in Syncers : targets'[i] # stream[s].used
    BY <2>6
  <2>9. UNCHANGED <<connected, stream>>
    BY <2>2
  <2> QED
    BY <2>4, <2>5, <2>7, <2>8, <2>9, UseReloadStep, ZenonT(60)
<1>10. ASSUME NEW r \in Reloads, NEW i \in Syncers, OpenTarget(r, i), Unchanged(r, i)
       PROVE  UseInv'
  <2>1. /\ reload'[r] = [reload[r] EXCEPT !.todo = @ \ {i}, !.new[i] = reload[r].old[i]]
        /\ reload[r].pc = "open" /\ UNCHANGED <<serviceVars, opened, closed, stream>>
    BY <1>10 DEF OpenTarget, Set, PairInv
  <2>2. /\ reload'[r].pc = "open" /\ reload'[r].old = reload[r].old
        /\ reload'[r].current = reload[r].current /\ reload'[r].closing = reload[r].closing
        /\ \A j \in Syncers : reload'[r].new[j] \in {reload[r].new[j], reload[r].old[j]}
    BY <1>r, <2>1 DEF ReloadType
  <2>3. ReloadUse(r)'
    BY <1>r, <2>1, <2>2 DEF ReloadUse, Private
  <2> QED
    BY <1>o, <1>q, <2>1, <2>3
<1>11. ASSUME NEW r \in Reloads, NEW i \in Syncers, OpenTarget(r, i), ~Unchanged(r, i)
       PROVE  UseInv'
  <2> DEFINE t == Len(opened) + 1
  <2>1. /\ reload'[r] = [reload[r] EXCEPT !.todo = @ \ {i}, !.new[i] = t]
        /\ reload[r].pc = "open" /\ UNCHANGED <<serviceVars, closed, stream>>
        /\ opened' = Append(opened, Target(i, reload[r].candidate[i]))
    BY <1>11 DEF OpenTarget, Set, PairInv
  <2>2. /\ reload'[r].pc = "open" /\ reload'[r].old = reload[r].old
        /\ reload'[r].current = reload[r].current /\ reload'[r].closing = reload[r].closing
        /\ \A j \in Syncers : reload'[r].new[j] \in {reload[r].new[j], t}
    BY <1>r, <2>1 DEF ReloadType
  <2>3. Private(t)
    <3>1. t \in Nat /\ t # 0 /\ t \notin 1..Len(opened) /\ ~(t <= Len(opened))
      BY <1>n
    <3>2. \A j \in Syncers : targets[j] # t
      BY <3>1, MapOwns
    <3> HIDE DEF t
    <3> QED BY <1>n, <3>1, <3>2 DEF Private, PairInv
  <2>4. ReloadUse(r)'
    <3> HIDE DEF t
    <3> QED BY <1>r, <2>1, <2>2, <2>3 DEF ReloadUse, Private
  <2>5. InUseOpen'
    BY <2>1 DEF UseInv, InUseOpen, Connected
  <2>6. \A s \in Streams : stream[s].used # 0 => opened'[stream[s].used] = opened[stream[s].used]
    <3> SUFFICES ASSUME NEW s \in Streams, stream[s].used # 0
                 PROVE  opened'[stream[s].used] = opened[stream[s].used]
      OBVIOUS
    <3>1. stream[s].used \in 1..Len(opened)
      BY <1>n DEF PairInv, StreamType
    <3> QED BY <1>n, <2>1, <3>1
  <2>7. UNCHANGED <<connected, stream>> /\ \A s \in Streams : stream[s].pc = "close" =>
                              \A j \in Syncers : targets'[j] # stream[s].used
    BY <2>1 DEF UseInv, StreamUse, Unused
  <2> QED
    BY <2>4, <2>5, <2>6, <2>7, UseReloadStep
<1>k. ASSUME NEW s \in Streams, UNCHANGED <<serviceVars, opened, closed, reload>>,
             \A u \in Streams : /\ stream'[u].id = stream[u].id /\ stream'[u].used = stream[u].used
                                /\ Connected(u)' <=> Connected(u)
                                /\ stream'[u].pc = "close" <=> stream[u].pc = "close"
      PROVE  UseInv'
  <2>1. \A t : (Unused(t)' <=> Unused(t)) /\ (Private(t)' <=> Private(t))
    BY <1>k DEF Unused, Private
  <2>2. StreamUse'
    BY <1>k, <2>1 DEF UseInv, StreamUse, Unused
  <2>3. InUseOpen'
    BY <1>k DEF UseInv, InUseOpen
  <2>4. \A r \in Reloads : ReloadUse(r)'
    BY <1>k, <2>1 DEF UseInv, ReloadUse, Unused, Private
  <2> QED BY <2>2, <2>3, <2>4 DEF UseInv
<1>12. ASSUME NEW s \in Streams, NEW b \in BOOLEAN, Frame(s, b) PROVE UseInv'
  <2>1. stream' = [stream EXCEPT ![s] = [stream[s] EXCEPT !.openBatch = b,
                     !.pc = IF Retiring(s) /\ ~b THEN "release" ELSE @]]
        /\ stream[s].pc = "streaming"
    BY <1>12 DEF Frame, Become
  <2>2. \A u \in Streams : /\ stream'[u].id = stream[u].id /\ stream'[u].used = stream[u].used
                           /\ Connected(u)' <=> Connected(u)
                           /\ stream'[u].pc = "close" <=> stream[u].pc = "close"
    BY <2>1 DEF PairInv, StreamType, Connected
  <2> QED BY <1>12, <1>k, <2>2 DEF Frame
<1>13. ASSUME NEW s \in Streams, Break(s) PROVE UseInv'
  <2>1. stream' = [stream EXCEPT ![s] = [stream[s] EXCEPT !.pc = "release"]]
        /\ stream[s].pc = "streaming"
    BY <1>13 DEF Break, Become
  <2>2. \A u \in Streams : /\ stream'[u].id = stream[u].id /\ stream'[u].used = stream[u].used
                           /\ Connected(u)' <=> Connected(u)
                           /\ stream'[u].pc = "close" <=> stream[u].pc = "close"
    BY <2>1 DEF PairInv, StreamType, Connected
  <2> QED BY <1>13, <1>k, <2>2 DEF Break
<1>14. ASSUME NEW s \in Streams, NEW i \in Syncers, Acquire(s, i) PROVE UseInv'
  <2>1. /\ targets[i] # 0 /\ ~connected[i] /\ connected' = [connected EXCEPT ![i] = TRUE]
        /\ stream[s].pc = "idle" /\ UNCHANGED <<targets, cfg, opened, closed, reload>>
        /\ stream' = [stream EXCEPT ![s] = [pc |-> "streaming", id |-> i, used |-> targets[i],
                                            openBatch |-> FALSE]]
    BY <1>14 DEF Acquire, Become
  <2>2. /\ stream'[s].id = i /\ stream'[s].used = targets[i] /\ Connected(s)'
        /\ stream'[s].pc = "streaming" /\ ~Connected(s)
        /\ \A u \in Streams \ {s} : stream'[u] = stream[u] /\ (Connected(u)' <=> Connected(u))
    BY <2>1 DEF PairInv, Connected
  <2>3. \A t : /\ Unused(t) => Unused(t)'
               /\ Private(t) => Private(t)'
    BY <2>1, <2>2 DEF Unused, Private
  <2>4. opened[targets[i]].id = i
    BY <2>1, MapOwns
  <2>5. \A u \in Streams : connected[stream[u].id] => connected'[stream[u].id]
    BY <2>1 DEF PairInv, StreamType
  <2>6. \A u \in Streams : Connected(u) => stream[u].id # i
    BY <2>1 DEF UseInv, StreamUse
  <2>7. connected'[i]
    BY <2>1 DEF PairInv
  <2>8. StreamUse'
    <3>1. (\A u \in Streams : stream[u].used # 0 => opened[stream[u].used].id = stream[u].id)'
      BY <2>1, <2>2, <2>4 DEF UseInv, StreamUse
    <3>2. (\A u \in Streams : Connected(u) => connected[stream[u].id])'
      BY <2>1, <2>2, <2>5, <2>7 DEF UseInv, StreamUse
    <3>3. (\A v, u \in Streams : Connected(v) /\ Connected(u) /\ stream[v].id = stream[u].id => v = u)'
      BY <2>2, <2>6 DEF UseInv, StreamUse
    <3>4. (\A u \in Streams : stream[u].pc = "close" => Unused(stream[u].used))'
      <4> SUFFICES ASSUME NEW u \in Streams, stream'[u].pc = "close"
                   PROVE  Unused(stream[u].used)'
        OBVIOUS
      <4>1. u # s /\ stream'[u] = stream[u]
        BY <2>2
      <4>2. Unused(stream[u].used)
        BY <4>1 DEF UseInv, StreamUse
      <4> QED BY <2>3, <4>1, <4>2 DEF Unused
    <3> QED BY <3>1, <3>2, <3>3, <3>4 DEF StreamUse
  <2>9. InUseOpen'
    BY <2>1, <2>2 DEF UseInv, InUseOpen
  <2>10. \A r \in Reloads : ReloadUse(r)'
    <3> SUFFICES ASSUME NEW r \in Reloads PROVE ReloadUse(r)'
      OBVIOUS
    <3>1. ReloadUse(r) /\ UNCHANGED <<targets, cfg, opened, reload>>
      BY <2>1 DEF UseInv
    <3>2. \A j \in Syncers : Private(reload[r].new[j]) => Private(reload[r].new[j])'
      BY <2>3, <3>1 DEF Private
    <3>3. Unused(reload[r].closing) => Unused(reload[r].closing)'
      BY <2>3, <3>1 DEF Unused
    <3> QED BY <3>1, <3>2, <3>3 DEF ReloadUse
  <2> QED BY <2>8, <2>9, <2>10 DEF UseInv
<1>15. ASSUME NEW s \in Streams, Release(s) PROVE UseInv'
  <2>1. /\ stream[s].pc = "release" /\ UNCHANGED <<targets, cfg, opened, closed, reload>>
        /\ connected' = [connected EXCEPT ![stream[s].id] = FALSE]
        /\ stream' = [stream EXCEPT ![s] = IF Retiring(s) THEN [stream[s] EXCEPT !.pc = "close"]
                                           ELSE IdleStream]
    BY <1>15 DEF Release, Become
  <2>2. /\ \A u \in Streams \ {s} : stream'[u] = stream[u] /\ (Connected(u)' <=> Connected(u))
        /\ Connected(s) /\ ~Connected(s)'
        /\ \/ /\ Retiring(s) /\ stream'[s].pc = "close"
              /\ stream'[s].used = stream[s].used /\ stream'[s].id = stream[s].id
           \/ stream'[s].pc = "idle" /\ stream'[s].used = 0
    BY <2>1 DEF PairInv, StreamType, Connected, IdleStream
  <2>3. \A t : /\ Unused(t) => Unused(t)'
               /\ Private(t) /\ t # 0 => Private(t)'
    BY <2>1, <2>2 DEF Unused, Private
  <2>4. ASSUME Retiring(s) PROVE Unused(stream[s].used)'
    <3>1. stream[s].used # 0 /\ opened[stream[s].used].id = stream[s].id
      BY <2>1 DEF PairInv, UseInv, StreamUse
    <3>2. \A i \in Syncers : targets[i] # stream[s].used
      BY <2>4, <3>1, MapOwns DEF Retiring
    <3>3. \A u \in Streams \ {s} : Connected(u) => stream[u].used # stream[s].used
      BY <2>2, <3>1 DEF UseInv, StreamUse
    <3>4. stream'[s].used = stream[s].used
      BY <2>1, <2>4 DEF PairInv, StreamType
    <3> QED BY <2>1, <2>2, <3>2, <3>3, <3>4 DEF Unused
  <2>5. \A u \in Streams : stream[u].id # stream[s].id => connected'[stream[u].id] = connected[stream[u].id]
    BY <2>1 DEF PairInv, StreamType
  <2>6. \A u \in Streams \ {s} : Connected(u) => stream[u].id # stream[s].id
    BY <2>2 DEF UseInv, StreamUse
  <2>7. StreamUse'
    <3>1. (\A u \in Streams : stream[u].used # 0 => opened[stream[u].used].id = stream[u].id)'
      BY <2>1, <2>2 DEF UseInv, StreamUse
    <3>2. (\A u \in Streams : Connected(u) => connected[stream[u].id])'
      BY <2>2, <2>5, <2>6 DEF UseInv, StreamUse
    <3>3. (\A v, u \in Streams : Connected(v) /\ Connected(u) /\ stream[v].id = stream[u].id => v = u)'
      BY <2>2 DEF UseInv, StreamUse
    <3>4. (\A u \in Streams : stream[u].pc = "close" => Unused(stream[u].used))'
      <4> SUFFICES ASSUME NEW u \in Streams, stream'[u].pc = "close"
                   PROVE  Unused(stream[u].used)'
        OBVIOUS
      <4>1. CASE u = s
        BY <2>2, <2>4, <4>1
      <4>2. CASE u # s
        <5>1. stream'[u] = stream[u] /\ Unused(stream[u].used)
          BY <2>2, <4>2 DEF UseInv, StreamUse
        <5> QED BY <2>3, <5>1 DEF Unused
      <4> QED BY <4>1, <4>2
    <3> QED BY <3>1, <3>2, <3>3, <3>4 DEF StreamUse
  <2>8. InUseOpen'
    BY <2>1, <2>2 DEF UseInv, InUseOpen
  <2>9. \A r \in Reloads : ReloadUse(r)'
    <3> SUFFICES ASSUME NEW r \in Reloads PROVE ReloadUse(r)'
      OBVIOUS
    <3>1. ReloadUse(r) /\ UNCHANGED <<targets, cfg, opened, reload>>
      BY <2>1 DEF UseInv
    <3>2. \A j \in Syncers : Private(reload[r].new[j]) /\ reload[r].new[j] # 0
                               => Private(reload[r].new[j])'
      BY <2>3, <3>1 DEF Private
    <3>3. Unused(reload[r].closing) => Unused(reload[r].closing)'
      BY <2>3, <3>1 DEF Unused
    <3> QED BY <3>1, <3>2, <3>3 DEF ReloadUse
  <2> QED BY <2>7, <2>8, <2>9 DEF UseInv
<1>16. ASSUME NEW s \in Streams, CloseUsed(s) PROVE UseInv'
  <2>1. /\ stream[s].pc = "close" /\ UNCHANGED <<connected, targets, cfg, opened, reload>>
        /\ closed' = closed \cup {stream[s].used}
        /\ stream' = [stream EXCEPT ![s] = IdleStream]
    BY <1>16 DEF CloseUsed, Become
  <2>2. /\ \A u \in Streams \ {s} : stream'[u] = stream[u]
        /\ \A u \in Streams : Connected(u)' <=> Connected(u)
        /\ ~Connected(s) /\ stream'[s].pc = "idle" /\ stream'[s].used = 0
    BY <2>1 DEF PairInv, Connected, IdleStream
  <2>3. Unused(stream[s].used)
    BY <2>1 DEF UseInv, StreamUse
  <2>4. \A t : /\ Unused(t) => Unused(t)'
               /\ Private(t) /\ t # 0 => Private(t)'
    BY <2>1, <2>2 DEF Unused, Private
  <2>5. StreamUse'
    <3>1. (\A u \in Streams : stream[u].used # 0 => opened[stream[u].used].id = stream[u].id)'
      <4> SUFFICES ASSUME NEW u \in Streams, stream'[u].used # 0
                   PROVE  opened'[stream'[u].used].id = stream'[u].id
        OBVIOUS
      <4>1. stream'[u] = stream[u] /\ opened' = opened
        BY <2>1, <2>2
      <4>2. stream[u].used # 0 => opened[stream[u].used].id = stream[u].id
        BY DEF UseInv, StreamUse
      <4> QED BY <4>1, <4>2
    <3>2. (\A u \in Streams : Connected(u) => connected[stream[u].id])'
      BY <2>1, <2>2 DEF UseInv, StreamUse
    <3>3. (\A v, u \in Streams : Connected(v) /\ Connected(u) /\ stream[v].id = stream[u].id => v = u)'
      BY <2>2 DEF UseInv, StreamUse
    <3>4. (\A u \in Streams : stream[u].pc = "close" => Unused(stream[u].used))'
      <4> SUFFICES ASSUME NEW u \in Streams, stream'[u].pc = "close"
                   PROVE  Unused(stream[u].used)'
        OBVIOUS
      <4>1. u # s /\ stream'[u] = stream[u]
        BY <2>2
      <4>2. Unused(stream[u].used)
        BY <4>1 DEF UseInv, StreamUse
      <4> QED BY <2>4, <4>1, <4>2 DEF Unused
    <3> QED BY <3>1, <3>2, <3>3, <3>4 DEF StreamUse
  <2>6. InUseOpen'
    BY <2>1, <2>2, <2>3 DEF UseInv, InUseOpen, Unused
  <2>7. \A r \in Reloads : ReloadUse(r)'
    <3> SUFFICES ASSUME NEW r \in Reloads PROVE ReloadUse(r)'
      OBVIOUS
    <3>1. ReloadUse(r) /\ UNCHANGED <<targets, cfg, opened, reload>>
      BY <2>1 DEF UseInv
    <3>2. \A j \in Syncers : Private(reload[r].new[j]) /\ reload[r].new[j] # 0
                               => Private(reload[r].new[j])'
      BY <2>4, <3>1 DEF Private
    <3>3. Unused(reload[r].closing) => Unused(reload[r].closing)'
      BY <2>4, <3>1 DEF Unused
    <3> QED BY <3>1, <3>2, <3>3 DEF ReloadUse
  <2> QED BY <2>5, <2>6, <2>7 DEF UseInv
<1> QED
  BY <1>1, <1>2, <1>3, <1>4, <1>5, <1>6, <1>7, <1>8, <1>9, <1>10, <1>11, <1>12, <1>13, <1>14,
     <1>15, <1>16 DEF Next, ReloadStep, StreamStep

\* When reloads do not overlap, neither a target in the map nor the target of a
\* connected stream is ever closed, for any number of syncers and streams.
\* ActiveTargetOpen needs the assumption: it fails with two reloads (README.md).
THEOREM InUseStaysOpen ==
  ASSUME \A a, b \in Reloads : a = b
  PROVE  Spec => []OpenWhileUsed
<1>1. Spec => []PairInv
  BY PairInit, PairNext, PTL DEF Spec
<1>2. Spec => []UseInv
  BY <1>1, UseInit, UseNext, PTL DEF Spec
<1>3. UseInv => OpenWhileUsed
  BY DEF UseInv, InUseOpen, OpenWhileUsed, StreamTargetOpen, ActiveTargetOpen, Connected
<1> QED
  BY <1>2, <1>3, PTL
=============================================================================
