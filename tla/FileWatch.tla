----------------------------- MODULE FileWatch ------------------------------
(***************************************************************************)
(* Filesystem capture, internal/filewatch/collector.go: a scan takes the   *)
(* state of every file under the root, the differences from the last       *)
(* completed scan are published file by file, and the manifest of known    *)
(* states is saved once all of them are.                                   *)
(*                                                                         *)
(* A file is its data, two chunks long, and its modification time; every   *)
(* write moves the time on.  A file's hash is its data.                    *)
(***************************************************************************)
EXTENDS Integers, FiniteSets, FiniteSetsExt

CONSTANTS None,
          Files,        \* paths, numbered in sort order
          Values,       \* contents of one chunk
          Allowed,      \* file_watch.events
          MaxBytes,     \* queue_bytes; every message counts one
          MaxWrites,    \* bound on changes in the watched root
          MaxCrashes,   \* bound on crashes
          MaxSeq,       \* bound on sequence numbers, never reached
          MaxAcks       \* bound on acknowledgements by the delivery

VARIABLES st, items, minted,   \* Queue
          fs,           \* path -> the file there, or None
          clock,        \* changes so far
          manifest,     \* the saved manifest
          known, current,       \* last completed scan, scan in progress
          pc, todo,     \* the step, and the paths it still has to visit
          unlinked,     \* the open file once its path is removed, else None
          chunk, read,  \* chunks of it appended, and what was in them
          crashes, error

queueVars == <<st, items, minted>>
scanVars == <<manifest, known, current>>
fileVars == <<unlinked, chunk, read>>
vars == <<queueVars, fs, clock, scanVars, pc, todo, fileVars, crashes, error>>

Chunks == 1..2
Data == [Chunks -> Values]
File == [data : Data, time : 1..MaxWrites]
FileStates == [Files -> File \cup {None}]

Body == [kind : {"snapshot_begin", "snapshot_end", "file_begin", "file_chunk", "file_end",
                 "file_delete"},
         file : Files \cup {None}, sha : Data \cup {None}, part : Values \cup {None}]

Q == INSTANCE Queue WITH Bodies <- Body, SizeOf <- [b \in Body |-> 1],
       LSNs <- {"now"}, Hashes <- {"none"}, Tokens <- {}, LsnBytes <- 0,
       ReplayBytes <- MaxSeq, MaxGen <- MaxCrashes + 1

Msg(kind, f, sha, part) ==
  [body |-> [kind |-> kind, file |-> f, sha |-> sha, part |-> part],
   version |-> None, lsn |-> None]

NoFiles == [f \in Files |-> None]

-----------------------------------------------------------------------------
(* The watched directory.                                                  *)

Changed(f, file) ==
  /\ clock < MaxWrites /\ clock' = clock + 1
  /\ fs' = [fs EXCEPT ![f] = file]
  /\ UNCHANGED <<queueVars, scanVars, pc, todo, chunk, read, crashes, error>>

\* Written in place: an open handle sees it.
Write(f) == \E c \in Chunks, v \in Values :
              /\ fs[f] # None
              /\ Changed(f, [data |-> [fs[f].data EXCEPT ![c] = v], time |-> clock + 1])
              /\ UNCHANGED unlinked

Create(f) == \E v \in Values :
               /\ fs[f] = None
               /\ Changed(f, [data |-> [c \in Chunks |-> v], time |-> clock + 1])
               /\ UNCHANGED unlinked

\* A removed file stays readable through its open handle.
Remove(f) == /\ fs[f] # None
             /\ Changed(f, None)
             /\ unlinked' = IF pc = "chunk" /\ unlinked = None /\ f = Min(todo)
                            THEN fs[f] ELSE unlinked

Environment == \E f \in Files : Write(f) \/ Create(f) \/ Remove(f)

Deliver == /\ st.DeliveredSeq < st.ReadySeq /\ st.DeliveredSeq < MaxAcks
           /\ Q!Ack(st.DeliveredSeq + 1, Q!MessageID(st.DeliveredSeq + 1), {})
           /\ UNCHANGED <<fs, clock, scanVars, pc, todo, fileVars, crashes, error>>

-----------------------------------------------------------------------------
(* Run and scan.                                                           *)

Still == UNCHANGED <<fs, clock, scanVars, fileVars, crashes>>

Go(next) == pc' = next /\ Still /\ UNCHANGED <<todo, error>>

\* Run returns an error; staged messages were discarded or will be on restart.
Fatal(why) == pc' = "dead" /\ error' = why /\ Still /\ UNCHANGED todo

\* Append, with no waiting for room: ErrFull ends the collector.
Put(m, next) == IF Q!Full(m) THEN Fatal("capacity") /\ Q!Recover
                ELSE Q!AppendMessage(m) /\ Go(next)

Start == /\ pc = "down"
         /\ Q!Recover
         /\ Go(IF st.Phase = "stream" THEN "load" ELSE "initialize")

Initialize == pc = "initialize" /\ Q!Initialize("none") /\ Go("begin")

SnapshotBegin == pc = "begin" /\ Put(Msg("snapshot_begin", None, None, None), "end")

SnapshotEnd == pc = "end" /\ Put(Msg("snapshot_end", None, None, None), "seal")

Seal == pc = "seal" /\ Q!Publish("now", TRUE) /\ Go("load")

LoadManifest == /\ pc = "load"
                /\ known' = manifest /\ pc' = "idle"
                /\ UNCHANGED <<queueVars, fs, clock, manifest, current, todo, fileVars, crashes, error>>

\* The start, a tick or a notification: the directory is listed.
ScanStart == /\ pc = "idle"
             /\ todo' = {f \in Files : fs[f] # None}
             /\ current' = NoFiles /\ pc' = "scan"
             /\ UNCHANGED <<queueVars, fs, clock, manifest, known, fileVars, crashes, error>>

\* One listed file is hashed; it is an error when it has gone.
ScanFile ==
  /\ pc = "scan" /\ todo # {}
  /\ LET f == Min(todo)
     IN  IF fs[f] = None THEN Fatal("gone") /\ UNCHANGED queueVars
         ELSE /\ current' = [current EXCEPT ![f] = fs[f]]
              /\ todo' = todo \ {f}
              /\ UNCHANGED <<queueVars, fs, clock, manifest, known, pc, fileVars, crashes, error>>

ScanDone == /\ pc = "scan" /\ todo = {}
            /\ todo' = {f \in Files : known[f] # None \/ current[f] # None}
            /\ pc' = "publish"
            /\ UNCHANGED <<queueVars, fs, clock, scanVars, fileVars, crashes, error>>

-----------------------------------------------------------------------------
(* publishChanges.                                                         *)

\* Variant of SameState: only sizes are compared.
SameSize(f) == (current[f] = None) = (known[f] = None)

SameState(f) == current[f] = known[f]

Operation(f) == CASE current[f] = None -> "delete"
                  [] known[f] = None -> "create"
                  [] OTHER -> "update"

NextFile == pc' = "publish" /\ todo' = todo \ {Min(todo)}
            /\ UNCHANGED <<fs, clock, scanVars, fileVars, crashes, error>>

\* The next path: unchanged, filtered, a deletion or a file to publish.
PublishChange ==
  /\ pc = "publish" /\ todo # {}
  /\ LET f == Min(todo)
     IN  IF SameState(f) \/ Operation(f) \notin Allowed
         THEN NextFile /\ UNCHANGED queueVars
         ELSE Put(IF Operation(f) = "delete" THEN Msg("file_delete", f, None, None)
                                             ELSE Msg("file_begin", f, current[f].data, None),
                  IF Operation(f) = "delete" THEN "deleted" ELSE "open")

PublishDelete == pc = "deleted" /\ Q!Publish("now", FALSE) /\ NextFile

OpenFile == /\ pc = "open"
            /\ IF fs[Min(todo)] = None THEN Fatal("gone") /\ Q!Recover
               ELSE /\ unlinked' = None /\ chunk' = 0 /\ read' = <<>>
                    /\ pc' = "chunk"
                    /\ UNCHANGED <<queueVars, fs, clock, scanVars, todo, crashes, error>>

\* What the open handle leads to.
Opened == IF unlinked = None THEN fs[Min(todo)] ELSE unlinked

ReadChunk ==
  /\ pc = "chunk" /\ chunk < Cardinality(Chunks)
  /\ LET part == Opened.data[chunk + 1]
         m    == Msg("file_chunk", Min(todo), current[Min(todo)].data, part)
     IN  IF Q!Full(m) THEN Fatal("capacity") /\ Q!Recover
         ELSE /\ Q!AppendMessage(m)
              /\ chunk' = chunk + 1
              /\ read' = [c \in 1..(chunk + 1) |-> IF c <= chunk THEN read[c] ELSE part]
              /\ UNCHANGED <<fs, clock, scanVars, pc, todo, unlinked, crashes, error>>

\* Variant of Unchanged: only the size is compared.
UnchangedSize == TRUE

\* The file is still the one the scan saw, and its hash what was read.
Unchanged == /\ Opened.time = current[Min(todo)].time
             /\ read = current[Min(todo)].data

\* errFileChanged: the staged chunks are discarded and the scan is given up.
CheckFile == /\ pc = "chunk" /\ chunk = Cardinality(Chunks)
             /\ IF Unchanged
                THEN Put(Msg("file_end", Min(todo), current[Min(todo)].data, None), "ended")
                ELSE Q!Recover /\ Go("idle")

PublishFile == pc = "ended" /\ Q!Publish("now", FALSE) /\ NextFile

\* known = current; then saveManifest replaces the file by a rename.
Remember == /\ pc = "publish" /\ todo = {}
            /\ known' = current /\ pc' = "save"
            /\ UNCHANGED <<queueVars, fs, clock, manifest, current, todo, fileVars, crashes, error>>

SaveManifest == /\ pc = "save"
                /\ manifest' = known /\ pc' = "idle"
                /\ UNCHANGED <<queueVars, fs, clock, known, current, todo, fileVars, crashes, error>>

-----------------------------------------------------------------------------

Crash == /\ pc \notin {"down", "dead"}
         /\ crashes < MaxCrashes /\ crashes' = crashes + 1
         /\ pc' = "down"
         /\ UNCHANGED <<queueVars, fs, clock, scanVars, todo, fileVars, error>>

\* The service is started again after an error.
Restart == pc = "dead" /\ pc' = "down" /\ error' = None /\ Still /\ UNCHANGED <<queueVars, todo>>

Init == /\ Q!Open
        /\ fs = NoFiles /\ clock = 0
        /\ manifest = NoFiles /\ known = NoFiles /\ current = NoFiles
        /\ pc = "down" /\ todo = {} /\ unlinked = None /\ chunk = 0 /\ read = <<>>
        /\ crashes = 0 /\ error = None

Scanning == ScanStart \/ ScanFile \/ ScanDone

Publishing == \/ PublishChange \/ PublishDelete \/ OpenFile \/ ReadChunk \/ CheckFile
              \/ PublishFile \/ Remember \/ SaveManifest

Collector == \/ Start \/ Initialize \/ SnapshotBegin \/ SnapshotEnd \/ Seal \/ LoadManifest
             \/ Scanning \/ Publishing \/ Restart

Next == Collector \/ Environment \/ Deliver \/ Crash

Spec == Init /\ [][Next]_vars

FairSpec == Spec /\ WF_vars(Collector)

-----------------------------------------------------------------------------
(* Properties.                                                             *)

\* Types of the scan results and of the read position.
TypeOK == /\ manifest \in FileStates /\ known \in FileStates /\ current \in FileStates
          /\ todo \subseteq Files
          /\ chunk \in 0..Cardinality(Chunks)
          /\ error \in {None, "gone", "capacity"}
          /\ st.NextSeq < MaxSeq

\* A published file is whole: its begin, its chunks in order and its end follow
\* each other, and the chunks are the content whose hash was announced, whatever
\* was written to the file while it was read (publishFile).
ContentMatchesHash ==
  \A k \in 1..st.ReadySeq : items[k].body.kind = "file_end" =>
    LET n == Cardinality(Chunks)
        b == items[k].body
    IN  /\ items[k - n - 1].body = [b EXCEPT !.kind = "file_begin"]
        /\ \A c \in Chunks : items[k - n - 1 + c].body =
                               [b EXCEPT !.kind = "file_chunk", !.part = b.sha[c]]

\* What the published messages leave at path f on the receiving side.
Replica(f) ==
  LET last == {k \in 1..st.ReadySeq : /\ items[k].body.kind \in {"file_end", "file_delete"}
                                      /\ items[k].body.file = f}
  IN  IF last = {} THEN None ELSE items[Max(last)].body.sha

\* A file that stays is published as it is in the end, in spite of crashes,
\* files changing while they are read and files disappearing under the scan.
LiveFilesConverge == <>[](\A f \in Files : fs[f] # None => Replica(f) = fs[f].data)

\* "changes missed while offline are recovered" (docs/server.md): when a scan is
\* complete, the published messages describe the files it saw.
\* The code does not keep it, since the manifest is saved after the scan (README.md).
ReplicaMatchesScan ==
  pc = "save" => \A f \in Files :
                   Replica(f) = IF known[f] = None THEN None ELSE known[f].data

\* "容量满时采集等待接收端释放已发布数据" (docs/architecture.md): capture gives up for
\* lack of capacity only when nothing published is left to be released.
\* The code does not keep it, since put returns the capacity error (README.md).
CapacityErrorReal == error = "capacity" => st.ReadySeq = st.DeliveredSeq
=============================================================================
