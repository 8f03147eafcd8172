---------------------------- MODULE LogicalExport ---------------------------
(***************************************************************************)
(* A logical export from the committed state of a cluster to a restored    *)
(* cluster: the control and data groups until the export fences them, the  *)
(* materialization thread and the spool of the node that builds the        *)
(* artifact (logical_export.rs, server export.rs), a client that downloads *)
(* it chunk by chunk, and restores into one destination                    *)
(* (logical_restore.rs).  ExportArtifact has the format.                   *)
(*                                                                         *)
(* ExportFence models how the fences are agreed on and given back; here a  *)
(* fenced group stays fenced, and what is followed is the data.  Files can *)
(* be damaged on disk, and the server and a restore can die at any step.   *)
(*                                                                         *)
(* One bookmark name is enough for the rules on names, and the identity of *)
(* a record's payload and of a bookmark is the index of its log entry.     *)
(*                                                                         *)
(* The state keeps the bytes of the last build once, in image, and of any  *)
(* file which parts of them it has: i for the i-th part, -i for that part  *)
(* after it was damaged.  Contents gives the bytes of a file.              *)
(***************************************************************************)
EXTENDS ExportArtifact

CONSTANTS
    Streams,      \* the streams of the catalog, numbered
    Placements,   \* [Streams -> Seq([partition, group])], ascending partitions
    DataGroups,   \* the data groups, numbered from 1; 0 is the control group
    Late,         \* the streams that are still Preparing at the start
    MaxCommands,  \* bound on commands before the export
    MaxFaults     \* bound on crashes and damaged files

PartitionsRise(x) == \A i, j \in DOMAIN x : i < j => x[i].partition < x[j].partition

ASSUME LogicalExportAssumption ==
    /\ Streams \subseteq Nat \ {0} /\ IsFiniteSet(Streams) /\ Late \subseteq Streams
    /\ DataGroups \subseteq Nat \ {0} /\ IsFiniteSet(DataGroups)
    /\ Placements \in [Streams -> Seq([partition : Nat, group : DataGroups])]
    /\ \A s \in Streams : Placements[s] # <<>> /\ PartitionsRise(Placements[s])
    /\ MaxCommands \in Nat /\ MaxFaults \in Nat /\ MaxStreams \in Nat /\ MaxPartitions \in Nat

SourceGroups == DataGroups \cup {0}
Parts == UNION {{<<s, x.partition>> : x \in Range(Placements[s])} : s \in Streams}
GroupOf(p) == (CHOOSE x \in Range(Placements[p[1]]) : x.partition = p[2]).group

NoFile == <<>>
NoTask == [state |-> "none", result |-> NoFile]

VARIABLES
    parts,      \* [Parts -> [floor, records, ceiling, marks]], records by offset
    streams,    \* [Streams -> [active, revision, ceiling, marks]]
    log,        \* [SourceGroups -> Nat], the index each group has applied
    fencedAt,   \* [SourceGroups -> Nat], the index of the held fence, 0 for none
    phase,      \* "Open", "Preparing", "Materializing", "Available" or "Aborted"
    selected,   \* the streams of the export, ascending
    committed,  \* the artifact identity in the control group
    task,       \* the materialization the coordinator owns
    image,      \* what the last build wrote
    building, ready,   \* the two spool files
    client,     \* [state, got]: a download and the chunks in its .part file
    restore,    \* the state of the restore process
    dest,       \* the destination directory: [there, store, artifact]
    faults

source == <<parts, streams, log, fencedAt, phase, selected, committed>>
spool == <<task, image, building, ready>>
logicalVars == <<source, spool, client, restore, dest, faults>>

EmptyPart == [floor |-> 0, records |-> <<>>, ceiling |-> 0, marks |-> <<>>]
NoDownload == [state |-> "idle", got |-> NoFile]
EmptyStore == [parts |-> <<>>, streams |-> <<>>]
NoDest == [there |-> FALSE, store |-> EmptyStore, artifact |-> NoFile]
NoRestore == [state |-> "idle", file |-> NoFile, read |-> 0, store |-> EmptyStore]

\* A bootstrapped cluster whose streams were created in their order.
LogicalInit ==
    /\ parts = [p \in Parts |-> EmptyPart]
    /\ streams = [s \in Streams |-> [active |-> s \notin Late, revision |-> s + 1,
                                     ceiling |-> 0, marks |-> <<>>]]
    /\ log = [g \in SourceGroups |-> 1]
    /\ fencedAt = [g \in SourceGroups |-> 0]
    /\ phase = "Open" /\ selected = <<>> /\ committed = NoFile
    /\ task = NoTask /\ image = NoFile /\ building = NoFile /\ ready = NoFile
    /\ client = NoDownload
    /\ restore = NoRestore /\ dest = NoDest /\ faults = 0

-----------------------------------------------------------------------------
(* The source cluster.                                                     *)

TailOf(p) == parts[p].floor + Len(parts[p].records)
NameIsFree(x) == \A b \in Range(x.marks) : ~b.active

Commands == FoldSet(LAMBDA g, n : n + log[g] - 1, 0, SourceGroups)

\* A group that holds a fence refuses every mutation.
Applies(g) ==
    /\ phase \in {"Open", "Preparing"} /\ fencedAt[g] = 0 /\ Commands < MaxCommands
    /\ log' = [log EXCEPT ![g] = @ + 1]
    /\ UNCHANGED <<fencedAt, phase, selected, committed, spool, client, restore, dest, faults>>

\* The next bookmark of the partition or the stream x: a partition's holds an
\* offset, a stream's one position per partition.
PartitionMark(id, x, offset) ==
    [id |-> id, name |-> "a", publication |-> x.ceiling + 1, active |-> TRUE,
     cluster |-> "source", offset |-> offset]

StreamMark(id, x, positions) ==
    [id |-> id, name |-> "a", publication |-> x.ceiling + 1, active |-> TRUE,
     cluster |-> "source", positions |-> positions]

WithMark(x, b) == [x EXCEPT !.ceiling = x.ceiling + 1, !.marks = Append(x.marks, b)]

\* Mutant: the tombstone of a deleted bookmark gives up its place.
Deleted_Removed(marks) == SelectSeq(marks, LAMBDA b : ~b.active)

\* A deleted bookmark stays in its place as a tombstone.
Deleted(marks) == [i \in DOMAIN marks |-> [marks[i] EXCEPT !.active = FALSE]]

WithoutMarks(x) == [x EXCEPT !.marks = Deleted(x.marks)]

\* A publish appends one record, and names the position after it on request.
Publish(p, named) ==
    /\ Applies(GroupOf(p))
    /\ named => NameIsFree(parts[p])
    /\ LET id == log[GroupOf(p)] + 1
           x == [parts[p] EXCEPT !.records = Append(parts[p].records, id)]
       IN  parts' = [parts EXCEPT ![p] =
                IF named THEN WithMark(x, PartitionMark(id, x, TailOf(p) + 1)) ELSE x]
    /\ UNCHANGED streams

CreateBookmark(p, offset) ==
    /\ Applies(GroupOf(p)) /\ offset <= TailOf(p) /\ NameIsFree(parts[p])
    /\ parts' = [parts EXCEPT ![p] =
            WithMark(parts[p], PartitionMark(log[GroupOf(p)] + 1, parts[p], offset))]
    /\ UNCHANGED streams

DeleteBookmark(p) ==
    /\ Applies(GroupOf(p)) /\ ~NameIsFree(parts[p])
    /\ parts' = [parts EXCEPT ![p] = WithoutMarks(parts[p])]
    /\ UNCHANGED streams

\* Retention moves the floor; an export reads from the floor on.
AdvanceFloor(p) ==
    /\ Applies(GroupOf(p)) /\ parts[p].records # <<>>
    /\ parts' = [parts EXCEPT ![p] =
            [parts[p] EXCEPT !.floor = parts[p].floor + 1, !.records = Tail(parts[p].records)]]
    /\ UNCHANGED streams

\* A stream bookmark holds one position per partition, the tails the server
\* has observed.
CreateStreamBookmark(s) ==
    /\ Applies(0) /\ streams[s].active /\ NameIsFree(streams[s])
    /\ LET positions == [i \in DOMAIN Placements[s] |-> TailOf(<<s, Placements[s][i].partition>>)]
       IN  streams' = [streams EXCEPT ![s] =
                WithMark(streams[s], StreamMark(log[0] + 1, streams[s], positions))]
    /\ UNCHANGED parts

DeleteStreamBookmark(s) ==
    /\ Applies(0) /\ ~NameIsFree(streams[s])
    /\ streams' = [streams EXCEPT ![s] = WithoutMarks(streams[s])]
    /\ UNCHANGED parts

\* Every change of the catalog stamps the stream it changes.
CatalogRevision == Max({streams[s].revision : s \in Streams})

\* The last data group reports ready and the stream becomes Active.
ActivateStream(s) ==
    /\ Applies(0) /\ ~streams[s].active
    /\ streams' = [streams EXCEPT ![s] = [streams[s] EXCEPT !.active = TRUE, !.revision = CatalogRevision + 1]]
    /\ UNCHANGED parts

\* The control group fences itself when the export begins.
BeginExport(sel) ==
    /\ phase = "Open" /\ sel # {} /\ \A s \in sel : streams[s].active
    /\ phase' = "Preparing" /\ selected' = Ascending(sel)
    /\ log' = [log EXCEPT ![0] = @ + 1] /\ fencedAt' = [fencedAt EXCEPT ![0] = log[0] + 1]
    /\ UNCHANGED <<parts, streams, committed, spool, client, restore, dest, faults>>

\* The other groups are fenced one by one while they still take commands.
FenceGroup(g) ==
    /\ phase = "Preparing" /\ fencedAt[g] = 0
    /\ log' = [log EXCEPT ![g] = @ + 1] /\ fencedAt' = [fencedAt EXCEPT ![g] = log[g] + 1]
    /\ phase' = IF \A h \in SourceGroups \ {g} : fencedAt[h] # 0 THEN "Materializing" ELSE "Preparing"
    /\ UNCHANGED <<parts, streams, selected, committed, spool, client, restore, dest, faults>>

-----------------------------------------------------------------------------
(* What the materialization thread reads from the groups.                  *)

StreamEntry(s) ==
    [stream |-> s, name |-> s, cluster |-> "source", active |-> streams[s].active,
     revision |-> streams[s].revision, placements |-> Placements[s],
     ready |-> Ascending({x.group : x \in Range(Placements[s])}),
     ceiling |-> streams[s].ceiling, marks |-> streams[s].marks]

ControlSection ==
    [cluster |-> "source", export |-> "export", cut |-> fencedAt[0], revision |-> CatalogRevision,
     maxStreams |-> Cardinality(Streams), groups |-> Ascending(DataGroups),
     streams |-> [i \in DOMAIN selected |-> StreamEntry(selected[i])]]

PartitionEntry(p) ==
    [cluster |-> "source", stream |-> p[1], partition |-> p[2], floor |-> parts[p].floor,
     tail |-> TailOf(p), ceiling |-> parts[p].ceiling, marks |-> parts[p].marks,
     records |-> [i \in DOMAIN parts[p].records |->
                    [offset |-> parts[p].floor + i - 1, payload |-> parts[p].records[i]]]]

\* The partitions of the selected streams that a group holds.
PlannedPartitions(g) == {p \in Parts : GroupOf(p) = g /\ p[1] \in Range(selected)}

DataSection(g) ==
    LET planned == AscendingKeys(PlannedPartitions(g))
    IN  [cluster |-> "source", export |-> "export", group |-> g, cut |-> fencedAt[g],
         partitions |-> [i \in DOMAIN planned |-> PartitionEntry(planned[i])]]

Document ==
    [cluster |-> "source", export |-> "export", selected |-> selected, cut |-> fencedAt,
     control |-> ControlSection]

DataSections == [i \in DOMAIN ControlSection.groups |-> DataSection(ControlSection.groups[i])]

\* What the parts of a file hold.  Damage changes a section, where it can, in
\* a way that only a digest tells.
Shifted(p) ==
    [p EXCEPT !.floor = p.floor + 1, !.tail = p.tail + 1,
              !.records = [j \in DOMAIN p.records |->
                [p.records[j] EXCEPT !.offset = p.records[j].offset + 1]]]

Flipped(frame) ==
    CASE frame.kind = "DataGroup" /\ frame.items > 0 ->
            [frame EXCEPT !.body = [frame.body EXCEPT !.partitions =
                [i \in DOMAIN frame.body.partitions |-> Shifted(frame.body.partitions[i])]]]
      [] frame.kind = "Control" ->
            [frame EXCEPT !.body = [frame.body EXCEPT !.maxStreams = frame.body.maxStreams + 1]]
      [] OTHER -> [kind |-> "Noise"]

Contents(f) == [i \in DOMAIN f |-> IF f[i] > 0 THEN image[f[i]] ELSE Flipped(image[-f[i]])]

Whole == [i \in 1 .. Cardinality(SourceGroups) + 3 |-> i]

Accepted(f) == f # NoFile /\ \E bytes \in {Contents(f)} : Verified(bytes)

\* What a file can become on disk: a prefix of itself, or a file of the same
\* length with one part changed.
Damaged(f) ==
    {SubSeq(f, 1, n) : n \in 1 .. Len(f) - 1} \cup {[f EXCEPT ![i] = -@] : i \in DOMAIN f}

Exportable(d, data) == DocumentIsValid(d, data) /\ WithinBudget(d, d.control, data)

-----------------------------------------------------------------------------
(* The coordinator and its spool.                                          *)

Rebuildable == phase \in {"Materializing", "Available"}

\* Mutant: a file with the right name is taken for the artifact.
ReadyIs_Named(wanted) == ready # NoFile

\* A ready file counts only if it verifies, and as the artifact that the
\* control group has committed once there is one.
ReadyIs(wanted) ==
    /\ Accepted(ready)
    /\ wanted # NoFile => Identity(ready) = wanted

\* The tick of the reconciler when no task is owned: the ready file of an
\* earlier build is used, or removed and built again.
RecoverReady ==
    /\ Rebuildable /\ task = NoTask
    /\ \/ /\ ReadyIs(committed) /\ phase = "Materializing"
          /\ phase' = "Available" /\ committed' = Identity(ready)
          /\ UNCHANGED spool
       \/ /\ ~ReadyIs(committed)
          /\ task' = [state |-> "running", result |-> NoFile]
          /\ ready' = NoFile
          /\ UNCHANGED <<phase, committed, image, building>>
    /\ UNCHANGED <<parts, streams, log, fencedAt, selected, client, restore, dest, faults>>

\* The thread writes every section; a document that is not canonical or is
\* over a limit is an error.
WriteArtifact ==
    /\ task.state = "running" /\ building = NoFile
    /\ \E d \in {Document}, data \in {DataSections} :
        IF Exportable(d, data) /\ ready = NoFile
        THEN building' = Whole /\ image' = Written(d, data) /\ UNCHANGED task
        ELSE task' = [state |-> "failed", result |-> NoFile] /\ UNCHANGED <<image, building>>
    /\ UNCHANGED <<source, ready, client, restore, dest, faults>>

\* The written file is verified before it gets its final name.
PublishReady ==
    /\ task.state = "running" /\ building # NoFile
    /\ IF Accepted(building)
       THEN ready' = building /\ task' = [state |-> "finished", result |-> Identity(building)]
       ELSE ready' = ready /\ task' = [state |-> "failed", result |-> NoFile]
    /\ building' = NoFile
    /\ UNCHANGED <<source, image, client, restore, dest, faults>>

\* The tick joins a task that has ended.
JoinTask ==
    /\ Rebuildable /\ task.state \in {"finished", "failed"}
    /\ task' = NoTask
    /\ \/ /\ task.state = "finished" /\ phase = "Materializing"
          /\ phase' = "Available" /\ committed' = task.result
       \/ /\ task.state = "finished" /\ phase = "Available" /\ task.result = committed
          /\ UNCHANGED <<phase, committed>>
       \/ /\ task.state = "failed"
          /\ phase' = "Aborted" /\ UNCHANGED committed
    /\ UNCHANGED <<parts, streams, log, fencedAt, selected, image, building, ready, client, restore, dest, faults>>

\* A tick without proof of authority cancels the task, or the thread meets an
\* I/O error, which the next tick retries; the thread removes what it wrote.
CancelTask ==
    /\ Rebuildable /\ task # NoTask /\ faults < MaxFaults /\ faults' = faults + 1
    /\ task' = NoTask /\ building' = NoFile
    /\ UNCHANGED <<source, image, ready, client, restore, dest>>

\* The server dies and starts again: a file being built is removed, and a
\* ready file is kept only for an artifact that is committed.
CrashServer ==
    /\ Rebuildable /\ faults < MaxFaults /\ faults' = faults + 1
    /\ task' = NoTask /\ building' = NoFile
    /\ ready' = IF phase = "Available" THEN ready ELSE NoFile
    /\ UNCHANGED <<source, image, client, restore, dest>>

\* The disk damages a file: one fault per run of bytes.
DamageReady ==
    /\ ready = Whole /\ faults < MaxFaults /\ faults' = faults + 1
    /\ ready' \in Damaged(ready)
    /\ UNCHANGED <<source, task, image, building, client, restore, dest>>

-----------------------------------------------------------------------------
(* The download.                                                           *)

\* Every chunk is read from a file that has just been verified against the
\* committed identity.
DownloadChunk ==
    /\ client.state # "refused" /\ restore = NoRestore /\ ~dest.there /\ phase = "Available" /\ ReadyIs(committed)
    /\ Len(client.got) < committed.length /\ Len(client.got) < Len(ready)
    /\ client' = [state |-> "downloading", got |-> Append(client.got, ready[Len(client.got) + 1])]
    /\ UNCHANGED <<source, spool, restore, dest, faults>>

\* The client hashes every byte it has written, the trailer included, and
\* compares that with the digest of the artifact.
CheckDownload ==
    /\ client.state = "downloading" /\ Len(client.got) = committed.length
    /\ client' = [client EXCEPT !.state = IF client.got = committed.sum THEN "accepted" ELSE "refused"]
    /\ UNCHANGED <<source, spool, restore, dest, faults>>

-----------------------------------------------------------------------------
(* Restore.                                                                *)

Rewritten(marks) == [i \in DOMAIN marks |-> [marks[i] EXCEPT !.cluster = "target"]]

\* What import_control_section keeps of a stream.
RestoredStream(s) ==
    [active |-> s.active, revision |-> s.revision, ceiling |-> s.ceiling, marks |-> Rewritten(s.marks)]

RestoredPartition(p) ==
    [floor |-> p.floor, ceiling |-> p.ceiling, marks |-> Rewritten(p.marks),
     records |-> [i \in DOMAIN p.records |-> p.records[i].payload]]

ImportControl(c) ==
    [s \in {x.stream : x \in Range(c.streams)} |->
        RestoredStream(CHOOSE x \in Range(c.streams) : x.stream = s)]

ImportData(g) ==
    [k \in {Key(p) : p \in Range(g.partitions)} |->
        RestoredPartition(CHOOSE p \in Range(g.partitions) : Key(p) = k)]

\* The i-th section goes into the staged stores: the control section comes
\* first, and no partition comes twice.
Imported(store, i, body) ==
    IF i = 1 THEN [store EXCEPT !.streams = ImportControl(body)]
    ELSE LET new == ImportData(body)
         IN  [store EXCEPT !.parts = [k \in DOMAIN new \cup DOMAIN store.parts |->
                IF k \in DOMAIN new THEN new[k] ELSE store.parts[k]]]

ReceiptMatches(f) == dest.there /\ dest.artifact = Identity(f)

\* The operator restores from a copy of the spool file.  A repeated restore
\* of the artifact the destination came from returns its receipt and changes
\* nothing, and any other is refused, so only the first one is a step.
StartRestore(f) ==
    /\ restore = NoRestore /\ client = NoDownload
    /\ Accepted(f) /\ ~ReceiptMatches(f) /\ ~dest.there
    /\ restore' = [state |-> "importing", file |-> f, read |-> 0, store |-> EmptyStore]
    /\ UNCHANGED <<source, spool, client, dest, faults>>

\* The sections are read again from the file, against the manifest that was
\* verified; the first failure removes the staging directory.
ImportSection ==
    LET f == Contents(restore.file)  m == image[Len(f) - 1]  i == restore.read + 1
    IN  /\ restore.state = "importing" /\ restore.read < Cardinality(SourceGroups)
        /\ restore' =
            IF ~SectionReads(f, m, i) THEN NoRestore
            ELSE [restore EXCEPT !.read = i, !.store = Imported(restore.store, i, f[i + 1].body)]
        /\ UNCHANGED <<source, spool, client, dest, faults>>

\* The reopened stores are audited, the receipt is written into the staging
\* directory, and one rename makes it the destination.
PublishRestore ==
    /\ restore.state = "importing" /\ restore.read = Cardinality(SourceGroups) /\ ~dest.there
    /\ dest' = [there |-> TRUE, store |-> restore.store, artifact |-> Identity(Whole)]
    /\ restore' = NoRestore
    /\ UNCHANGED <<source, spool, client, faults>>

\* The process dies; the staging directory has a random name and is never
\* looked at again.
CrashRestore ==
    /\ restore.state = "importing" /\ faults < MaxFaults /\ faults' = faults + 1
    /\ restore' = NoRestore
    /\ UNCHANGED <<source, spool, client, dest>>

\* The input changes on disk under a running restore.
DamageInput ==
    /\ restore.state = "importing" /\ faults < MaxFaults /\ faults' = faults + 1
    /\ \E f \in Damaged(restore.file) : Len(f) = Len(restore.file) /\ restore' = [restore EXCEPT !.file = f]
    /\ UNCHANGED <<source, spool, client, dest>>

-----------------------------------------------------------------------------
Mutations ==
    \/ \E p \in Parts :
        \/ \E named \in BOOLEAN : Publish(p, named)
        \/ \E offset \in 0 .. MaxCommands : CreateBookmark(p, offset)
        \/ DeleteBookmark(p)
        \/ AdvanceFloor(p)
    \/ \E s \in Streams : CreateStreamBookmark(s) \/ DeleteStreamBookmark(s) \/ ActivateStream(s)

Exporting ==
    \/ \E sel \in SUBSET Streams : BeginExport(sel)
    \/ \E g \in DataGroups : FenceGroup(g)
    \/ RecoverReady \/ WriteArtifact \/ PublishReady \/ JoinTask
    \/ CancelTask \/ CrashServer \/ DamageReady
    \/ DownloadChunk \/ CheckDownload

Restoring == StartRestore(ready) \/ ImportSection \/ PublishRestore \/ CrashRestore \/ DamageInput

LogicalNext == Mutations \/ Exporting \/ Restoring

LogicalSpec == LogicalInit /\ [][LogicalNext]_logicalVars

\* The reconciler ticks and its thread runs for as long as the export is
\* active; clients and operators owe nothing.
LogicalFairness ==
    /\ WF_logicalVars(RecoverReady) /\ WF_logicalVars(WriteArtifact)
    /\ WF_logicalVars(PublishReady) /\ WF_logicalVars(JoinTask)

LogicalLiveSpec == LogicalSpec /\ LogicalFairness

-----------------------------------------------------------------------------
(* A cut that the limits admit can be exported: whatever commands, retries *)
(* of names and retention the groups have applied, and whichever group was *)
(* fenced first, the document read from them is canonical, so that the     *)
(* verifier accepts it and the export is not aborted.                      *)
EveryCutIsExportable ==
    phase = "Aborted" => ~WithinBudget(Document, ControlSection, DataSections)

(* The chunks of a download are the artifact of the committed cut from its *)
(* first part on, also when the spool file was lost, damaged or built      *)
(* again between two requests.                                             *)
DownloadsTheCut == client.got # NoFile => IsPrefix(client.got, Whole)

(* A destination that exists holds exactly the selected streams as they    *)
(* were at the cut, floors, offsets, payloads and tombstones included and  *)
(* only the cluster changed, whatever happened to the spool, the download, *)
(* the input file and the restores before it.                              *)
RestoredIsTheCut ==
    dest.there =>
        /\ DOMAIN dest.store.streams = Range(selected)
        /\ DOMAIN dest.store.parts = {p \in Parts : p[1] \in Range(selected)}
        /\ \A s \in DOMAIN dest.store.streams :
            dest.store.streams[s] = [streams[s] EXCEPT !.marks = Rewritten(streams[s].marks)]
        /\ \A p \in DOMAIN dest.store.parts :
            dest.store.parts[p] = [parts[p] EXCEPT !.marks = Rewritten(parts[p].marks)]

(* An export that is being materialized ends with a ready file that is the *)
(* committed artifact, or aborts, although files are damaged and the       *)
(* server dies.                                                            *)
SpoolRecovers ==
    Rebuildable ~> phase = "Aborted" \/ (phase = "Available" /\ ready = Whole)

(* A client that has received the whole committed artifact accepts it.     *)
WholeDownloadIsAccepted == client.state = "refused" => client.got # Whole
=============================================================================
