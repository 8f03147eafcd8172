--------------------------- MODULE ExportArtifact ---------------------------
(***************************************************************************)
(* The file format of the crate light-stream-export: what write_v1 puts in *)
(* a file, and what verify accepts.  A file is a sequence of parts, one    *)
(* per frame of the format: the prologue, the control section, one section *)
(* per data group in the order of the cut, the manifest and the trailer.   *)
(* The position of a part stands for its byte offset and the number of     *)
(* parts for the length of the file.  A SHA-256 digest of x is modelled by *)
(* x itself: digests are equal exactly when what they cover is.            *)
(*                                                                         *)
(* Streams, partitions and groups are numbered, because the format asks    *)
(* for strictly ascending identities.                                      *)
(***************************************************************************)
EXTENDS Integers, Sequences, FiniteSets, SequencesExt

CONSTANTS
    MaxStreams,      \* ExportLimits::max_streams
    MaxPartitions    \* ExportLimits::max_partitions

Prologue == [kind |-> "Prologue", version |-> 1]

IsStrict(s) == \A i \in 1 .. Len(s) - 1 : s[i] < s[i + 1]

Distinct(s) == \A i, j \in DOMAIN s : i # j => s[i] # s[j]

\* The elements of S in the order of R, a set of pairs <<x, y>> with x before
\* y: an element comes after as many as are before it.
Sorted(S, R) ==
    [i \in 1 .. Cardinality(S) |->
        CHOOSE x \in S : Cardinality({y \in S : <<y, x>> \in R}) = i - 1]

Ascending(S) == Sorted(S, {r \in S \X S : r[1] < r[2]})

\* One element for every element of every set that f gives.
Pairs(f) == UNION {{i} \X f[i] : i \in DOMAIN f}

Key(p) == <<p.stream, p.partition>>

\* Partitions are ordered by stream and then by partition.
Before(k, l) == k[1] < l[1] \/ (k[1] = l[1] /\ k[2] < l[2])

AscendingKeys(S) == Sorted(S, {r \in S \X S : Before(r[1], r[2])})

KeysAscend(s) == \A i \in 1 .. Len(s) - 1 : Before(Key(s[i]), Key(s[i + 1]))

\* What holds of the bookmarks of one stream or one partition: publication
\* numbers run from 1 to the ceiling without a gap, so tombstones are part
\* of the sequence, and a name is active once.
MarksAreComplete(marks, ceiling) ==
    /\ \A i \in DOMAIN marks : marks[i].publication = i
    /\ ceiling = Len(marks)
    /\ Distinct([i \in DOMAIN marks |-> marks[i].id])
    /\ \A i, j \in DOMAIN marks :
        marks[i].active /\ marks[j].active /\ marks[i].name = marks[j].name => i = j

\* No two bookmarks of a list of streams or of partitions have the same id.
IdsAreDistinct(items) ==
    \A x, y \in Pairs([i \in DOMAIN items |-> DOMAIN items[i].marks]) :
        items[x[1]].marks[x[2]].id = items[y[1]].marks[y[2]].id => x = y

StreamMarksAreValid(s) ==
    /\ MarksAreComplete(s.marks, s.ceiling)
    /\ \A b \in Range(s.marks) : Len(b.positions) = Len(s.placements)

\* The groups of a cut, in the order in which their sections are written.
GroupsOf(cut) == Ascending(DOMAIN cut \ {0})

\* d is a document or a manifest: the context the control section is held to.
ControlIsValid(d, c) ==
    /\ c.cluster = d.cluster /\ c.export = d.export /\ c.cut = d.cut[0]
    /\ d.selected # <<>> /\ IsStrict(d.selected)
    /\ c.maxStreams >= Len(d.selected) /\ Len(d.selected) <= MaxStreams
    /\ c.groups = GroupsOf(d.cut) /\ c.groups # <<>>
    /\ [i \in DOMAIN c.streams |-> c.streams[i].stream] = d.selected
    /\ c.revision # 0 /\ \A s \in Range(c.streams) : s.revision <= c.revision
    /\ Distinct([i \in DOMAIN c.streams |-> c.streams[i].name])
    /\ \A s \in Range(c.streams) :
        /\ s.cluster = d.cluster /\ s.active /\ s.placements # <<>>
        /\ IsStrict([i \in DOMAIN s.placements |-> s.placements[i].partition])
        /\ IsStrict(s.ready)
        /\ Range(s.ready) = {p.group : p \in Range(s.placements)}
        /\ Range(s.ready) \subseteq Range(c.groups)
        /\ StreamMarksAreValid(s)
    /\ IdsAreDistinct(c.streams)

\* The group of every partition of the selected streams.
Placed(c) ==
    UNION {{<<s.stream, p.partition, p.group>> : p \in Range(s.placements)} : s \in Range(c.streams)}

PartitionIsValid(d, p) ==
    /\ p.cluster = d.cluster
    /\ p.floor <= p.tail /\ Len(p.records) = p.tail - p.floor
    /\ \A i \in DOMAIN p.records : p.records[i].offset = p.floor + i - 1
    /\ MarksAreComplete(p.marks, p.ceiling)
    /\ \A b \in Range(p.marks) : b.cluster = d.cluster /\ b.offset <= p.tail

\* g is the data section of the group its place in the cut calls for.
DataIsValid(d, c, group, g) ==
    /\ g.cluster = d.cluster /\ g.export = d.export
    /\ g.group = group /\ g.cut = d.cut[group]
    /\ KeysAscend(g.partitions)
    /\ IdsAreDistinct(g.partitions)
    /\ \A p \in Range(g.partitions) :
        /\ <<p.stream, p.partition, group>> \in Placed(c)
        /\ PartitionIsValid(d, p)

\* The partitions of all data sections, by section and place.
Places(data) == Pairs([i \in DOMAIN data |-> DOMAIN data[i].partitions])
PartitionAt(data, x) == data[x[1]].partitions[x[2]]

\* Every placed partition has been delivered once, and the stream bookmarks
\* point inside the partitions.
DataIsComplete(c, data) ==
    /\ \A x, y \in Places(data) :
        Key(PartitionAt(data, x)) = Key(PartitionAt(data, y)) => x = y
    /\ {Key(PartitionAt(data, x)) : x \in Places(data)} = {<<z[1], z[2]>> : z \in Placed(c)}
    /\ \A s \in Range(c.streams) : \A b \in Range(s.marks) : \A i \in DOMAIN b.positions :
        \E x \in Places(data) :
            /\ Key(PartitionAt(data, x)) = <<s.stream, s.placements[i].partition>>
            /\ b.positions[i] <= PartitionAt(data, x).tail

\* What the budget counts.  A selected stream is charged in the manifest and
\* again in the control section; a partition in its placement, in every
\* position of a stream bookmark and in its data section.
StreamsCharged(d, c) == Len(d.selected) + Len(c.streams)

PositionsOf(s) == Pairs([j \in DOMAIN s.marks |-> DOMAIN s.marks[j].positions])

PartitionsCharged(c, data) ==
    Cardinality(Pairs([i \in DOMAIN c.streams |-> DOMAIN c.streams[i].placements]))
    + Cardinality(Pairs([i \in DOMAIN c.streams |-> PositionsOf(c.streams[i])]))
    + Cardinality(Places(data))

WithinBudget(d, c, data) ==
    /\ StreamsCharged(d, c) <= MaxStreams
    /\ PartitionsCharged(c, data) <= MaxPartitions

Totals(d, c, data) ==
    [groups |-> Cardinality(DOMAIN d.cut) - 1, streams |-> Len(c.streams),
     partitions |-> Cardinality(Places(data)),
     records |-> Cardinality(Pairs([x \in Places(data) |-> DOMAIN PartitionAt(data, x).records])),
     partitionMarks |-> Cardinality(Pairs([x \in Places(data) |-> DOMAIN PartitionAt(data, x).marks])),
     streamMarks |-> Cardinality(Pairs([i \in DOMAIN c.streams |-> DOMAIN c.streams[i].marks]))]

\* A document, its control section included, and the data sections the
\* source delivers are what an export may contain.
DocumentIsValid(d, data) ==
    /\ ControlIsValid(d, d.control)
    /\ Len(data) = Cardinality(DOMAIN d.cut) - 1
    /\ \A i \in DOMAIN data : DataIsValid(d, d.control, GroupsOf(d.cut)[i], data[i])
    /\ DataIsComplete(d.control, data)

ControlFrame(c) == [kind |-> "Control", group |-> 0, items |-> Len(c.streams), sum |-> c, body |-> c]

DataFrame(g) ==
    [kind |-> "DataGroup", group |-> g.group, items |-> Len(g.partitions), sum |-> g, body |-> g]

\* The part's entry in the manifest; at is its place in the file.
Descriptor(frame, ordinal) ==
    [ordinal |-> ordinal, at |-> ordinal + 2, kind |-> frame.kind, group |-> frame.group,
     items |-> frame.items, sum |-> frame.sum]

Manifest(d, data, frames) ==
    [kind |-> "Manifest", cluster |-> d.cluster, export |-> d.export, selected |-> d.selected,
     cut |-> d.cut, sections |-> [i \in DOMAIN frames |-> Descriptor(frames[i], i - 1)],
     totals |-> Totals(d, d.control, data)]

\* The file that write_v1 leaves behind for a valid document.
Written(d, data) ==
    LET frames == <<ControlFrame(d.control)>> \o [i \in DOMAIN data |-> DataFrame(data[i])]
        hashed == <<Prologue>> \o frames \o <<Manifest(d, data, frames)>>
    IN  Append(hashed, [kind |-> "Trailer", manifest |-> Len(hashed),
                        length |-> Len(hashed) + 1, sum |-> hashed])

\* ArtifactIdentity: the length and the digest of everything before the
\* trailer.
Identity(f) == [length |-> Len(f), sum |-> Front(f)]

TrailerFits(f) ==
    /\ Len(f) >= 4
    /\ Last(f).kind = "Trailer"
    /\ Last(f).length = Len(f)
    /\ Last(f).manifest = Len(f) - 1
    /\ f[Len(f) - 1].kind = "Manifest"

ManifestIsValid(m) ==
    /\ IsStrict(m.selected)
    /\ m.totals.streams <= MaxStreams /\ m.totals.partitions <= MaxPartitions
    /\ m.totals.groups = Cardinality(DOMAIN m.cut) - 1

\* Mutant: the payload of a section is not compared with its digest.
SectionReads_NoDigest(f, m, i) ==
    LET frame == f[i + 1]  expected == m.sections[i]
    IN  /\ expected.ordinal = i - 1 /\ expected.at = i + 1
        /\ expected.kind = (IF i = 1 THEN "Control" ELSE "DataGroup")
        /\ expected.group = (IF i = 1 THEN 0 ELSE GroupsOf(m.cut)[i - 1])
        /\ frame.kind = expected.kind /\ frame.items = expected.items
        /\ frame.sum = expected.sum

\* The i-th section is where and what the manifest says, and undamaged.
SectionReads(f, m, i) ==
    LET frame == f[i + 1]  expected == m.sections[i]
    IN  /\ expected.ordinal = i - 1 /\ expected.at = i + 1
        /\ expected.kind = (IF i = 1 THEN "Control" ELSE "DataGroup")
        /\ expected.group = (IF i = 1 THEN 0 ELSE GroupsOf(m.cut)[i - 1])
        /\ frame.kind = expected.kind /\ frame.items = expected.items
        /\ frame.sum = expected.sum
        /\ frame.body = frame.sum

ControlOf(f) == f[2].body
DataOf(f) == [i \in 1 .. Len(f) - 4 |-> f[i + 2].body]

\* The sections of a file against its manifest: walk_sections.
SectionsAreValid(f, m) ==
    /\ Len(m.sections) = Cardinality(DOMAIN m.cut)
    /\ Len(f) = Len(m.sections) + 3
    /\ \A i \in DOMAIN m.sections : SectionReads(f, m, i)
    /\ ControlIsValid(m, ControlOf(f))
    /\ Len(ControlOf(f).streams) = f[2].items
    /\ \A i \in DOMAIN DataOf(f) :
        /\ Len(DataOf(f)[i].partitions) = f[i + 2].items
        /\ DataIsValid(m, ControlOf(f), GroupsOf(m.cut)[i], DataOf(f)[i])
    /\ DataIsComplete(ControlOf(f), DataOf(f))
    /\ WithinBudget(m, ControlOf(f), DataOf(f))
    /\ m.totals = Totals(m, ControlOf(f), DataOf(f))

\* The verifier.  f is any file: torn, damaged, or whole.
Verified(f) ==
    /\ TrailerFits(f)
    /\ ManifestIsValid(f[Len(f) - 1])
    /\ f[1] = Prologue
    /\ SectionsAreValid(f, f[Len(f) - 1])
    /\ Last(f).sum = Front(f)
=============================================================================
