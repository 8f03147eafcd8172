---------------------------- MODULE PayloadStore ----------------------------
(***************************************************************************)
(* The durable store of one replica of a group (light-stream-storage,      *)
(* lib.rs and snapshot.rs): the Raft log, the payload objects with their   *)
(* ownership records, the two state banks, and the snapshot artifacts.     *)
(*                                                                         *)
(* A payload is stored once and shared by the log entry that carried it    *)
(* and the committed record that exposes it; `owners` decides when it may  *)
(* be deleted.  A snapshot is installed into the inactive bank by many     *)
(* synced batches and published by one; the process may crash after any    *)
(* of them.  All writers hold the OrderedWriteLane, so `job` is the one    *)
(* multi-batch operation that may be under way.                            *)
(*                                                                         *)
(* Which records an entry adds and reclaims is decided by the command it   *)
(* carries (modules PublishApply and Retention); here it is any choice,    *)
(* made once, when the entry commits, since replicas are deterministic.    *)
(***************************************************************************)
EXTENDS Integers, Sequences, FiniteSets

CONSTANTS
    Terms,       \* leader ids (term and node)
    MaxIndex,    \* bound: committed log entries
    Slots,       \* payload slots of a publish entry
    PublishIds,  \* the <<term, index>> ids whose entries carry payloads
    NoArtifact   \* an absent snapshot

ASSUME PayloadStoreAssumption ==
    /\ Terms \subseteq Nat
    /\ MaxIndex \in Nat
    /\ PublishIds \subseteq Terms \X (1 .. MaxIndex)

Indexes == 1 .. MaxIndex
Banks == {"A", "B"}

Inactive(b) == IF b = "A" THEN "B" ELSE "A"

(* payload_id: leader id, index and slot of the entry that carried it.     *)
Payloads == Terms \X Indexes \X Slots

PayloadsOf(t, i) == IF <<t, i>> \in PublishIds THEN {<<t, i, s>> : s \in Slots} ELSE {}

(* PayloadOwners: {} when there is no ownership record.                    *)
Owners == SUBSET ({"log"} \cup Banks)

(* One state bank: the applied index and the stored records, a record      *)
(* being named by its payload.                                             *)
BankStates == [applied : 0 .. MaxIndex, recs : SUBSET Payloads]
EmptyBank == [applied |-> 0, recs |-> {}]

(* Artifacts are named by digest, so an artifact is its contents.          *)
Artifacts == [applied : Indexes, recs : SUBSET Payloads, payloads : SUBSET Payloads]

Jobs == {"idle", "clear_target", "copy", "adopt", "switch", "clear_old", "collect",
         "build_publish", "build_collect"}
Faults == {"none", "hydrate", "apply_owner", "reclaim_owner", "purge_owner",
           "snapshot_bytes", "open_artifact"}

VARIABLES
    clog,     \* the group's committed log: term, effect and resulting records
    rlog,     \* CF_RAFT_LOG: index -> term
    purged,   \* KEY_PURGED
    bytes,    \* payload bytes present in CF_PAYLOAD
    owners,   \* ownership records in CF_PAYLOAD
    bank,     \* ls_v2_state_a and ls_v2_state_b
    active,   \* KEY_ACTIVE_STATE_BANK
    current,  \* KEY_CURRENT_SNAPSHOT
    files,    \* complete artifacts under snapshots/objects
    job,      \* the operation holding the write lane, and its next batch
    art,      \* the artifact that operation installs or builds
    fault     \* the storage error an operation returned

store == <<rlog, purged, bytes, owners, bank, active>>
snap == <<current, files, job, art>>
vars == <<clog, store, snap, fault>>

-----------------------------------------------------------------------------
Applied == bank[active].applied

(* The records after the first i committed entries.                        *)
RecsAt(i) == IF i = 0 THEN {} ELSE clog[i].recs

Committed(i, t) == i <= Len(clog) /\ clog[i].term = t

(* get_log_state: index i follows the last log id.                         *)
IsNextIndex(i) ==
    /\ i - 1 \in DOMAIN rlog \cup {purged}
    /\ \A j \in DOMAIN rlog \cup {purged} : j < i

(* The local log agrees with the committed log below index i.              *)
MatchesBelow(i) == \A j \in DOMAIN rlog : j < i => Committed(j, rlog[j])

CommittedEntries ==
    [term : Terms, puts : SUBSET Payloads, drops : SUBSET Payloads, recs : SUBSET Payloads]

TypeOK ==
    /\ clog \in Seq(CommittedEntries) /\ Len(clog) <= MaxIndex
    /\ DOMAIN rlog \subseteq Indexes /\ \A i \in DOMAIN rlog : rlog[i] \in Terms
    /\ purged \in 0 .. MaxIndex
    /\ bytes \subseteq Payloads
    /\ owners \in [Payloads -> Owners]
    /\ bank \in [Banks -> BankStates]
    /\ active \in Banks
    /\ current \in Artifacts \cup {NoArtifact}
    /\ files \subseteq Artifacts
    /\ job \in Jobs
    /\ art \in Artifacts \cup {NoArtifact}
    /\ fault \in Faults

Init ==
    /\ clog = <<>> /\ rlog = [i \in {} |-> 0] /\ purged = 0
    /\ bytes = {} /\ owners = [k \in Payloads |-> {}]
    /\ bank = [b \in Banks |-> EmptyBank] /\ active = "A"
    /\ current = NoArtifact /\ files = {} /\ job = "idle" /\ art = NoArtifact
    /\ fault = "none"

LaneFree == job = "idle" /\ fault = "none"

-----------------------------------------------------------------------------
(* Payload ownership.                                                      *)

(* A bug that lets the log's payload bytes survive their last owner.       *)
Disown_KeepsBytes(ks, o) ==
    /\ owners' = [k \in Payloads |-> IF k \in ks THEN owners[k] \ {o} ELSE owners[k]]
    /\ bytes' = IF o = "log" THEN bytes ELSE bytes \ {k \in ks : owners[k] \subseteq {o}}

(* Every payload in ks loses owner o; what no owner reaches is deleted.    *)
Disown(ks, o) ==
    /\ owners' = [k \in Payloads |-> IF k \in ks THEN owners[k] \ {o} ELSE owners[k]]
    /\ bytes' = bytes \ {k \in ks : owners[k] \subseteq {o}}

(* An operation returned an io::Error; openraft stops the group.           *)
Fail(f) == fault' = f /\ UNCHANGED <<clog, store, snap>>

-----------------------------------------------------------------------------
(* The group, as Raft presents it to this replica.                         *)

(* The rest of the group commits an entry.  Log matching and leader        *)
(* completeness: a local entry at that index is this one, or it and what   *)
(* follows it are of older terms.                                          *)
Commit(t, puts, drops) ==
    LET i == Len(clog) + 1 IN
    /\ fault = "none" /\ i \in Indexes
    /\ \A j \in 1 .. Len(clog) : clog[j].term <= t
    /\ puts \subseteq PayloadsOf(t, i) /\ drops \subseteq RecsAt(Len(clog))
    /\ drops = {} \/ PayloadsOf(t, i) = {}
    /\ i \in DOMAIN rlog => \/ rlog[i] = t /\ MatchesBelow(i)
                            \/ \A j \in DOMAIN rlog : j >= i => rlog[j] < t
    /\ clog' = Append(clog, [term |-> t, puts |-> puts, drops |-> drops,
                             recs |-> (RecsAt(Len(clog)) \cup puts) \ drops])
    /\ UNCHANGED <<store, snap, fault>>

(* The entries openraft may append: the next index, of a term no older     *)
(* than the local log's; a committed entry only on a matching prefix.      *)
MayAppend(t, i) ==
    /\ IsNextIndex(i) /\ Applied < i
    /\ \A j \in DOMAIN rlog : rlog[j] <= t
    /\ i <= Len(clog) => \/ t < clog[i].term
                         \/ t = clog[i].term /\ MatchesBelow(i)

(* The entries openraft may truncate from index i on: none is committed.   *)
MayTruncate(i) == i > Applied /\ \A j \in DOMAIN rlog : j >= i => ~Committed(j, rlog[j])

(* Purging is allowed through the current snapshot.                        *)
MayPurge(i) == current # NoArtifact /\ i <= current.applied /\ i > purged

(* The snapshot a leader sends, of a prefix this replica has not applied.  *)
MayInstall(i) ==
    /\ Applied < i /\ i <= Len(clog)
    /\ i \in DOMAIN rlog => rlog[i] = clog[i].term

-----------------------------------------------------------------------------
(* Log storage.                                                            *)

(* append: bytes, ownership and the thin entry in one batch.  It writes    *)
(* the ownership record afresh, without reading the one that may exist.    *)
AppendLog(t, i) ==
    /\ LaneFree /\ i \in Indexes /\ MayAppend(t, i)
    /\ rlog' = [j \in DOMAIN rlog \cup {i} |-> IF j = i THEN t ELSE rlog[j]]
    /\ bytes' = bytes \cup PayloadsOf(t, i)
    /\ owners' = [k \in Payloads |-> IF k \in PayloadsOf(t, i) THEN {"log"} ELSE owners[k]]
    /\ UNCHANGED <<clog, purged, bank, active, snap, fault>>

(* remove_log_range, for the entries at the indexes in range.              *)
RemoveLogRange(range) ==
    LET keys == UNION {PayloadsOf(rlog[j], j) : j \in range} IN
    IF \E k \in keys : owners[k] = {}
    THEN Fail("purge_owner")
    ELSE /\ Disown(keys, "log")
         /\ rlog' = [j \in DOMAIN rlog \ range |-> rlog[j]]
         /\ UNCHANGED <<clog, bank, active, snap, fault>>

TruncateAfter(i) ==
    /\ LaneFree /\ i \in DOMAIN rlog /\ MayTruncate(i)
    /\ RemoveLogRange({j \in DOMAIN rlog : j >= i})
    /\ UNCHANGED purged

Purge(i) ==
    /\ LaneFree /\ MayPurge(i)
    /\ RemoveLogRange({j \in DOMAIN rlog : j <= i})
    /\ purged' = IF fault' = "none" THEN i ELSE purged

-----------------------------------------------------------------------------
(* Applying the next committed entry: the log reader hydrates it with its  *)
(* payload bytes, then one batch writes the state rows and the ownership   *)
(* changes.                                                                *)

Hydrated(t, i) == PayloadsOf(t, i) \subseteq bytes

ApplyEntry ==
    LET i == Applied + 1
        e == clog[i] IN
    /\ LaneFree /\ i \in DOMAIN rlog /\ Committed(i, rlog[i])
    /\ IF ~Hydrated(rlog[i], i) THEN Fail("hydrate")
       ELSE IF \E k \in e.puts : owners[k] = {} THEN Fail("apply_owner")
       ELSE IF \E k \in bank[active].recs \cap e.drops : owners[k] = {} THEN Fail("reclaim_owner")
       ELSE /\ bank' = [bank EXCEPT ![active] =
                            [applied |-> i, recs |-> (@.recs \cup e.puts) \ e.drops]]
            /\ IF e.puts # {}
               THEN /\ owners' = [k \in Payloads |->
                                    IF k \in e.puts THEN owners[k] \cup {active} ELSE owners[k]]
                    /\ UNCHANGED bytes
               ELSE Disown(bank[active].recs \cap e.drops, active)
            /\ UNCHANGED <<clog, rlog, purged, active, snap, fault>>

-----------------------------------------------------------------------------
(* Building a snapshot: the artifact file, its descriptor, the cleanup.    *)

OwnedBy(b) == {k \in Payloads : b \in owners[k]}

(* A bug that copies every stored payload, applied or not.                 *)
FinishArtifact_AnyOwner ==
    LET a == [applied |-> Applied, recs |-> bank[active].recs,
              payloads |-> {k \in Payloads : owners[k] # {}}] IN
    /\ LaneFree /\ Applied > 0
    /\ files' = files \cup {a} /\ art' = a /\ job' = "build_publish"
    /\ UNCHANGED <<clog, store, current, fault>>

FinishArtifact ==
    LET a == [applied |-> Applied, recs |-> bank[active].recs, payloads |-> OwnedBy(active)] IN
    /\ LaneFree /\ Applied > 0
    /\ IF ~(OwnedBy(active) \subseteq bytes) THEN Fail("snapshot_bytes")
       ELSE /\ files' = files \cup {a} /\ art' = a /\ job' = "build_publish"
            /\ UNCHANGED <<clog, store, current, fault>>

PublishArtifact ==
    /\ job = "build_publish"
    /\ current' = art /\ job' = "build_collect"
    /\ UNCHANGED <<clog, store, files, art, fault>>

(* collect_except: removing an old artifact may fail, which is logged.     *)
CollectArtifacts ==
    /\ job \in {"build_collect", "collect"}
    /\ \E kept \in SUBSET files : files' = kept \cup {art}
    /\ job' = "idle" /\ art' = NoArtifact
    /\ UNCHANGED <<clog, store, current, fault>>

-----------------------------------------------------------------------------
(* Installing a snapshot.                                                  *)

Target == Inactive(active)

Cleared(b, bk, ow) == bk = EmptyBank /\ \A k \in Payloads : b \notin ow[k]

(* A bug that trusts the inactive bank to be empty.                        *)
BeginInstall_NoClear(i) ==
    /\ LaneFree /\ MayInstall(i)
    /\ art' = [applied |-> i, recs |-> RecsAt(i), payloads |-> RecsAt(i)]
    /\ job' = "copy"
    /\ UNCHANGED <<clog, store, current, files, fault>>

(* The received artifact passes validation.                                *)
BeginInstall(i) ==
    /\ LaneFree /\ MayInstall(i)
    /\ art' = [applied |-> i, recs |-> RecsAt(i), payloads |-> RecsAt(i)]
    /\ job' = IF Cleared(Target, bank[Target], owners) THEN "copy" ELSE "clear_target"
    /\ UNCHANGED <<clog, store, current, files, fault>>

(* One batch of clear_state_bank: state rows first, then ownership bits.   *)
ClearRows(b, recs, applied) ==
    /\ bank[b] # EmptyBank
    /\ recs \subseteq bank[b].recs /\ applied \in {0, bank[b].applied}
    /\ bank' = [bank EXCEPT ![b] = [applied |-> applied, recs |-> recs]]
    /\ bank' # bank
    /\ UNCHANGED <<owners, bytes>>

ClearOwners(b, ks) ==
    /\ bank[b] = EmptyBank
    /\ ks # {} /\ ks \subseteq OwnedBy(b)
    /\ Disown(ks, b)
    /\ UNCHANGED bank

ClearBatch(b, next) ==
    /\ \/ \E recs \in SUBSET bank[b].recs, applied \in {0, bank[b].applied} :
              ClearRows(b, recs, applied)
       \/ \E ks \in SUBSET OwnedBy(b) : ClearOwners(b, ks)
    /\ job' = IF Cleared(b, bank'[b], owners') THEN next ELSE job
    /\ UNCHANGED <<clog, rlog, purged, active, current, files, art, fault>>

ClearTarget == job = "clear_target" /\ ClearBatch(Target, "copy")

(* One batch of the copy: the artifact lists all state rows before the     *)
(* payloads.                                                               *)
CopyBatch(recs, applied, ks) ==
    LET new == [applied |-> applied, recs |-> bank[Target].recs \cup recs]
        done == applied = art.applied /\ art.recs \subseteq new.recs IN
    /\ recs \subseteq art.recs \ bank[Target].recs
    /\ applied \in {bank[Target].applied, art.applied}
    /\ ks \subseteq art.payloads \ OwnedBy(Target)
    /\ ks # {} => done
    /\ bank' = [bank EXCEPT ![Target] = new]
    /\ bytes' = bytes \cup ks
    /\ owners' = [k \in Payloads |-> IF k \in ks THEN owners[k] \cup {Target} ELSE owners[k]]
    /\ job' = IF done /\ art.payloads \subseteq ks \cup OwnedBy(Target) THEN "adopt" ELSE job
    /\ <<bank, owners, job>>' # <<bank, owners, job>>
    /\ UNCHANGED <<clog, rlog, purged, active, current, files, art, fault>>

CopySnapshot ==
    /\ job = "copy"
    /\ \E recs \in SUBSET art.recs, ks \in SUBSET art.payloads,
          applied \in {bank[Target].applied, art.applied} : CopyBatch(recs, applied, ks)

(* A bug that publishes a descriptor without keeping the artifact.         *)
AdoptArtifact_NotStored ==
    /\ job = "adopt"
    /\ job' = "switch"
    /\ UNCHANGED <<clog, store, current, files, art, fault>>

AdoptArtifact ==
    /\ job = "adopt"
    /\ files' = files \cup {art} /\ job' = "switch"
    /\ UNCHANGED <<clog, store, current, art, fault>>

(* The one batch that publishes the new bank and the snapshot descriptor.  *)
SwitchBank ==
    /\ job = "switch"
    /\ current' = art /\ active' = Target
    /\ job' = IF Cleared(active, bank[active], owners) THEN "collect" ELSE "clear_old"
    /\ UNCHANGED <<clog, rlog, purged, bytes, owners, bank, files, art, fault>>

ClearOld == job = "clear_old" /\ ClearBatch(Inactive(active), "collect")

-----------------------------------------------------------------------------
(* A crash between any two batches, and open_store: the active bank is     *)
(* read back and the current artifact must open.                           *)
CrashAndOpen ==
    /\ fault = "none"
    /\ job' = "idle" /\ art' = NoArtifact
    /\ fault' = IF current # NoArtifact /\ current \notin files THEN "open_artifact" ELSE fault
    /\ UNCHANGED <<clog, store, current, files>>

Next ==
    \/ \E t \in Terms, drops \in SUBSET RecsAt(Len(clog)) :
           \E puts \in SUBSET PayloadsOf(t, Len(clog) + 1) : Commit(t, puts, drops)
    \/ \E t \in Terms, i \in Indexes : AppendLog(t, i)
    \/ \E i \in Indexes : TruncateAfter(i)
    \/ \E i \in Indexes : Purge(i)
    \/ ApplyEntry
    \/ FinishArtifact
    \/ PublishArtifact
    \/ CollectArtifacts
    \/ \E i \in Indexes : BeginInstall(i)
    \/ ClearTarget
    \/ CopySnapshot
    \/ AdoptArtifact
    \/ SwitchBank
    \/ ClearOld
    \/ CrashAndOpen

Spec == Init /\ [][Next]_vars

-----------------------------------------------------------------------------
(* Properties.                                                             *)

(* No interleaving of log writes, application, snapshots and crashes leads *)
(* a storage operation to one of its error returns: "missing payload       *)
(* ownership record", "applied entry payload is missing ownership",        *)
(* "retained record payload is missing ownership", "snapshot payload bytes *)
(* are missing", a payload gone when the log reader hydrates an entry, or  *)
(* an open that cannot find the current snapshot's artifact.               *)
NoStorageFault == fault = "none"

(* What fetch relies on: every committed record of the active bank has its *)
(* payload bytes, owned by that bank, after any purge, truncation,         *)
(* reclamation, snapshot installation or crash.                            *)
CommittedRecordsReadable ==
    \A k \in bank[active].recs : k \in bytes /\ active \in owners[k]

(* The log half of payload sharing: every entry still in the Raft log can  *)
(* be hydrated, so that it can be applied or sent to a follower.           *)
LogEntriesReadable ==
    \A i \in DOMAIN rlog : \A k \in PayloadsOf(rlog[i], i) : k \in bytes /\ "log" \in owners[k]

(* The active bank is always the state of a committed prefix: a crash in   *)
(* the middle of an installation, or rows left over from an earlier one,   *)
(* never show.                                                             *)
ActiveBankIsCommittedPrefix ==
    Applied <= Len(clog) /\ bank[active].recs = RecsAt(Applied)

(* KEY_CURRENT_SNAPSHOT always names an artifact that exists and is        *)
(* complete: the rows of a committed prefix and exactly their payloads, so *)
(* that purging the log below it loses nothing.                            *)
CurrentSnapshotIsComplete ==
    current # NoArtifact =>
        /\ current \in files
        /\ current.applied <= Applied
        /\ current.recs = RecsAt(current.applied)
        /\ current.payloads = current.recs

(* Payload bytes are stored exactly while some owner reaches them, and an  *)
(* owner is recorded exactly for the entries in the log and the records of *)
(* the active bank.  Only the inactive bank may hold payloads that nothing *)
(* refers to, left there by a crash during an installation; the next       *)
(* installation frees them.                                                *)
PayloadsAccountedFor ==
    /\ \A k \in Payloads : k \in bytes <=> owners[k] # {}
    /\ \A k \in Payloads : "log" \in owners[k] <=>
           \E i \in DOMAIN rlog : k \in PayloadsOf(rlog[i], i)
    /\ OwnedBy(active) = bank[active].recs
    /\ job = "collect" => OwnedBy(Target) = {} /\ bank[Target] = EmptyBank

(* A replica never moves back to an older state, whatever it installs and  *)
(* wherever it crashes.                                                    *)
AppliedNeverRegresses == [][Applied' >= Applied]_vars
=============================================================================
