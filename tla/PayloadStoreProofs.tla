------------------------- MODULE PayloadStoreProofs -------------------------
(***************************************************************************)
(* Proofs about the replica's store: type correctness and the safety of    *)
(* payload sharing, bank switching and snapshot publication, for every     *)
(* number of terms, indexes and payload slots.  The second part is about   *)
(* the transfer of the snapshots it publishes to another replica.          *)
(***************************************************************************)
EXTENDS PayloadStore, SnapshotTransfer, TLAPS

-----------------------------------------------------------------------------
(* The inductive invariant.                                                *)

(* Committed entries: what they add and remove, and the records they leave *)
(* were carried by entries no later than themselves.                       *)
ClogOK ==
    \A j \in 1 .. Len(clog) :
        /\ clog[j].puts \subseteq PayloadsOf(clog[j].term, j)
        /\ clog[j].drops = {} \/ PayloadsOf(clog[j].term, j) = {}
        /\ clog[j].recs = (RecsAt(j - 1) \cup clog[j].puts) \ clog[j].drops
        /\ \A k \in clog[j].recs : k[2] <= j

(* Bytes exist exactly while owned; the log and the active bank own what   *)
(* they refer to and nothing else.                                         *)
OwnersOK ==
    /\ \A k \in Payloads : k \in bytes <=> owners[k] # {}
    /\ \A k \in Payloads : "log" \in owners[k] <=>
           \E i \in DOMAIN rlog : k \in PayloadsOf(rlog[i], i)
    /\ \A k \in Payloads : active \in owners[k] <=> k \in bank[active].recs

(* An artifact holds a committed prefix and exactly its payloads.          *)
Complete(a) ==
    /\ a \in Artifacts /\ a.applied <= Len(clog)
    /\ a.recs = RecsAt(a.applied) /\ a.payloads = a.recs

CurrentOK ==
    current # NoArtifact => Complete(current) /\ current \in files /\ current.applied <= Applied

(* How far the operation holding the lane has come.                        *)
JobOK ==
    /\ job # "idle" => Complete(art)
    /\ job \in {"clear_target", "copy", "adopt", "switch"} => art.applied > Applied
    /\ job = "copy" =>
           /\ bank[Target].recs \subseteq art.recs
           /\ \A k \in Payloads : Target \in owners[k] => k \in art.payloads
    /\ job \in {"adopt", "switch"} =>
           /\ bank[Target] = [applied |-> art.applied, recs |-> art.recs]
           /\ \A k \in Payloads : Target \in owners[k] <=> k \in art.payloads
    /\ job \in {"switch", "build_publish"} => art \in files
    /\ job = "build_publish" => art.applied <= Applied
    /\ job \in {"clear_old", "collect", "build_collect"} => current = art
    /\ job = "collect" => Cleared(Target, bank[Target], owners)

IInv ==
    /\ TypeOK
    /\ ClogOK
    /\ OwnersOK
    /\ ActiveBankIsCommittedPrefix
    /\ CurrentOK
    /\ JobOK
    /\ NoStorageFault

-----------------------------------------------------------------------------
(* Lemmas about the operators the model is built from.                     *)

(* A payload of an entry is named by that entry's term and index.          *)
LEMMA PayloadsOfEntry ==
    ASSUME NEW t, NEW i, NEW k \in PayloadsOf(t, i)
    PROVE  k \in Payloads /\ k[1] = t /\ k[2] = i
<1>1. <<t, i>> \in PublishIds BY DEF PayloadsOf
<1>2. t \in Terms /\ i \in Indexes
  BY <1>1, PayloadStoreAssumption DEF Indexes
<1>3. PICK s \in Slots : k = <<t, i, s>> BY <1>1 DEF PayloadsOf
<1> QED BY <1>2, <1>3 DEF Payloads

(* The two banks and the log are three different owners.                   *)
LEMMA OwnersDiffer ==
    ASSUME TypeOK
    PROVE  /\ active \in Banks /\ Target \in Banks /\ Target # active
           /\ active # "log" /\ Target # "log" /\ Inactive(Target) = active
BY DEF TypeOK, Target, Inactive, Banks

(* The records after any committed prefix are payloads of that prefix.     *)
LEMMA RecsAtPrefix ==
    ASSUME TypeOK, ClogOK, NEW i \in 0 .. Len(clog)
    PROVE  /\ RecsAt(i) \subseteq Payloads
           /\ \A k \in RecsAt(i) : k[2] <= i
<1>1. CASE i = 0 BY <1>1 DEF RecsAt
<1>2. CASE i # 0
  <2>1. i \in 1 .. Len(clog) /\ RecsAt(i) = clog[i].recs
    BY <1>2 DEF RecsAt, TypeOK
  <2>2. clog[i] \in CommittedEntries BY <2>1 DEF TypeOK
  <2> QED BY <2>1, <2>2 DEF ClogOK, CommittedEntries
<1> QED BY <1>1, <1>2

(* The applied index of the active bank is a number.                       *)
LEMMA AppliedType ==
    ASSUME TypeOK
    PROVE  /\ Applied \in 0 .. MaxIndex /\ Applied \in Nat
           /\ MaxIndex \in Nat /\ Len(clog) \in Nat
<1>1. bank[active] \in BankStates BY DEF TypeOK
<1> QED BY <1>1, PayloadStoreAssumption DEF Applied, BankStates, TypeOK

(* What depends on the committed log alone survives every other step.      *)
LEMMA ClogFrame ==
    ASSUME ClogOK, UNCHANGED clog
    PROVE  ClogOK'
BY DEF ClogOK, RecsAt

(* Taking owner o from the payloads in ks, all of which o owns, keeps      *)
(* bytes stored exactly while owned and leaves the other owners alone.     *)
LEMMA DisownFacts ==
    ASSUME TypeOK, NEW ks, NEW o, Disown(ks, o),
           \A k \in Payloads : k \in bytes <=> owners[k] # {}
    PROVE  /\ bytes' \subseteq Payloads
           /\ owners' \in [Payloads -> Owners]
           /\ \A k \in Payloads : k \in bytes' <=> owners'[k] # {}
           /\ \A k \in Payloads : o \in owners'[k] <=> o \in owners[k] /\ k \notin ks
           /\ \A k \in Payloads : \A p : p # o => (p \in owners'[k] <=> p \in owners[k])
<1>1. owners' = [k \in Payloads |-> IF k \in ks THEN owners[k] \ {o} ELSE owners[k]]
  BY DEF Disown
<1>2. \A k \in Payloads : owners[k] \in Owners BY DEF TypeOK
<1>3. owners' \in [Payloads -> Owners] BY <1>1, <1>2 DEF Owners
<1>4. bytes' = bytes \ {k \in ks : owners[k] \subseteq {o}} BY DEF Disown
<1>5. bytes' \subseteq Payloads BY <1>4 DEF TypeOK
<1>6. \A k \in Payloads : k \in bytes' <=> owners'[k] # {}
  BY <1>1, <1>4
<1> QED BY <1>1, <1>3, <1>5, <1>6

-----------------------------------------------------------------------------
(* The invariant holds initially, and one lemma per operation.             *)

(* A new store.                                                            *)
LEMMA InitInv ==
    Init => IInv
<1> SUFFICES ASSUME Init PROVE IInv OBVIOUS
<1> USE DEF Init
<1>1. EmptyBank \in BankStates
  BY PayloadStoreAssumption DEF EmptyBank, BankStates
<1>2. TypeOK
  BY <1>1, PayloadStoreAssumption DEF TypeOK, Owners, Banks, Jobs, Faults, CommittedEntries
<1>3. ClogOK BY DEF ClogOK
<1>4. OwnersOK BY DEF OwnersOK, EmptyBank, Banks
<1>5. ActiveBankIsCommittedPrefix
  BY DEF ActiveBankIsCommittedPrefix, Applied, EmptyBank, RecsAt, Banks
<1> QED BY <1>2, <1>3, <1>4, <1>5 DEF IInv, CurrentOK, JobOK, NoStorageFault

(* Commit: the group's log grows; every prefix this replica refers to is   *)
(* unchanged.                                                              *)
LEMMA CommitKeepsInv ==
    ASSUME IInv, NEW t \in Terms, NEW puts, NEW drops, Commit(t, puts, drops)
    PROVE  IInv'
<1> DEFINE n == Len(clog)
<1> DEFINE e == [term |-> t, puts |-> puts, drops |-> drops,
                 recs |-> (RecsAt(n) \cup puts) \ drops]
<1>0. /\ TypeOK /\ ClogOK /\ OwnersOK /\ ActiveBankIsCommittedPrefix /\ CurrentOK /\ JobOK
      /\ NoStorageFault
  BY DEF IInv
<1>1. /\ n \in Nat /\ n + 1 \in Indexes /\ clog' = Append(clog, e)
      /\ puts \subseteq PayloadsOf(t, n + 1) /\ drops \subseteq RecsAt(n)
      /\ (drops = {} \/ PayloadsOf(t, n + 1) = {})
      /\ UNCHANGED <<rlog, purged, bytes, owners, bank, active, current, files, job, art, fault>>
  BY <1>0 DEF Commit, store, snap, TypeOK
<1>2. RecsAt(n) \subseteq Payloads /\ \A k \in RecsAt(n) : k[2] <= n
  BY <1>0, <1>1, RecsAtPrefix
<1>3. puts \subseteq Payloads /\ \A k \in puts : k[2] = n + 1
  BY <1>1, PayloadsOfEntry
<1>4. e \in CommittedEntries BY <1>1, <1>2, <1>3 DEF CommittedEntries
<1>5. /\ Len(clog') = n + 1 /\ clog' \in Seq(CommittedEntries) /\ clog'[n + 1] = e
      /\ \A j \in 1 .. n : clog'[j] = clog[j]
  <2> HIDE DEF e
  <2> QED BY <1>0, <1>1, <1>4 DEF TypeOK
<1>6. \A j \in 0 .. n : RecsAt(j)' = RecsAt(j)
  BY <1>1, <1>5 DEF RecsAt
<1>7. TypeOK'
  BY <1>0, <1>1, <1>5, PayloadStoreAssumption DEF TypeOK, Indexes
<1>8. ClogOK'
  <2> SUFFICES ASSUME NEW j \in 1 .. n + 1
               PROVE  /\ clog'[j].puts \subseteq PayloadsOf(clog'[j].term, j)
                      /\ clog'[j].drops = {} \/ PayloadsOf(clog'[j].term, j) = {}
                      /\ clog'[j].recs = (RecsAt(j - 1)' \cup clog'[j].puts) \ clog'[j].drops
                      /\ \A k \in clog'[j].recs : k[2] <= j
    BY <1>5 DEF ClogOK, PayloadsOf
  <2>1. CASE j \in 1 .. n
    <3>1. clog'[j] = clog[j] /\ RecsAt(j - 1)' = RecsAt(j - 1)
      BY <1>1, <1>5, <1>6, <2>1
    <3> QED BY <1>0, <2>1, <3>1 DEF ClogOK
  <2>2. CASE j = n + 1
    <3>1. clog'[j] = e /\ RecsAt(j - 1)' = RecsAt(n)
      BY <1>1, <1>5, <1>6, <2>2
    <3>2. \A k \in RecsAt(n) \cup puts : k[2] <= n + 1
      <4>1. ASSUME NEW k \in RecsAt(n) PROVE k[2] <= n + 1
        <5>1. k \in Payloads /\ k[2] <= n BY <1>2, <4>1
        <5>2. k[2] \in Nat
          BY <5>1, PayloadStoreAssumption DEF Payloads, Indexes
        <5> QED BY <1>1, <5>1, <5>2
      <4>2. ASSUME NEW k \in puts PROVE k[2] <= n + 1 BY <1>1, <1>3, <4>2
      <4> QED BY <4>1, <4>2
    <3> QED BY <1>1, <2>2, <3>1, <3>2
  <2> QED BY <1>1, <2>1, <2>2
<1>9. OwnersOK' BY <1>0, <1>1 DEF OwnersOK, PayloadsOf
<1>10. Applied \in 0 .. n /\ Applied' = Applied
  BY <1>0, <1>1, AppliedType DEF ActiveBankIsCommittedPrefix, Applied
<1>11. ActiveBankIsCommittedPrefix'
  BY <1>0, <1>1, <1>5, <1>6, <1>10 DEF ActiveBankIsCommittedPrefix
<1>12. CurrentOK'
  <2> HIDE DEF e
  <2> SUFFICES ASSUME current # NoArtifact
               PROVE  Complete(current)' /\ current \in files /\ current.applied <= Applied
    BY <1>1, <1>10 DEF CurrentOK
  <2>1. /\ Complete(current) /\ current \in files /\ current.applied <= Applied
        /\ current.applied \in Indexes
    BY <1>0 DEF CurrentOK, Complete, Artifacts
  <2> QED BY <1>1, <1>5, <2>1 DEF Complete, RecsAt, Indexes
<1>13. JobOK'
  <2> HIDE DEF e
  <2>1. job # "idle" => Complete(art)'
    <3> SUFFICES ASSUME job # "idle" PROVE Complete(art)' OBVIOUS
    <3>1. Complete(art) /\ art.applied \in Indexes BY <1>0 DEF JobOK, Complete, Artifacts
    <3> QED BY <1>1, <1>5, <3>1 DEF Complete, RecsAt, Indexes
  <2>2. Target' = Target BY <1>1 DEF Target, Inactive
  <2> QED BY <1>0, <1>1, <1>10, <2>1, <2>2 DEF JobOK, Cleared
<1> QED
  BY <1>0, <1>1, <1>7, <1>8, <1>9, <1>11, <1>12, <1>13 DEF IInv, NoStorageFault

(* While no multi-batch operation is under way, the parts about snapshots  *)
(* survive every step that only lets the replica apply more.               *)
LEMMA IdleFrame ==
    ASSUME IInv, LaneFree, UNCHANGED <<clog, snap, fault>>,
           Applied' \in Nat, Applied <= Applied'
    PROVE  ClogOK' /\ CurrentOK' /\ JobOK' /\ NoStorageFault'
<1>1. ClogOK' BY ClogFrame DEF IInv
<1>2. JobOK' BY DEF LaneFree, JobOK, snap
<1>3. NoStorageFault' BY DEF IInv, NoStorageFault
<1>4. CurrentOK'
  <2> SUFFICES ASSUME current # NoArtifact
               PROVE  Complete(current)' /\ current \in files /\ current.applied <= Applied'
    BY DEF CurrentOK, snap
  <2>1. Complete(current) /\ current \in files /\ current.applied <= Applied
    BY DEF IInv, CurrentOK
  <2>2. Complete(current)' BY <2>1 DEF Complete, RecsAt, snap
  <2>3. current.applied \in Nat /\ Applied \in Nat
    BY <2>1, AppliedType, PayloadStoreAssumption DEF Complete, Artifacts, Indexes, IInv
  <2> QED BY <2>1, <2>2, <2>3
<1> QED BY <1>1, <1>2, <1>3, <1>4

(* append: the ownership records it overwrites belong to no applied record,*)
(* since applied records were carried by earlier entries.                  *)
LEMMA AppendLogKeepsInv ==
    ASSUME IInv, NEW t \in Terms, NEW i \in Indexes, AppendLog(t, i)
    PROVE  IInv'
<1> DEFINE new == PayloadsOf(t, i)
<1>0. /\ TypeOK /\ ClogOK /\ OwnersOK /\ ActiveBankIsCommittedPrefix /\ CurrentOK /\ JobOK
      /\ NoStorageFault
  BY DEF IInv
<1>1. /\ LaneFree /\ Applied < i
      /\ (\A j \in DOMAIN rlog : j < i)
      /\ rlog' = [j \in DOMAIN rlog \cup {i} |-> IF j = i THEN t ELSE rlog[j]]
      /\ bytes' = bytes \cup new
      /\ owners' = [k \in Payloads |-> IF k \in new THEN {"log"} ELSE owners[k]]
      /\ UNCHANGED <<clog, purged, bank, active, current, files, job, art, fault>>
  BY DEF AppendLog, MayAppend, IsNextIndex, snap
<1>2. i \in Nat /\ Applied \in Nat /\ Applied \in 0 .. Len(clog) /\ Applied' = Applied
  <2>1. Applied \in Nat /\ Len(clog) \in Nat /\ MaxIndex \in Nat BY <1>0, AppliedType
  <2>2. Applied <= Len(clog) BY <1>0 DEF ActiveBankIsCommittedPrefix
  <2>3. Applied' = Applied BY <1>1 DEF Applied
  <2> QED BY <2>1, <2>2, <2>3 DEF Indexes
<1>3. i \notin DOMAIN rlog BY <1>1, <1>2
<1>4. new \subseteq Payloads /\ \A k \in new : k[2] = i BY PayloadsOfEntry
<1>5. TypeOK'
  <2>1. DOMAIN rlog' \subseteq Indexes /\ \A j \in DOMAIN rlog' : rlog'[j] \in Terms
    BY <1>0, <1>1 DEF TypeOK
  <2>2. owners' \in [Payloads -> Owners]
    BY <1>0, <1>1 DEF TypeOK, Owners
  <2>3. bytes' \subseteq Payloads BY <1>0, <1>1, <1>4 DEF TypeOK
  <2> QED BY <1>0, <1>1, <2>1, <2>2, <2>3 DEF TypeOK
<1>6. OwnersOK'
  <2>1. \A k \in Payloads : k \in bytes' <=> owners'[k] # {}
    BY <1>0, <1>1 DEF OwnersOK
  <2>2. ASSUME NEW k \in Payloads
        PROVE  "log" \in owners'[k] <=> \E j \in DOMAIN rlog' : k \in PayloadsOf(rlog'[j], j)
    <3>1. CASE k \in new
      <4>1. i \in DOMAIN rlog' /\ rlog'[i] = t BY <1>1
      <4>2. "log" \in owners'[k] BY <1>1, <3>1
      <4> QED BY <3>1, <4>1, <4>2
    <3>2. CASE k \notin new
      <4>1. owners'[k] = owners[k] BY <1>1, <3>2
      <4>2. \A j \in DOMAIN rlog : j \in DOMAIN rlog' /\ rlog'[j] = rlog[j]
        BY <1>1, <1>3
      <4>3. \A j \in DOMAIN rlog' : (j = i /\ rlog'[j] = t) \/ j \in DOMAIN rlog
        BY <1>1
      <4> QED BY <1>0, <3>2, <4>1, <4>2, <4>3 DEF OwnersOK
    <3> QED BY <3>1, <3>2
  <2>3. \A k \in Payloads : active \in owners'[k] <=> k \in bank[active].recs
    <3>1. \A k \in bank[active].recs : k[2] <= Applied
      BY <1>0, <1>2, RecsAtPrefix DEF ActiveBankIsCommittedPrefix
    <3>2. \A k \in new : k \notin bank[active].recs BY <1>1, <1>2, <1>4, <3>1
    <3>3. active # "log" BY <1>0, OwnersDiffer
    <3> QED BY <1>0, <1>1, <3>2, <3>3 DEF OwnersOK
  <2> HIDE DEF new
  <2>4. \A k \in Payloads : active' \in owners'[k] <=> k \in bank'[active'].recs
    BY <1>1, <2>3
  <2> QED BY <2>1, <2>2, <2>4 DEF OwnersOK, PayloadsOf
<1>7. ActiveBankIsCommittedPrefix'
  BY <1>0, <1>1, <1>2 DEF ActiveBankIsCommittedPrefix, RecsAt
<1>8. ClogOK' /\ CurrentOK' /\ JobOK' /\ NoStorageFault'
  BY <1>1, <1>2, IdleFrame DEF snap
<1> QED BY <1>5, <1>6, <1>7, <1>8 DEF IInv

(* remove_log_range: the removed entries' payloads are all owned by the    *)
(* log, and no remaining entry shares them.                                *)
LEMMA RemoveLogRangeKeepsInv ==
    ASSUME IInv, LaneFree, NEW range \in SUBSET DOMAIN rlog, RemoveLogRange(range),
           purged' \in 0 .. MaxIndex
    PROVE  IInv'
<1> DEFINE keys == UNION {PayloadsOf(rlog[j], j) : j \in range}
<1>0. /\ TypeOK /\ ClogOK /\ OwnersOK /\ ActiveBankIsCommittedPrefix /\ CurrentOK /\ JobOK
      /\ NoStorageFault
  BY DEF IInv
<1>1. keys \subseteq Payloads BY PayloadsOfEntry
<1>2. \A k \in keys : owners[k] # {} BY <1>0, <1>1 DEF OwnersOK
<1>3. /\ Disown(keys, "log")
      /\ rlog' = [j \in DOMAIN rlog \ range |-> rlog[j]]
      /\ UNCHANGED <<clog, bank, active, current, files, job, art, fault>>
  BY <1>2 DEF RemoveLogRange, snap
<1>4. \A k \in Payloads : k \in bytes <=> owners[k] # {} BY <1>0 DEF OwnersOK
<1>5. /\ bytes' \subseteq Payloads
      /\ owners' \in [Payloads -> Owners]
      /\ \A k \in Payloads : k \in bytes' <=> owners'[k] # {}
      /\ \A k \in Payloads : "log" \in owners'[k] <=> "log" \in owners[k] /\ k \notin keys
      /\ \A k \in Payloads : \A p : p # "log" => (p \in owners'[k] <=> p \in owners[k])
  <2> HIDE DEF keys
  <2> QED BY <1>0, <1>3, <1>4, DisownFacts
<1>6. TypeOK'
  <2>1. DOMAIN rlog' \subseteq Indexes /\ \A j \in DOMAIN rlog' : rlog'[j] \in Terms
    BY <1>0, <1>3 DEF TypeOK
  <2> QED BY <1>0, <1>3, <1>5, <2>1 DEF TypeOK
<1>7. OwnersOK'
  <2>1. ASSUME NEW k \in Payloads
        PROVE  "log" \in owners'[k] <=> \E j \in DOMAIN rlog' : k \in PayloadsOf(rlog'[j], j)
    <3>1. \A j \in DOMAIN rlog' : j \in DOMAIN rlog /\ j \notin range /\ rlog'[j] = rlog[j]
      BY <1>3
    <3>2. \A j \in DOMAIN rlog : j \notin range => j \in DOMAIN rlog' /\ rlog'[j] = rlog[j]
      BY <1>3
    <3>3. "log" \in owners[k] <=> \E j \in DOMAIN rlog : k \in PayloadsOf(rlog[j], j)
      BY <1>0 DEF OwnersOK
    <3>4. k \in keys <=> \E j \in range : k \in PayloadsOf(rlog[j], j) OBVIOUS
    <3>5. \A j, l : j # l => ~(k \in PayloadsOf(rlog[j], j) /\ k \in PayloadsOf(rlog[l], l))
      BY PayloadsOfEntry
    <3> HIDE DEF keys
    <3> QED BY <1>5, <3>1, <3>2, <3>3, <3>4, <3>5
  <2>2. active # "log" BY <1>0, OwnersDiffer
  <2>3. \A k \in Payloads : active' \in owners'[k] <=> k \in bank'[active'].recs
    BY <1>0, <1>3, <1>5, <2>2 DEF OwnersOK
  <2> QED BY <1>5, <2>1, <2>3 DEF OwnersOK, PayloadsOf
<1>8. Applied' = Applied /\ Applied \in Nat BY <1>0, <1>3, AppliedType DEF Applied
<1>9. ActiveBankIsCommittedPrefix'
  BY <1>0, <1>3, <1>8 DEF ActiveBankIsCommittedPrefix, RecsAt
<1>10. ClogOK' /\ CurrentOK' /\ JobOK' /\ NoStorageFault'
  BY <1>3, <1>8, IdleFrame DEF snap
<1> QED BY <1>6, <1>7, <1>9, <1>10 DEF IInv

(* truncate_after and purge are remove_log_range over two ranges.          *)
LEMMA TruncateAndPurgeKeepInv ==
    ASSUME IInv, NEW i \in Indexes, TruncateAfter(i) \/ Purge(i)
    PROVE  IInv'
<1>1. TypeOK /\ MaxIndex \in Nat BY PayloadStoreAssumption DEF IInv
<1>2. purged' \in 0 .. MaxIndex
  BY <1>1 DEF TruncateAfter, Purge, TypeOK, Indexes
<1>3. CASE TruncateAfter(i)
  <2> DEFINE range == {j \in DOMAIN rlog : j >= i}
  <2>1. LaneFree /\ RemoveLogRange(range) BY <1>3 DEF TruncateAfter
  <2>2. range \in SUBSET DOMAIN rlog OBVIOUS
  <2> HIDE DEF range
  <2> QED BY <1>2, <2>1, <2>2, RemoveLogRangeKeepsInv
<1>4. CASE Purge(i)
  <2> DEFINE range == {j \in DOMAIN rlog : j <= i}
  <2>1. LaneFree /\ RemoveLogRange(range) BY <1>4 DEF Purge
  <2>2. range \in SUBSET DOMAIN rlog OBVIOUS
  <2> HIDE DEF range
  <2> QED BY <1>2, <2>1, <2>2, RemoveLogRangeKeepsInv
<1> QED BY <1>3, <1>4

(* Applying an entry: its payloads are owned by the log, so they hydrate   *)
(* and can be shared; what it reclaims is owned by the active bank.        *)
LEMMA ApplyEntryKeepsInv ==
    ASSUME IInv, ApplyEntry
    PROVE  IInv'
<1> DEFINE i == Applied + 1
<1> DEFINE e == clog[i]
<1> DEFINE lost == bank[active].recs \cap e.drops
<1>0. /\ TypeOK /\ ClogOK /\ OwnersOK /\ ActiveBankIsCommittedPrefix /\ CurrentOK /\ JobOK
      /\ NoStorageFault
  BY DEF IInv
<1>1. LaneFree /\ i \in DOMAIN rlog /\ Committed(i, rlog[i]) BY DEF ApplyEntry
<1>2. /\ Applied \in Nat /\ i \in Nat /\ Len(clog) \in Nat /\ i <= Len(clog)
      /\ i \in Indexes /\ i \in 1 .. Len(clog) /\ rlog[i] = e.term
  <2>1. Applied \in Nat /\ Len(clog) \in Nat BY <1>0, AppliedType
  <2>2. i \in Indexes BY <1>0, <1>1 DEF TypeOK
  <2>3. i <= Len(clog) /\ rlog[i] = e.term BY <1>1 DEF Committed
  <2> QED BY <2>1, <2>2, <2>3
<1>3. /\ e.puts \subseteq PayloadsOf(e.term, i)
      /\ (e.drops = {} \/ PayloadsOf(e.term, i) = {})
      /\ e.recs = (RecsAt(i - 1) \cup e.puts) \ e.drops
  BY <1>0, <1>2 DEF ClogOK
<1>4. bank[active].recs = RecsAt(i - 1)
  <2>1. i - 1 = Applied BY <1>2
  <2> QED BY <1>0, <2>1 DEF ActiveBankIsCommittedPrefix
<1>5. \A k \in PayloadsOf(e.term, i) : k \in Payloads /\ "log" \in owners[k] /\ k \in bytes
  <2> SUFFICES ASSUME NEW k \in PayloadsOf(e.term, i)
               PROVE  k \in Payloads /\ "log" \in owners[k] /\ k \in bytes
    OBVIOUS
  <2>1. k \in Payloads BY PayloadsOfEntry
  <2>2. "log" \in owners[k] BY <1>0, <1>1, <1>2, <2>1 DEF OwnersOK
  <2> QED BY <1>0, <2>1, <2>2 DEF OwnersOK
<1>6. bank[active].recs \subseteq Payloads
  <2>1. bank[active] \in BankStates BY <1>0 DEF TypeOK
  <2> QED BY <2>1 DEF BankStates
<1>7. \A k \in lost : k \in Payloads /\ active \in owners[k]
  BY <1>0, <1>6 DEF OwnersOK
<1>8. /\ bank' = [bank EXCEPT ![active] =
                     [applied |-> i, recs |-> (@.recs \cup e.puts) \ e.drops]]
      /\ IF e.puts # {}
         THEN /\ owners' = [k \in Payloads |->
                              IF k \in e.puts THEN owners[k] \cup {active} ELSE owners[k]]
              /\ UNCHANGED bytes
         ELSE Disown(lost, active)
      /\ UNCHANGED <<clog, rlog, purged, active, current, files, job, art, fault>>
  <2>1. Hydrated(rlog[i], i) BY <1>2, <1>5 DEF Hydrated
  <2>2. ~\E k \in e.puts : owners[k] = {} BY <1>3, <1>5
  <2>3. ~\E k \in lost : owners[k] = {} BY <1>7
  <2> QED BY <2>1, <2>2, <2>3 DEF ApplyEntry, snap
<1>9. /\ bank'[active] = [applied |-> i, recs |-> (RecsAt(i - 1) \cup e.puts) \ e.drops]
      /\ bank'[active].recs = e.recs /\ bank'[active].applied = i
      /\ bank' \in [Banks -> BankStates]
  <2>1. bank \in [Banks -> BankStates] /\ active \in Banks BY <1>0 DEF TypeOK
  <2>2. [applied |-> i, recs |-> (RecsAt(i - 1) \cup e.puts) \ e.drops] \in BankStates
    BY <1>2, <1>3, <1>4, <1>5, <1>6 DEF BankStates, Indexes
  <2> HIDE DEF i, e, lost
  <2>3. bank'[active] = [applied |-> i, recs |-> (RecsAt(i - 1) \cup e.puts) \ e.drops]
    BY <1>4, <1>8, <2>1
  <2>4. bank' = [bank EXCEPT ![active] =
                     [applied |-> i, recs |-> (RecsAt(i - 1) \cup e.puts) \ e.drops]]
    BY <1>4, <1>8
  <2> QED BY <1>3, <2>1, <2>2, <2>3, <2>4
<1>10. \A k \in Payloads : k \in bytes <=> owners[k] # {} BY <1>0 DEF OwnersOK
<1>11. active # "log" /\ active \in Banks BY <1>0, OwnersDiffer
<1>12. /\ bytes' \subseteq Payloads /\ owners' \in [Payloads -> Owners]
       /\ \A k \in Payloads : k \in bytes' <=> owners'[k] # {}
       /\ \A k \in Payloads : "log" \in owners'[k] <=> "log" \in owners[k]
       /\ \A k \in Payloads : active \in owners'[k] <=> k \in e.recs
  <2>1. CASE e.puts # {}
    <3>1. /\ UNCHANGED bytes
          /\ owners' = [k \in Payloads |->
                          IF k \in e.puts THEN owners[k] \cup {active} ELSE owners[k]]
      BY <1>8, <2>1
    <3>2. e.recs = bank[active].recs \cup e.puts
      <4>1. e.drops = {} BY <1>3, <2>1
      <4> QED BY <1>3, <1>4, <4>1
    <3>3. \A k \in e.puts : k \in bytes BY <1>3, <1>5
    <3>4. bytes' \subseteq Payloads BY <1>0, <3>1 DEF TypeOK
    <3>5. \A k \in Payloads : owners[k] \in Owners BY <1>0 DEF TypeOK
    <3> HIDE DEF i, e, lost
    <3>6. owners' \in [Payloads -> Owners] BY <1>11, <3>1, <3>5 DEF Owners
    <3>7. \A k \in Payloads : k \in bytes' <=> owners'[k] # {} BY <1>10, <3>1, <3>3
    <3>8. \A k \in Payloads : "log" \in owners'[k] <=> "log" \in owners[k]
      BY <1>11, <3>1
    <3>9. \A k \in Payloads : active \in owners'[k] <=> k \in e.recs
      BY <1>0, <3>1, <3>2 DEF OwnersOK
    <3> QED BY <3>4, <3>6, <3>7, <3>8, <3>9
  <2>2. CASE e.puts = {}
    <3>1. e.recs = bank[active].recs \ lost BY <1>3, <1>4, <2>2
    <3> HIDE DEF i, e, lost
    <3>2. Disown(lost, active) BY <1>8, <2>2
    <3>3. /\ bytes' \subseteq Payloads
          /\ owners' \in [Payloads -> Owners]
          /\ \A k \in Payloads : k \in bytes' <=> owners'[k] # {}
          /\ \A k \in Payloads : active \in owners'[k] <=> active \in owners[k] /\ k \notin lost
          /\ \A k \in Payloads : \A p : p # active => (p \in owners'[k] <=> p \in owners[k])
      BY <1>0, <1>10, <3>2, DisownFacts
    <3>4. \A k \in Payloads : active \in owners'[k] <=> k \in e.recs
      BY <1>0, <3>1, <3>3 DEF OwnersOK
    <3> QED BY <1>11, <3>3, <3>4
  <2> QED BY <2>1, <2>2
<1> HIDE DEF i, e, lost
<1>13. TypeOK' BY <1>0, <1>8, <1>9, <1>12 DEF TypeOK
<1>14. OwnersOK'
  <2>1. \A k \in Payloads : active' \in owners'[k] <=> k \in bank'[active'].recs
    BY <1>8, <1>9, <1>12
  <2>2. \A k \in Payloads : "log" \in owners'[k] <=>
            \E j \in DOMAIN rlog' : k \in PayloadsOf(rlog'[j], j)
    BY <1>0, <1>8, <1>12 DEF OwnersOK
  <2> QED BY <1>12, <2>1, <2>2 DEF OwnersOK, PayloadsOf
<1>15. Applied' = i /\ Applied' \in Nat /\ Applied <= Applied'
  BY <1>2, <1>8, <1>9 DEF Applied, i
<1>16. ActiveBankIsCommittedPrefix'
  BY <1>2, <1>8, <1>9, <1>15 DEF ActiveBankIsCommittedPrefix, RecsAt, e
<1>17. ClogOK' /\ CurrentOK' /\ JobOK' /\ NoStorageFault'
  BY <1>1, <1>8, <1>15, IdleFrame DEF snap
<1> QED BY <1>13, <1>14, <1>16, <1>17 DEF IInv

(* What does not concern snapshots survives a step that leaves the store   *)
(* and the committed log alone.                                            *)
LEMMA StoreFrame ==
    ASSUME IInv, UNCHANGED <<clog, store, fault>>
    PROVE  /\ ClogOK' /\ OwnersOK' /\ ActiveBankIsCommittedPrefix' /\ NoStorageFault'
           /\ Applied' = Applied /\ Target' = Target
<1>1. ClogOK' BY ClogFrame DEF IInv
<1>2. OwnersOK' BY DEF IInv, OwnersOK, store, PayloadsOf
<1>3. Applied' = Applied BY DEF Applied, store
<1>4. ActiveBankIsCommittedPrefix'
  BY <1>3 DEF IInv, ActiveBankIsCommittedPrefix, RecsAt, store
<1>5. Target' = Target BY DEF Target, Inactive, store
<1> QED BY <1>1, <1>2, <1>3, <1>4, <1>5 DEF IInv, NoStorageFault

(* Building: the artifact is the active bank and exactly the payloads that *)
(* bank owns.                                                              *)
LEMMA FinishArtifactKeepsInv ==
    ASSUME IInv, FinishArtifact
    PROVE  IInv'
<1> DEFINE a == [applied |-> Applied, recs |-> bank[active].recs, payloads |-> OwnedBy(active)]
<1>0. /\ TypeOK /\ ClogOK /\ OwnersOK /\ ActiveBankIsCommittedPrefix /\ CurrentOK /\ JobOK
      /\ NoStorageFault
  BY DEF IInv
<1>1. LaneFree /\ Applied > 0 BY DEF FinishArtifact
<1>2. bank[active].recs \subseteq Payloads
  <2>1. bank[active] \in BankStates BY <1>0 DEF TypeOK
  <2> QED BY <2>1 DEF BankStates
<1>3. OwnedBy(active) = bank[active].recs /\ OwnedBy(active) \subseteq bytes
  BY <1>0, <1>2 DEF OwnersOK, OwnedBy
<1>4. /\ files' = files \cup {a} /\ art' = a /\ job' = "build_publish"
      /\ UNCHANGED <<clog, store, current, fault>>
  BY <1>3 DEF FinishArtifact
<1>5. a \in Artifacts
  BY <1>0, <1>1, <1>2, <1>3, AppliedType DEF Artifacts, Indexes
<1>6. ClogOK' /\ OwnersOK' /\ ActiveBankIsCommittedPrefix' /\ NoStorageFault' /\ Applied' = Applied
  BY <1>4, StoreFrame
<1>7. TypeOK' 
  <2> HIDE DEF a
  <2> QED BY <1>0, <1>4, <1>5 DEF TypeOK, store, Jobs
<1>8. Complete(art)'
  <2>1. /\ a.applied = Applied /\ a.recs = RecsAt(Applied) /\ a.payloads = a.recs
        /\ Applied <= Len(clog)
    BY <1>0, <1>3 DEF ActiveBankIsCommittedPrefix
  <2> HIDE DEF a
  <2> QED BY <1>4, <1>5, <2>1 DEF Complete, RecsAt
<1>9. CurrentOK'
  <2> HIDE DEF a
  <2> QED BY <1>0, <1>4, <1>6 DEF CurrentOK, Complete, RecsAt
<1>10. JobOK'
  <2>1. art' \in files' /\ art'.applied <= Applied'
    BY <1>0, <1>4, <1>6, AppliedType
  <2> HIDE DEF a
  <2> QED BY <1>4, <1>8, <2>1 DEF JobOK
<1> QED BY <1>6, <1>7, <1>9, <1>10 DEF IInv

(* Publishing the descriptor, collecting old artifacts, and storing a      *)
(* received artifact.                                                      *)
LEMMA DescriptorStepsKeepInv ==
    ASSUME IInv, PublishArtifact \/ CollectArtifacts \/ AdoptArtifact
    PROVE  IInv'
<1>0. /\ TypeOK /\ ClogOK /\ OwnersOK /\ ActiveBankIsCommittedPrefix /\ CurrentOK /\ JobOK
      /\ NoStorageFault
  BY DEF IInv
<1>1. UNCHANGED <<clog, store, fault>>
  BY DEF PublishArtifact, CollectArtifacts, AdoptArtifact
<1>2. /\ ClogOK' /\ OwnersOK' /\ ActiveBankIsCommittedPrefix' /\ NoStorageFault'
      /\ Applied' = Applied /\ Target' = Target
  BY <1>1, StoreFrame
<1>3. job # "idle" /\ Complete(art) /\ art \in Artifacts
  BY <1>0 DEF JobOK, Complete, PublishArtifact, CollectArtifacts, AdoptArtifact
<1>4. CASE PublishArtifact
  <2>1. TypeOK' BY <1>0, <1>1, <1>4 DEF TypeOK, PublishArtifact, store, Jobs
  <2>2. CurrentOK'
    BY <1>0, <1>1, <1>2, <1>3, <1>4 DEF CurrentOK, JobOK, Complete, RecsAt, PublishArtifact
  <2>3. JobOK'
    BY <1>1, <1>3, <1>4 DEF JobOK, Complete, RecsAt, PublishArtifact
  <2> QED BY <1>2, <2>1, <2>2, <2>3 DEF IInv
<1>5. CASE CollectArtifacts
  <2>1. files' \subseteq files \cup {art} /\ art \in files' /\ job' = "idle"
        /\ art' = NoArtifact /\ current' = current /\ current = art
    BY <1>0, <1>5 DEF CollectArtifacts, JobOK
  <2>2. TypeOK' BY <1>0, <1>1, <1>3, <2>1 DEF TypeOK, store, Jobs
  <2>3. CurrentOK' BY <1>0, <1>1, <1>2, <2>1 DEF CurrentOK, Complete, RecsAt
  <2>4. JobOK' BY <2>1 DEF JobOK
  <2> QED BY <1>2, <2>2, <2>3, <2>4 DEF IInv
<1>6. CASE AdoptArtifact
  <2>1. TypeOK' BY <1>0, <1>1, <1>3, <1>6 DEF TypeOK, AdoptArtifact, store, Jobs
  <2>2. CurrentOK'
    BY <1>0, <1>1, <1>2, <1>6 DEF CurrentOK, Complete, RecsAt, AdoptArtifact
  <2>3. JobOK'
    <3>1. /\ job = "adopt" /\ job' = "switch" /\ art' = art /\ art \in files'
          /\ owners' = owners /\ bank' = bank
      BY <1>1, <1>6 DEF AdoptArtifact, store
    <3>2. Complete(art)' BY <1>1, <1>3, <3>1 DEF Complete, RecsAt
    <3> QED BY <1>0, <1>2, <3>1, <3>2 DEF JobOK
  <2> QED BY <1>2, <2>1, <2>2, <2>3 DEF IInv
<1> QED BY <1>4, <1>5, <1>6

(* Accepting a leader's snapshot changes nothing that is stored.           *)
LEMMA BeginInstallKeepsInv ==
    ASSUME IInv, NEW i \in Indexes, BeginInstall(i)
    PROVE  IInv'
<1> DEFINE a == [applied |-> i, recs |-> RecsAt(i), payloads |-> RecsAt(i)]
<1>0. /\ TypeOK /\ ClogOK /\ OwnersOK /\ ActiveBankIsCommittedPrefix /\ CurrentOK /\ JobOK
      /\ NoStorageFault
  BY DEF IInv
<1>1. /\ LaneFree /\ Applied < i /\ i <= Len(clog) /\ art' = a
      /\ job' = IF Cleared(Target, bank[Target], owners) THEN "copy" ELSE "clear_target"
      /\ UNCHANGED <<clog, store, current, files, fault>>
  BY DEF BeginInstall, MayInstall
<1>2. i \in 0 .. Len(clog)
  BY <1>0, <1>1, AppliedType DEF Indexes
<1>3. RecsAt(i) \subseteq Payloads BY <1>0, <1>2, RecsAtPrefix
<1>4. a \in Artifacts BY <1>3 DEF Artifacts
<1>5. /\ ClogOK' /\ OwnersOK' /\ ActiveBankIsCommittedPrefix' /\ NoStorageFault'
      /\ Applied' = Applied /\ Target' = Target
  BY <1>1, StoreFrame
<1>6. a.applied = i /\ a.recs = RecsAt(i) /\ a.payloads = RecsAt(i) OBVIOUS
<1> HIDE DEF a
<1>7. TypeOK' BY <1>0, <1>1, <1>4 DEF TypeOK, store, Jobs
<1>8. CurrentOK' BY <1>0, <1>1, <1>5 DEF CurrentOK, Complete, RecsAt
<1>9. JobOK'
  <2>1. Complete(art)' BY <1>1, <1>4, <1>6 DEF Complete, RecsAt
  <2>2. art'.applied > Applied' BY <1>0, <1>1, <1>5, <1>6
  <2>3. bank' = bank /\ owners' = owners BY <1>1 DEF store
  <2>4. CASE Cleared(Target, bank[Target], owners)
    <3>1. bank[Target].recs = {} /\ \A k \in Payloads : Target \notin owners[k]
      BY <2>4 DEF Cleared, EmptyBank
    <3> QED BY <1>1, <1>5, <2>1, <2>2, <2>3, <2>4, <3>1 DEF JobOK
  <2>5. CASE ~Cleared(Target, bank[Target], owners)
    BY <1>1, <2>1, <2>2, <2>5 DEF JobOK
  <2> QED BY <2>4, <2>5
<1> QED BY <1>5, <1>7, <1>8, <1>9 DEF IInv

(* A batch that touches only the rows and ownership bits of the inactive   *)
(* bank keeps what the log and the active bank rely on.                    *)
LEMMA InactiveBatch ==
    ASSUME IInv,
           UNCHANGED <<clog, rlog, purged, active, current, files, art, fault>>,
           job' \in Jobs,
           bank' \in [Banks -> BankStates], bank'[active] = bank[active],
           bytes' \subseteq Payloads, owners' \in [Payloads -> Owners],
           \A k \in Payloads : k \in bytes' <=> owners'[k] # {},
           \A k \in Payloads : \A p : p # Target => (p \in owners'[k] <=> p \in owners[k])
    PROVE  /\ TypeOK' /\ ClogOK' /\ OwnersOK' /\ ActiveBankIsCommittedPrefix' /\ CurrentOK'
           /\ NoStorageFault' /\ Applied' = Applied /\ Target' = Target
<1>0. /\ TypeOK /\ ClogOK /\ OwnersOK /\ ActiveBankIsCommittedPrefix /\ CurrentOK
      /\ NoStorageFault
  BY DEF IInv
<1>1. TypeOK' BY <1>0 DEF TypeOK
<1>2. ClogOK' BY <1>0, ClogFrame
<1>3. Target # active /\ Target # "log" BY <1>0, OwnersDiffer
<1>4. OwnersOK'
  <2>1. \A k \in Payloads : active' \in owners'[k] <=> k \in bank'[active'].recs
    BY <1>0, <1>3 DEF OwnersOK
  <2>2. \A k \in Payloads : "log" \in owners'[k] <=>
            \E j \in DOMAIN rlog' : k \in PayloadsOf(rlog'[j], j)
    BY <1>0, <1>3 DEF OwnersOK
  <2> QED BY <2>1, <2>2 DEF OwnersOK, PayloadsOf
<1>5. Applied' = Applied BY DEF Applied
<1>6. ActiveBankIsCommittedPrefix' BY <1>0, <1>5 DEF ActiveBankIsCommittedPrefix, RecsAt
<1>7. CurrentOK' BY <1>0, <1>5 DEF CurrentOK, Complete, RecsAt
<1>8. Target' = Target BY DEF Target, Inactive
<1> QED BY <1>0, <1>1, <1>2, <1>4, <1>5, <1>6, <1>7, <1>8 DEF NoStorageFault

(* clear_state_bank on the inactive bank, before a copy or after a switch. *)
LEMMA ClearBatchKeepsInv ==
    ASSUME IInv, ClearTarget \/ ClearOld
    PROVE  IInv'
<1>0. TypeOK /\ JobOK /\ OwnersOK BY DEF IInv
<1>1. PICK next \in {"copy", "collect"} :
        /\ ClearBatch(Target, next)
        /\ \/ job = "clear_target" /\ next = "copy"
           \/ job = "clear_old" /\ next = "collect"
  BY DEF ClearTarget, ClearOld, Target
<1>2. /\ job' = IF Cleared(Target, bank'[Target], owners') THEN next ELSE job
      /\ UNCHANGED <<clog, rlog, purged, active, current, files, art, fault>>
  BY <1>1 DEF ClearBatch
<1>3. Target \in Banks /\ Target # active /\ active \in Banks BY <1>0, OwnersDiffer
<1>4. bank \in [Banks -> BankStates] /\ owners \in [Payloads -> Owners] /\ bytes \subseteq Payloads
  BY <1>0 DEF TypeOK
<1>5. /\ bank' \in [Banks -> BankStates] /\ bank'[active] = bank[active]
      /\ bytes' \subseteq Payloads /\ owners' \in [Payloads -> Owners]
      /\ \A k \in Payloads : k \in bytes' <=> owners'[k] # {}
      /\ \A k \in Payloads : \A p : p # Target => (p \in owners'[k] <=> p \in owners[k])
  <2>1. ASSUME NEW recs, NEW at, ClearRows(Target, recs, at)
        PROVE  /\ bank' \in [Banks -> BankStates] /\ bank'[active] = bank[active]
               /\ UNCHANGED <<owners, bytes>>
    <3>1. bank[Target] \in BankStates BY <1>3, <1>4
    <3>2. [applied |-> at, recs |-> recs] \in BankStates
      BY <2>1, <3>1, PayloadStoreAssumption DEF ClearRows, BankStates
    <3>3. bank' = [bank EXCEPT ![Target] = [applied |-> at, recs |-> recs]]
      BY <2>1 DEF ClearRows
    <3>4. UNCHANGED <<owners, bytes>> BY <2>1 DEF ClearRows
    <3> QED BY <1>3, <1>4, <3>2, <3>3, <3>4
  <2>2. ASSUME NEW ks, ClearOwners(Target, ks)
        PROVE  Disown(ks, Target) /\ UNCHANGED bank
    BY <2>2 DEF ClearOwners
  <2>3. \/ \E recs, at : ClearRows(Target, recs, at)
        \/ \E ks : ClearOwners(Target, ks)
    BY <1>1 DEF ClearBatch
  <2>4. \A k \in Payloads : k \in bytes <=> owners[k] # {} BY <1>0 DEF OwnersOK
  <2>5. CASE \E recs, at : ClearRows(Target, recs, at)
    BY <1>4, <2>1, <2>4, <2>5
  <2>6. CASE \E ks : ClearOwners(Target, ks)
    <3>1. PICK ks : Disown(ks, Target) /\ UNCHANGED bank BY <2>2, <2>6
    <3>2. /\ bytes' \subseteq Payloads
          /\ owners' \in [Payloads -> Owners]
          /\ \A k \in Payloads : k \in bytes' <=> owners'[k] # {}
          /\ \A k \in Payloads : \A p : p # Target => (p \in owners'[k] <=> p \in owners[k])
      BY <1>0, <2>4, <3>1, DisownFacts
    <3> QED BY <1>4, <3>1, <3>2
  <2> QED BY <2>3, <2>5, <2>6
<1>6. job' \in Jobs BY <1>0, <1>1, <1>2 DEF TypeOK, Jobs
<1>7. /\ TypeOK' /\ ClogOK' /\ OwnersOK' /\ ActiveBankIsCommittedPrefix' /\ CurrentOK'
      /\ NoStorageFault' /\ Applied' = Applied /\ Target' = Target
  BY <1>2, <1>5, <1>6, InactiveBatch
<1>8. JobOK'
  <2>1. Complete(art)' BY <1>0, <1>1, <1>2 DEF JobOK, Complete, RecsAt
  <2>2. CASE job = "clear_target" /\ next = "copy"
    <3>1. art'.applied > Applied' BY <1>0, <1>2, <1>7, <2>2 DEF JobOK
    <3>2. CASE Cleared(Target, bank'[Target], owners')
      <4>1. bank'[Target].recs = {} /\ \A k \in Payloads : Target \notin owners'[k]
        BY <3>2 DEF Cleared, EmptyBank
      <4> QED BY <1>2, <1>7, <2>1, <2>2, <3>1, <3>2, <4>1 DEF JobOK
    <3>3. CASE ~Cleared(Target, bank'[Target], owners')
      BY <1>2, <2>1, <2>2, <3>1, <3>3 DEF JobOK
    <3> QED BY <3>2, <3>3
  <2>3. CASE job = "clear_old" /\ next = "collect"
    <3>1. current' = art' BY <1>0, <1>2, <2>3 DEF JobOK
    <3>2. CASE Cleared(Target, bank'[Target], owners')
      <4>1. Cleared(Target, bank[Target], owners)' BY <1>7, <3>2 DEF Cleared
      <4> QED BY <1>2, <2>1, <2>3, <3>1, <3>2, <4>1 DEF JobOK
    <3>3. CASE ~Cleared(Target, bank'[Target], owners')
      BY <1>2, <2>1, <2>3, <3>1, <3>3 DEF JobOK
    <3> QED BY <3>2, <3>3
  <2> QED BY <1>1, <2>2, <2>3
<1> QED BY <1>7, <1>8 DEF IInv

(* One batch of the copy writes rows and payloads of the artifact only.    *)
LEMMA CopySnapshotKeepsInv ==
    ASSUME IInv, CopySnapshot
    PROVE  IInv'
<1>0. TypeOK /\ JobOK /\ OwnersOK BY DEF IInv
<1>1. job = "copy" BY DEF CopySnapshot
<1>2. PICK recs, at, ks : CopyBatch(recs, at, ks) BY DEF CopySnapshot
<1> DEFINE new == [applied |-> at, recs |-> bank[Target].recs \cup recs]
<1> DEFINE done == at = art.applied /\ art.recs \subseteq new.recs
<1>3. /\ recs \subseteq art.recs \ bank[Target].recs
      /\ at \in {bank[Target].applied, art.applied}
      /\ ks \subseteq art.payloads \ OwnedBy(Target)
      /\ bank' = [bank EXCEPT ![Target] = new]
      /\ bytes' = bytes \cup ks
      /\ owners' = [k \in Payloads |-> IF k \in ks THEN owners[k] \cup {Target} ELSE owners[k]]
      /\ job' = IF done /\ art.payloads \subseteq ks \cup OwnedBy(Target) THEN "adopt" ELSE job
      /\ UNCHANGED <<clog, rlog, purged, active, current, files, art, fault>>
  BY <1>2 DEF CopyBatch
<1>4. Target \in Banks /\ Target # active /\ active \in Banks /\ Target # "log"
  BY <1>0, OwnersDiffer
<1>5. /\ Complete(art) /\ art \in Artifacts /\ art.applied > Applied
      /\ bank[Target].recs \subseteq art.recs
      /\ \A k \in Payloads : Target \in owners[k] => k \in art.payloads
  BY <1>0, <1>1 DEF JobOK, Complete
<1>6. /\ bank \in [Banks -> BankStates] /\ bank[Target] \in BankStates
      /\ owners \in [Payloads -> Owners] /\ bytes \subseteq Payloads
  BY <1>0, <1>4 DEF TypeOK
<1>7. art.recs \subseteq Payloads /\ art.payloads \subseteq Payloads /\ art.applied \in Indexes
  BY <1>5 DEF Artifacts
<1>8. new \in BankStates
  BY <1>3, <1>6, <1>7, PayloadStoreAssumption DEF BankStates, Indexes
<1>9. new.applied = at /\ new.recs = bank[Target].recs \cup recs OBVIOUS
<1> HIDE DEF new
<1>10. bank' \in [Banks -> BankStates] /\ bank'[active] = bank[active] /\ bank'[Target] = new
  BY <1>3, <1>4, <1>6, <1>8
<1>11. ks \subseteq Payloads /\ bytes' \subseteq Payloads BY <1>3, <1>6, <1>7
<1>12. owners' \in [Payloads -> Owners]
  <2>1. \A k \in Payloads : owners[k] \in Owners BY <1>6
  <2> QED BY <1>3, <1>4, <2>1 DEF Owners
<1>13. \A k \in Payloads : k \in bytes' <=> owners'[k] # {}
  BY <1>0, <1>3 DEF OwnersOK
<1>14. \A k \in Payloads : \A p : p # Target => (p \in owners'[k] <=> p \in owners[k])
  BY <1>3
<1>15. \A k \in Payloads : Target \in owners'[k] <=> k \in ks \cup OwnedBy(Target)
  BY <1>3 DEF OwnedBy
<1>16. job' \in Jobs BY <1>1, <1>3 DEF Jobs
<1>17. /\ TypeOK' /\ ClogOK' /\ OwnersOK' /\ ActiveBankIsCommittedPrefix' /\ CurrentOK'
       /\ NoStorageFault' /\ Applied' = Applied /\ Target' = Target
  BY <1>3, <1>10, <1>11, <1>12, <1>13, <1>14, <1>16, InactiveBatch
<1>18. JobOK'
  <2>1. Complete(art)' BY <1>3, <1>5 DEF Complete, RecsAt
  <2>2. art'.applied > Applied' BY <1>3, <1>5, <1>17
  <2>3. new.recs \subseteq art.recs BY <1>3, <1>5, <1>9
  <2>4. \A k \in Payloads : Target \in owners'[k] => k \in art.payloads
    BY <1>3, <1>5, <1>15 DEF OwnedBy
  <2>5. CASE job' = "copy"
    BY <1>3, <1>10, <1>17, <2>1, <2>2, <2>3, <2>4, <2>5 DEF JobOK
  <2>6. CASE job' = "adopt"
    <3>1. done /\ art.payloads \subseteq ks \cup OwnedBy(Target) BY <1>1, <1>3, <2>6
    <3>2. new = [applied |-> art.applied, recs |-> art.recs]
      <4>1. new.recs = art.recs /\ new.applied = art.applied BY <1>9, <2>3, <3>1
      <4> QED BY <1>8, <4>1 DEF BankStates
    <3>3. \A k \in Payloads : Target \in owners'[k] <=> k \in art.payloads
      BY <1>15, <2>4, <3>1
    <3> QED BY <1>3, <1>10, <1>17, <2>1, <2>2, <2>6, <3>2, <3>3 DEF JobOK
  <2> QED BY <1>1, <1>3, <2>5, <2>6
<1> QED BY <1>17, <1>18 DEF IInv

(* The switch publishes a bank that is complete, and the artifact it was   *)
(* copied from.                                                            *)
LEMMA SwitchBankKeepsInv ==
    ASSUME IInv, SwitchBank
    PROVE  IInv' /\ Applied' > Applied
<1>0. /\ TypeOK /\ ClogOK /\ OwnersOK /\ ActiveBankIsCommittedPrefix /\ CurrentOK /\ JobOK
      /\ NoStorageFault
  BY DEF IInv
<1>1. /\ job = "switch" /\ current' = art /\ active' = Target
      /\ job' = IF Cleared(active, bank[active], owners) THEN "collect" ELSE "clear_old"
      /\ UNCHANGED <<clog, rlog, purged, bytes, owners, bank, files, art, fault>>
  BY DEF SwitchBank
<1>2. /\ Complete(art) /\ art \in Artifacts /\ art.applied > Applied /\ art \in files
      /\ bank[Target] = [applied |-> art.applied, recs |-> art.recs]
      /\ \A k \in Payloads : Target \in owners[k] <=> k \in art.payloads
  BY <1>0, <1>1 DEF JobOK, Complete
<1>3. Target \in Banks /\ Inactive(Target) = active BY <1>0, OwnersDiffer
<1>4. Applied' = art.applied /\ bank'[active'].recs = art.recs
  BY <1>1, <1>2 DEF Applied
<1>5. Target' = active BY <1>1, <1>3 DEF Target, Inactive
<1>6. TypeOK' BY <1>0, <1>1, <1>2, <1>3 DEF TypeOK, Jobs
<1>7. ClogOK' BY <1>0, <1>1, ClogFrame
<1>8. OwnersOK'
  <2>1. art.payloads = art.recs BY <1>2 DEF Complete
  <2>2. \A k \in Payloads : active' \in owners'[k] <=> k \in bank'[active'].recs
    BY <1>1, <1>2, <1>4, <2>1
  <2> QED BY <1>0, <1>1, <2>2 DEF OwnersOK, PayloadsOf
<1>9. ActiveBankIsCommittedPrefix'
  BY <1>1, <1>2, <1>4 DEF ActiveBankIsCommittedPrefix, Complete, RecsAt
<1>10. art.applied <= art.applied
  BY <1>2, PayloadStoreAssumption DEF Artifacts, Indexes
<1>11. Complete(art)' /\ Complete(current)' BY <1>1, <1>2 DEF Complete, RecsAt
<1>12. CurrentOK' BY <1>1, <1>2, <1>4, <1>10, <1>11 DEF CurrentOK
<1>13. JobOK'
  <2>1. CASE Cleared(active, bank[active], owners)
    <3>1. Cleared(Target, bank[Target], owners)' BY <1>1, <1>5, <2>1 DEF Cleared
    <3> QED BY <1>1, <1>11, <2>1, <3>1 DEF JobOK
  <2>2. CASE ~Cleared(active, bank[active], owners)
    BY <1>1, <1>11, <2>2 DEF JobOK
  <2> QED BY <2>1, <2>2
<1> QED
  BY <1>0, <1>1, <1>2, <1>4, <1>6, <1>7, <1>8, <1>9, <1>12, <1>13 DEF IInv, NoStorageFault

(* A crash loses the operation under way and nothing else, and the current *)
(* artifact is there when the store opens.                                 *)
LEMMA CrashKeepsInv ==
    ASSUME IInv, CrashAndOpen
    PROVE  IInv'
<1>0. TypeOK /\ CurrentOK /\ NoStorageFault BY DEF IInv
<1>1. /\ job' = "idle" /\ art' = NoArtifact /\ fault' = fault
      /\ UNCHANGED <<clog, store, current, files>>
  BY <1>0 DEF CrashAndOpen, CurrentOK
<1>2. ClogOK' /\ OwnersOK' /\ ActiveBankIsCommittedPrefix' /\ NoStorageFault' /\ Applied' = Applied
  BY <1>1, StoreFrame
<1>3. TypeOK' BY <1>0, <1>1 DEF TypeOK, store, Jobs
<1>4. CurrentOK' BY <1>0, <1>1, <1>2 DEF CurrentOK, Complete, RecsAt
<1>5. JobOK' BY <1>1 DEF JobOK
<1> QED BY <1>2, <1>3, <1>4, <1>5 DEF IInv

(* The invariant is inductive.                                             *)
LEMMA NextKeepsInv ==
    IInv /\ [Next]_vars => IInv'
<1> SUFFICES ASSUME IInv, [Next]_vars PROVE IInv' OBVIOUS
<1>1. CASE UNCHANGED vars
  <2>1. UNCHANGED <<clog, store, fault, current, files, job, art>> BY <1>1 DEF vars, snap
  <2>2. /\ ClogOK' /\ OwnersOK' /\ ActiveBankIsCommittedPrefix' /\ NoStorageFault'
        /\ Applied' = Applied /\ Target' = Target
    BY <2>1, StoreFrame
  <2>3. TypeOK' BY <2>1 DEF IInv, TypeOK, store
  <2>4. CurrentOK' BY <2>1, <2>2 DEF IInv, CurrentOK, Complete, RecsAt
  <2>5. JobOK' BY <2>1, <2>2 DEF IInv, JobOK, Complete, RecsAt, Cleared, store
  <2> QED BY <2>2, <2>3, <2>4, <2>5 DEF IInv
<1>2. CASE \E t \in Terms, drops \in SUBSET RecsAt(Len(clog)) :
             \E puts \in SUBSET PayloadsOf(t, Len(clog) + 1) : Commit(t, puts, drops)
  BY <1>2, CommitKeepsInv
<1>3. CASE \E t \in Terms, i \in Indexes : AppendLog(t, i) BY <1>3, AppendLogKeepsInv
<1>4. CASE \E i \in Indexes : TruncateAfter(i) BY <1>4, TruncateAndPurgeKeepInv
<1>5. CASE \E i \in Indexes : Purge(i) BY <1>5, TruncateAndPurgeKeepInv
<1>6. CASE ApplyEntry BY <1>6, ApplyEntryKeepsInv
<1>7. CASE FinishArtifact BY <1>7, FinishArtifactKeepsInv
<1>8. CASE PublishArtifact \/ CollectArtifacts \/ AdoptArtifact
  BY <1>8, DescriptorStepsKeepInv
<1>9. CASE \E i \in Indexes : BeginInstall(i) BY <1>9, BeginInstallKeepsInv
<1>10. CASE ClearTarget \/ ClearOld BY <1>10, ClearBatchKeepsInv
<1>11. CASE CopySnapshot BY <1>11, CopySnapshotKeepsInv
<1>12. CASE SwitchBank BY <1>12, SwitchBankKeepsInv
<1>13. CASE CrashAndOpen BY <1>13, CrashKeepsInv
<1> QED
  BY <1>1, <1>2, <1>3, <1>4, <1>5, <1>6, <1>7, <1>8, <1>9, <1>10, <1>11, <1>12, <1>13 DEF Next

(* What readers are promised follows from the invariant.                   *)
LEMMA InvGivesProperties ==
    IInv => /\ CommittedRecordsReadable
            /\ LogEntriesReadable
            /\ CurrentSnapshotIsComplete
            /\ PayloadsAccountedFor
<1> SUFFICES ASSUME IInv
             PROVE  /\ CommittedRecordsReadable
                    /\ LogEntriesReadable
                    /\ CurrentSnapshotIsComplete
                    /\ PayloadsAccountedFor
  OBVIOUS
<1>1. bank[active].recs \subseteq Payloads
  <2>1. bank[active] \in BankStates BY DEF IInv, TypeOK
  <2> QED BY <2>1 DEF BankStates
<1>2. CommittedRecordsReadable
  BY <1>1 DEF IInv, OwnersOK, CommittedRecordsReadable
<1>3. LogEntriesReadable
  BY PayloadsOfEntry DEF IInv, OwnersOK, LogEntriesReadable
<1>4. CurrentSnapshotIsComplete
  BY DEF IInv, CurrentOK, Complete, CurrentSnapshotIsComplete
<1>5. PayloadsAccountedFor
  <2>1. OwnedBy(active) = bank[active].recs BY <1>1 DEF IInv, OwnersOK, OwnedBy
  <2>2. job = "collect" => OwnedBy(Target) = {} /\ bank[Target] = EmptyBank
    BY DEF IInv, JobOK, Cleared, OwnedBy
  <2> QED BY <2>1, <2>2 DEF IInv, OwnersOK, PayloadsAccountedFor
<1> QED BY <1>2, <1>3, <1>4, <1>5

(* Every step leaves the active bank's applied index alone, or raises it.  *)
LEMMA StepsNeverRegress ==
    IInv /\ [Next]_vars => Applied' >= Applied
<1> SUFFICES ASSUME IInv, [Next]_vars PROVE Applied' >= Applied OBVIOUS
<1>1. TypeOK BY DEF IInv
<1>2. Applied \in Nat BY <1>1, AppliedType
<1>3. active \in Banks /\ Target \in Banks /\ Target # active /\ bank \in [Banks -> BankStates]
  BY <1>1, OwnersDiffer DEF TypeOK
<1>4. ASSUME UNCHANGED <<bank, active>> PROVE Applied' >= Applied
  BY <1>2, <1>4 DEF Applied
<1>5. CASE UNCHANGED vars BY <1>4, <1>5 DEF vars, store
<1>6. CASE \E t \in Terms, drops \in SUBSET RecsAt(Len(clog)) :
             \E puts \in SUBSET PayloadsOf(t, Len(clog) + 1) : Commit(t, puts, drops)
  BY <1>4, <1>6 DEF Commit, store
<1>7. CASE \E t \in Terms, i \in Indexes : AppendLog(t, i) BY <1>4, <1>7 DEF AppendLog
<1>8. CASE \E i \in Indexes : TruncateAfter(i) \/ Purge(i)
  <2>1. \E range : RemoveLogRange(range) BY <1>8 DEF TruncateAfter, Purge
  <2>2. UNCHANGED <<bank, active>> BY <2>1 DEF RemoveLogRange, Fail, store
  <2> QED BY <1>4, <2>2
<1>9. CASE ApplyEntry
  <2>1. CASE UNCHANGED store BY <1>4, <2>1 DEF store
  <2>2. CASE ~UNCHANGED store
    <3>1. UNCHANGED active /\ bank' = [bank EXCEPT ![active] =
              [applied |-> Applied + 1,
               recs |-> (@.recs \cup clog[Applied + 1].puts) \ clog[Applied + 1].drops]]
      BY <1>9, <2>2 DEF ApplyEntry, Fail
    <3>2. bank'[active].applied = Applied + 1 BY <1>3, <3>1
    <3> QED BY <1>2, <3>1, <3>2 DEF Applied
  <2> QED BY <2>1, <2>2
<1>10. CASE FinishArtifact BY <1>4, <1>10 DEF FinishArtifact, Fail, store
<1>11. CASE PublishArtifact \/ CollectArtifacts \/ AdoptArtifact
  BY <1>4, <1>11 DEF PublishArtifact, CollectArtifacts, AdoptArtifact, store
<1>12. CASE \E i \in Indexes : BeginInstall(i) BY <1>4, <1>12 DEF BeginInstall, store
<1>13. CASE ClearTarget \/ ClearOld
  <2>1. \E next : ClearBatch(Target, next) BY <1>13 DEF ClearTarget, ClearOld, Target
  <2>2. UNCHANGED active BY <2>1 DEF ClearBatch
  <2>3. bank'[active] = bank[active]
    BY <1>3, <2>1 DEF ClearBatch, ClearRows, ClearOwners
  <2> QED BY <1>2, <2>2, <2>3 DEF Applied
<1>14. CASE CopySnapshot
  <2>1. UNCHANGED active /\ bank'[active] = bank[active]
    BY <1>3, <1>14 DEF CopySnapshot, CopyBatch
  <2> QED BY <1>2, <2>1 DEF Applied
<1>15. CASE SwitchBank
  <2>1. Applied' > Applied /\ IInv' BY <1>15, SwitchBankKeepsInv
  <2>2. Applied' \in Nat
    <3>1. bank'[active'] \in BankStates BY <2>1 DEF IInv, TypeOK
    <3> QED BY <3>1, PayloadStoreAssumption DEF BankStates, Applied
  <2> QED BY <1>2, <2>1, <2>2
<1>16. CASE CrashAndOpen BY <1>4, <1>16 DEF CrashAndOpen, store
<1> QED
  BY <1>5, <1>6, <1>7, <1>8, <1>9, <1>10, <1>11, <1>12, <1>13, <1>14, <1>15, <1>16 DEF Next

-----------------------------------------------------------------------------
(* The theorems.                                                           *)

(* Every behaviour of the store satisfies the inductive invariant.         *)
LEMMA SpecInv ==
    Spec => []IInv
BY InitInv, NextKeepsInv, PTL DEF Spec

(* The store's state is well formed, through every crash.                  *)
THEOREM PayloadTypeCorrect ==
    Spec => []TypeOK
<1>1. IInv => TypeOK BY DEF IInv
<1> QED BY SpecInv, <1>1, PTL

(* No storage operation of lib.rs or snapshot.rs ever takes one of its     *)
(* "missing payload" or "missing artifact" error returns, whatever the     *)
(* interleaving of log writes, application, snapshots and crashes.         *)
THEOREM PayloadNoStorageFault ==
    Spec => []NoStorageFault
<1>1. IInv => NoStorageFault BY DEF IInv
<1> QED BY SpecInv, <1>1, PTL

(* Every committed record can be fetched, and every entry still in the log *)
(* hydrated: remove_log_range, retention and clear_state_bank never delete *)
(* bytes that another owner reaches.                                       *)
THEOREM PayloadReadable ==
    Spec => [](CommittedRecordsReadable /\ LogEntriesReadable)
<1>1. IInv => CommittedRecordsReadable /\ LogEntriesReadable BY InvGivesProperties
<1> QED BY SpecInv, <1>1, PTL

(* install_snapshot's many batches are atomic to readers: the active bank  *)
(* is always the state of a committed prefix.                              *)
THEOREM PayloadActivePrefix ==
    Spec => []ActiveBankIsCommittedPrefix
<1>1. IInv => ActiveBankIsCommittedPrefix BY DEF IInv
<1> QED BY SpecInv, <1>1, PTL

(* KEY_CURRENT_SNAPSHOT names a complete artifact that is on disk, so a    *)
(* purge through it loses nothing and the store can always be opened.      *)
THEOREM PayloadCurrentSnapshot ==
    Spec => []CurrentSnapshotIsComplete
<1>1. IInv => CurrentSnapshotIsComplete BY InvGivesProperties
<1> QED BY SpecInv, <1>1, PTL

(* Payload bytes neither leak from the log or the active bank nor go       *)
(* missing: they exist exactly while something owns them.                  *)
THEOREM PayloadAccounting ==
    Spec => []PayloadsAccountedFor
<1>1. IInv => PayloadsAccountedFor BY InvGivesProperties
<1> QED BY SpecInv, <1>1, PTL

(* The applied index of the active bank never goes back, in particular     *)
(* not when install_snapshot switches banks or after a crash.              *)
THEOREM PayloadNeverRegresses ==
    Spec => AppliedNeverRegresses
<1>1. IInv /\ [Next]_vars => [Applied' >= Applied]_vars BY StepsNeverRegress
<1> QED BY SpecInv, <1>1, PTL DEF Spec, AppliedNeverRegresses
-----------------------------------------------------------------------------
(* Snapshot transfer between peers.                                        *)

(* The records the transfer is made of.                                    *)
Cells == Nat \X Nat
StageRecords ==
    [files : SUBSET Files, torn : BOOLEAN, old : BOOLEAN, part : Seq(Cells),
     progress : 0 .. Chunks]
InstallRecords == [t : Transfers, data : Seq(Cells), linked : BOOLEAN]
Messages == [t : Transfers, op : Waiting, off : 0 .. Chunks, live : BOOLEAN]
Attempts ==
    [phase : {"idle", "opening", "done"} \cup Waiting,
     t : Transfers \cup {NoTransfer}, off : 0 .. Chunks, desc : 0 .. MaxBuilds]
Handlers == [t : Transfers \cup {NoTransfer}, live : BOOLEAN, done : BOOLEAN]

(* The chunks a progress file counts are those of the artifact.            *)
PrefixSound(t, s) ==
    s.progress <= Len(s.part) => \A i \in 1 .. s.progress : s.part[i] = <<t[2], i>>

StageSound(t, s) == s \in StageRecords /\ PrefixSound(t, s)

StagesSound(st) ==
    /\ st \in [Transfers -> StageRecords]
    /\ \A t \in Transfers : PrefixSound(t, st[t])

(* The stage an installation reads: complete, and with its progress, so    *)
(* that no handler writes to it.                                           *)
Held(t, s) == "part" \in s.files /\ s.progress = Chunks /\ s.part = Whole(t)

InstallSound(x, st) ==
    x.data = Whole(x.t) /\ (x.linked => Held(x.t, st[x.t]))

InstallsSound(ins, st) ==
    /\ ins \in Seq(InstallRecords)
    /\ \A i \in 1 .. Len(ins) : InstallSound(ins[i], st)

(* A change of the stages leaves a held part file alone or unlinks it.     *)
KeepsHeld(st, su) ==
    \A t \in Transfers : Held(t, st[t]) /\ "part" \in su[t].files => Held(t, su[t])

(* The attempt, its one live request and the handler that serves it: the   *)
(* request is the one the attempt's state describes, so there is never a   *)
(* second one, and none while the handler of the attempt waits.            *)
AttemptSound(a, n, h) ==
    /\ a \in Attempts /\ n \subseteq Messages /\ h \in Handlers
    /\ a.phase \in Waiting => a.t \in Transfers
    /\ \A m \in n : m.live => m = Request(a.t, a.phase, a.off)
    /\ h.live => a.phase = "finish" /\ a.t = h.t /\ (\A m \in n : ~m.live)

(* The artifact of the waiting handler is the last in the queue, until it  *)
(* is installed and the queue is empty.                                    *)
HandlerSound(h, ins, ap) ==
    /\ h # NoHandler => h.t \in Transfers
    /\ h # NoHandler /\ ~h.done => ins # <<>> /\ ins[Len(ins)].t = h.t
    /\ h.done => ins = <<>> /\ h.t[2] <= ap

SuccessSound(a, ap) == a.phase = "done" => a.t[2] <= ap

LeaderSound ==
    /\ latest \in 0 .. MaxBuilds /\ objects \subseteq 1 .. MaxBuilds
    /\ objects # {} => latest # 0
    /\ vote \in 1 .. MaxVotes /\ applied \in 0 .. MaxBuilds
    /\ faults \in 0 .. MaxFaults /\ crashes \in 0 .. MaxCrashes

TransferInv ==
    /\ LeaderSound
    /\ StagesSound(stage)
    /\ InstallsSound(installs, stage)
    /\ AttemptSound(snd, net, rx)
    /\ HandlerSound(rx, installs, applied)
    /\ SuccessSound(snd, applied)
    /\ damaged = FALSE

(* What the constants and a transfer are.                                  *)
LEMMA TransferTypes ==
    ASSUME NEW t \in Transfers
    PROVE  /\ Chunks \in Nat /\ Chunks > 0
           /\ t[2] \in Nat /\ t[2] \in 1 .. MaxBuilds /\ t # NoTransfer
           /\ Whole(t) \in Seq(Cells) /\ Len(Whole(t)) = Chunks
           /\ \A i \in 1 .. Chunks : Whole(t)[i] = <<t[2], i>>
<1>1. /\ Chunks \in Nat /\ Chunks > 0
      /\ t[1] \in 1 .. MaxVotes /\ t[2] \in 1 .. MaxBuilds /\ t[2] \in Nat
      /\ MaxBuilds \in Nat
  BY BoundsAssumption DEF Transfers
<1>2. t # NoTransfer BY <1>1 DEF NoTransfer
<1>3. \A i \in 1 .. Chunks : Whole(t)[i] = <<t[2], i>> /\ Whole(t)[i] \in Cells
  BY <1>1 DEF Whole, Cells
<1>4. Whole(t) \in [1 .. Chunks -> Cells] BY <1>3 DEF Whole
<1>5. Whole(t) \in Seq(Cells) /\ Len(Whole(t)) = Chunks BY <1>1, <1>4
<1> QED BY <1>1, <1>2, <1>3, <1>5

(* Removing files of a stage keeps what the progress file promises.        *)
LEMMA RemoveSound ==
    ASSUME NEW t \in Transfers, NEW s, StageSound(t, s),
           NEW gone \in SUBSET Files
    PROVE  /\ StageSound(t, Remove(s, gone))
           /\ "part" \in gone => "part" \notin Remove(s, gone).files
<1> DEFINE r == Remove(s, gone)
<1>1. s \in StageRecords BY DEF StageSound
<1>2. /\ r.files = s.files \ gone
      /\ r.part = IF "part" \in gone THEN <<>> ELSE s.part
      /\ r.progress = IF "progress" \in gone THEN 0 ELSE s.progress
  BY <1>1 DEF Remove, StageRecords
<1>3. r \in StageRecords
  <2>1. s.files \ gone \in SUBSET Files BY <1>1 DEF StageRecords
  <2>2. (s.torn /\ "intent" \notin gone) \in BOOLEAN /\ (s.old /\ "intent" \notin gone) \in BOOLEAN
    OBVIOUS
  <2>3. (IF "part" \in gone THEN <<>> ELSE s.part) \in Seq(Cells) BY <1>1 DEF StageRecords
  <2>4. (IF "progress" \in gone THEN 0 ELSE s.progress) \in 0 .. Chunks
    BY <1>1, TransferTypes DEF StageRecords
  <2> DEFINE f == s.files \ gone
             a == s.torn /\ "intent" \notin gone
             b == s.old /\ "intent" \notin gone
             c == IF "part" \in gone THEN <<>> ELSE s.part
             d == IF "progress" \in gone THEN 0 ELSE s.progress
  <2>5. r = [s EXCEPT !.files = f, !.torn = a, !.old = b, !.part = c, !.progress = d]
    BY DEF Remove
  <2>6. f \in SUBSET Files /\ c \in Seq(Cells) /\ d \in 0 .. Chunks BY <2>1, <2>3, <2>4
  <2>7. a \in BOOLEAN /\ b \in BOOLEAN BY <2>2
  <2> HIDE DEF f, a, b, c, d, r
  <2> QED BY <1>1, <2>5, <2>6, <2>7 DEF StageRecords
<1>4. PrefixSound(t, r)
  <2>1. s.progress \in Nat /\ s.part \in Seq(Cells) /\ PrefixSound(t, s)
    BY <1>1, TransferTypes DEF StageRecords, StageSound
  <2>2. CASE "progress" \in gone
    <3>1. r.progress = 0 BY <1>2, <2>2
    <3> QED BY <3>1 DEF PrefixSound
  <2>3. CASE "progress" \notin gone /\ "part" \notin gone
    <3>1. r.progress = s.progress /\ r.part = s.part BY <1>2, <2>3
    <3> QED BY <3>1, <2>1 DEF PrefixSound
  <2>4. CASE "progress" \notin gone /\ "part" \in gone
    <3>1. r.progress = s.progress /\ r.part = <<>> BY <1>2, <2>4
    <3>2. ~(s.progress <= Len(<<>>)) \/ s.progress = 0 BY <2>1
    <3> QED BY <3>1, <3>2 DEF PrefixSound
  <2> QED BY <2>2, <2>3, <2>4
<1> QED BY <1>2, <1>3, <1>4 DEF StageSound

(* recover_snapshot_stage cuts the part file to what the progress counts,  *)
(* and leaves a complete one as it is.                                     *)
LEMMA RecoverSound ==
    ASSUME NEW t \in Transfers, NEW s, StageSound(t, s)
    PROVE  /\ StageSound(t, Recover(s))
           /\ Held(t, s) => Held(t, Recover(s))
<1> DEFINE p == IF s.progress > Len(s.part) THEN 0 ELSE s.progress
<1>1. /\ s \in StageRecords /\ s.files \subseteq Files /\ s.part \in Seq(Cells)
      /\ s.progress \in 0 .. Chunks /\ PrefixSound(t, s)
  BY DEF StageSound, StageRecords
<1>2. /\ p \in 0 .. Chunks /\ p <= Len(s.part)
      /\ p = s.progress \/ p = 0
      /\ \A i \in 1 .. p : s.part[i] = <<t[2], i>>
  BY <1>1, TransferTypes DEF PrefixSound
<1>3. /\ SubSeq(s.part, 1, p) \in Seq(Cells) /\ Len(SubSeq(s.part, 1, p)) = p
      /\ \A i \in 1 .. p : SubSeq(s.part, 1, p)[i] = s.part[i]
  <2>1. p \in Nat /\ p <= Len(s.part) BY <1>2, TransferTypes
  <2> HIDE DEF p
  <2> QED BY <1>1, <2>1
<1> DEFINE f == s.files \cup {"part", "progress"}
           c == SubSeq(s.part, 1, p)
<1>4. Recover(s) = [s EXCEPT !.files = f, !.progress = p, !.part = c]
  BY DEF Recover
<1>5. f \in SUBSET Files /\ c \in Seq(Cells) /\ "part" \in f BY <1>1, <1>3 DEF Files
<1>6. Held(t, s) => p = Chunks /\ s.part = Whole(t)
  BY TransferTypes DEF Held
<1>10. /\ Len(c) = p /\ \A i \in 1 .. p : c[i] = <<t[2], i>> BY <1>2, <1>3
<1>11. ASSUME p = Chunks, s.part = Whole(t) PROVE c = Whole(t)
  <2>1. Len(s.part) = Chunks /\ Chunks \in Nat BY <1>11, TransferTypes
  <2>2. SubSeq(s.part, 1, Chunks) = s.part BY <1>1, <2>1
  <2> QED BY <1>11, <2>2
<1> HIDE DEF p, f, c
<1>12. Recover(s).files = f /\ Recover(s).progress = p /\ Recover(s).part = c
  BY <1>1, <1>4 DEF StageRecords
<1>7. Recover(s) \in StageRecords
  BY <1>1, <1>2, <1>4, <1>5 DEF StageRecords
<1>8. PrefixSound(t, Recover(s)) BY <1>10, <1>12 DEF PrefixSound
<1>9. Held(t, s) => Held(t, Recover(s)) BY <1>5, <1>6, <1>11, <1>12 DEF Held
<1> QED BY <1>7, <1>8, <1>9 DEF StageSound

(* The intent file changes nothing an installation or a progress is about. *)
LEMMA WithIntentSound ==
    ASSUME NEW t \in Transfers, NEW s, StageSound(t, s)
    PROVE  /\ StageSound(t, WithIntent(s))
           /\ Held(t, s) => Held(t, WithIntent(s))
<1>1. s \in StageRecords /\ s.files \subseteq Files /\ PrefixSound(t, s)
  BY DEF StageSound, StageRecords
<1> DEFINE f == s.files \cup {"intent"}
<1>2. WithIntent(s) = [s EXCEPT !.files = f] BY DEF WithIntent
<1>3. f \in SUBSET Files /\ s.files \subseteq f BY <1>1 DEF Files
<1> HIDE DEF f
<1>4. /\ WithIntent(s) \in StageRecords
      /\ WithIntent(s).files = f /\ WithIntent(s).progress = s.progress
      /\ WithIntent(s).part = s.part
  BY <1>1, <1>2, <1>3 DEF StageRecords
<1>5. PrefixSound(t, WithIntent(s)) BY <1>1, <1>4 DEF PrefixSound
<1>6. Held(t, s) => Held(t, WithIntent(s)) BY <1>3, <1>4 DEF Held
<1> QED BY <1>4, <1>5, <1>6 DEF StageSound

(* A stage replaced by one that keeps it if it is held.                    *)
LEMMA ReplaceStage ==
    ASSUME NEW st, StagesSound(st), NEW t \in Transfers, NEW s,
           StageSound(t, s), Held(t, st[t]) /\ "part" \in s.files => Held(t, s)
    PROVE  StagesSound([st EXCEPT ![t] = s]) /\ KeepsHeld(st, [st EXCEPT ![t] = s])
<1> DEFINE su == [st EXCEPT ![t] = s]
<1>1. st \in [Transfers -> StageRecords] /\ s \in StageRecords
  BY DEF StagesSound, StageSound
<1>2. su \in [Transfers -> StageRecords] BY <1>1
<1>3. su[t] = s /\ \A u \in Transfers : u # t => su[u] = st[u] BY <1>1
<1> HIDE DEF su
<1>4. ASSUME NEW u \in Transfers PROVE PrefixSound(u, su[u])
  <2>1. CASE u = t BY <1>3, <2>1 DEF StageSound
  <2>2. CASE u # t BY <1>3, <2>2 DEF StagesSound
  <2> QED BY <2>1, <2>2
<1>5. ASSUME NEW u \in Transfers, Held(u, st[u]), "part" \in su[u].files
      PROVE  Held(u, su[u])
  <2>1. CASE u = t BY <1>3, <1>5, <2>1
  <2>2. CASE u # t BY <1>3, <1>5, <2>2
  <2> QED BY <2>1, <2>2
<1>6. StagesSound(su) BY <1>2, <1>4 DEF StagesSound
<1>7. KeepsHeld(st, su) BY <1>5 DEF KeepsHeld
<1> QED BY <1>6, <1>7 DEF su

(* Stages removed as a whole, whichever they are.                          *)
LEMMA RemoveStages ==
    ASSUME NEW st, StagesSound(st), NEW su,
           su = [u \in Transfers |-> su[u]],
           \A u \in Transfers : su[u] = st[u] \/ su[u] = Remove(st[u], Files)
    PROVE  StagesSound(su) /\ KeepsHeld(st, su)
<1>1. ASSUME NEW u \in Transfers
      PROVE  /\ StageSound(u, su[u])
             /\ su[u] = st[u] \/ "part" \notin su[u].files
  <2>1. StageSound(u, st[u]) BY DEF StagesSound, StageSound
  <2>2. Files \in SUBSET Files /\ "part" \in Files BY DEF Files
  <2>3. StageSound(u, Remove(st[u], Files)) /\ "part" \notin Remove(st[u], Files).files
    BY <2>1, <2>2, RemoveSound
  <2> QED BY <2>1, <2>3
<1>2. StagesSound(su) BY <1>1 DEF StagesSound, StageSound
<1>3. KeepsHeld(st, su) BY <1>1 DEF KeepsHeld
<1> QED BY <1>2, <1>3

(* remove_abandoned_snapshot_stages drops whole stages.                    *)
LEMMA DropAbandonedSound ==
    ASSUME NEW st, StagesSound(st)
    PROVE  StagesSound(DropAbandoned(st)) /\ KeepsHeld(st, DropAbandoned(st))
<1> DEFINE su == DropAbandoned(st)
<1>1. su = [u \in Transfers |-> su[u]] BY DEF DropAbandoned
<1>2. \A u \in Transfers : su[u] = st[u] \/ su[u] = Remove(st[u], Files)
  BY DEF DropAbandoned
<1> HIDE DEF su
<1>3. StagesSound(su) /\ KeepsHeld(st, su) BY <1>1, <1>2, RemoveStages
<1> QED BY <1>3 DEF su

(* remove_superseded_snapshot_stages drops whole stages, not its own.      *)
LEMMA DropSupersededSound ==
    ASSUME NEW st, StagesSound(st), NEW t \in Transfers
    PROVE  /\ StagesSound(DropSuperseded(st, t)) /\ KeepsHeld(st, DropSuperseded(st, t))
           /\ DropSuperseded(st, t)[t] = st[t]
<1> DEFINE su == DropSuperseded(st, t)
<1>1. su = [u \in Transfers |-> su[u]] BY DEF DropSuperseded
<1>2. \A u \in Transfers : su[u] = st[u] \/ su[u] = Remove(st[u], Files)
  BY DEF DropSuperseded
<1>4. su[t] = st[t] BY DEF DropSuperseded
<1> HIDE DEF su
<1>3. StagesSound(su) /\ KeepsHeld(st, su) BY <1>1, <1>2, RemoveStages
<1> QED BY <1>3, <1>4 DEF su

(* An installation sees a held part file unchanged, or unlinked.           *)
LEMMA KeepsHeldBySeen ==
    ASSUME NEW ins, NEW st, NEW su, InstallsSound(ins, st),
           KeepsHeld(st, su)
    PROVE  InstallsSound(Seen(ins, su), su) /\ Len(Seen(ins, su)) = Len(ins)
<1> DEFINE seen == Seen(ins, su)
<1>1. ins \in Seq(InstallRecords) /\ Len(ins) \in Nat /\ DOMAIN ins = 1 .. Len(ins)
  BY DEF InstallsSound
<1>2. ASSUME NEW i \in 1 .. Len(ins)
      PROVE  seen[i] \in InstallRecords /\ InstallSound(seen[i], su)
  <2> DEFINE x == ins[i]
  <2>1. x \in InstallRecords /\ InstallSound(x, st) BY <1>1 DEF InstallsSound
  <2>2. seen[i] = IF x.linked /\ "part" \in su[x.t].files
                  THEN [x EXCEPT !.data = su[x.t].part] ELSE [x EXCEPT !.linked = FALSE]
    BY <1>1 DEF Seen
  <2>3. x.t \in Transfers BY <2>1 DEF InstallRecords
  <2>4. Whole(x.t) \in Seq(Cells) BY <2>3, TransferTypes
  <2> HIDE DEF x, seen
  <2>5. CASE x.linked /\ "part" \in su[x.t].files
    <3>1. Held(x.t, su[x.t]) BY <2>1, <2>3, <2>5 DEF InstallSound, KeepsHeld
    <3>2. su[x.t].part = Whole(x.t) BY <3>1 DEF Held
    <3>3. seen[i] = [x EXCEPT !.data = Whole(x.t)] BY <2>2, <2>5, <3>2
    <3>4. /\ seen[i] \in InstallRecords /\ seen[i].t = x.t
          /\ seen[i].data = Whole(x.t)
      BY <2>1, <2>4, <3>3 DEF InstallRecords
    <3> QED BY <3>1, <3>4 DEF InstallSound
  <2>6. CASE ~(x.linked /\ "part" \in su[x.t].files)
    <3>1. seen[i] = [x EXCEPT !.linked = FALSE] BY <2>2, <2>6
    <3>2. /\ seen[i] \in InstallRecords /\ seen[i].t = x.t
          /\ seen[i].data = x.data /\ seen[i].linked = FALSE
      BY <2>1, <3>1 DEF InstallRecords
    <3> QED BY <2>1, <3>2 DEF InstallSound
  <2> QED BY <2>5, <2>6
<1>3. DOMAIN seen = 1 .. Len(ins) BY <1>1 DEF Seen
<1>4. seen = [i \in 1 .. Len(ins) |-> seen[i]] BY <1>1 DEF Seen
<1> HIDE DEF seen
<1>5. seen \in Seq(InstallRecords) /\ Len(seen) = Len(ins)
  <2>1. seen \in [1 .. Len(ins) -> InstallRecords] BY <1>2, <1>4
  <2> QED BY <1>1, <2>1
<1>6. InstallsSound(seen, su) BY <1>2, <1>5 DEF InstallsSound
<1> QED BY <1>5, <1>6 DEF seen

(* No handler waits.                                                       *)
LEMMA NoHandlerIsSound ==
    ASSUME NEW ins, NEW ap
    PROVE  HandlerSound(NoHandler, ins, ap) /\ NoHandler \in Handlers /\ ~NoHandler.live
BY DEF HandlerSound, NoHandler, Handlers

(* An attempt that is over expects nothing.                                *)
LEMMA IdleIsSound ==
    ASSUME NEW n \in SUBSET Messages, \A m \in n : ~m.live, NEW ap,
           NEW h \in Handlers, ~h.live
    PROVE  AttemptSound(Idle, n, h) /\ SuccessSound(Idle, ap)
<1>1. Idle \in Attempts /\ Idle.phase = "idle"
  BY BoundsAssumption DEF Idle, Attempts
<1>2. Idle.phase \notin Waiting BY <1>1 DEF Waiting
<1> QED BY <1>1, <1>2 DEF AttemptSound, SuccessSound

(* A live request is the only one, and says what the attempt waits for.    *)
LEMMA OneLiveRequest ==
    ASSUME NEW a, NEW n, NEW h, AttemptSound(a, n, h), NEW m \in n, m.live
    PROVE  /\ \A k \in n : k # m => ~k.live
           /\ m.t = a.t /\ m.op = a.phase /\ m.t \in Transfers /\ a.phase \in Waiting
<1>1. m = Request(a.t, a.phase, a.off) BY DEF AttemptSound
<1>2. m \in Messages BY DEF AttemptSound
<1>3. m.t = a.t /\ m.op = a.phase BY <1>1 DEF Request
<1>4. m.t \in Transfers /\ m.op \in Waiting BY <1>2 DEF Messages
<1>5. \A k \in n : k.live => k = m BY <1>1 DEF AttemptSound
<1> QED BY <1>3, <1>4, <1>5

(* An error answer ends the attempt that waits for it, and no other.       *)
LEMMA RefuseSound ==
    ASSUME AttemptSound(snd, net, rx), SuccessSound(snd, applied),
           LockFree, NEW m \in net, Refuse(m)
    PROVE  AttemptSound(snd', net', rx) /\ SuccessSound(snd', applied)
<1>1. net' = net \ {m} /\ snd' = (IF m.live THEN Idle ELSE snd) BY DEF Refuse
<1>2. rx = NoHandler /\ rx \in Handlers /\ ~rx.live BY NoHandlerIsSound DEF LockFree
<1>3. net' \subseteq Messages BY <1>1 DEF AttemptSound
<1>4. CASE m.live
  <2>1. \A k \in net' : ~k.live BY <1>1, <1>4, OneLiveRequest
  <2>2. snd' = Idle BY <1>1, <1>4
  <2> QED BY <1>2, <1>3, <2>1, <2>2, IdleIsSound
<1>5. CASE ~m.live
  <2>1. snd' = snd BY <1>1, <1>5
  <2> QED BY <1>1, <1>2, <1>3, <2>1 DEF AttemptSound
<1> QED BY <1>4, <1>5

(* An answer moves the attempt on by one request.                          *)
LEMMA AnswerSound ==
    ASSUME AttemptSound(snd, net, rx), SuccessSound(snd, applied),
           LockFree, NEW m \in net, NEW off \in 0 .. Chunks, Answer(m, off)
    PROVE  AttemptSound(snd', net', rx) /\ SuccessSound(snd', applied)
<1>2. rx = NoHandler /\ rx \in Handlers /\ ~rx.live BY NoHandlerIsSound DEF LockFree
<1>4. CASE m.live
  <2> DEFINE op == IF off < Chunks THEN "chunk" ELSE "finish"
  <2>1. /\ snd' = [snd EXCEPT !.phase = op, !.off = off]
        /\ net' = {k \in net : ~k.live} \cup {Request(snd.t, op, off)}
    BY <1>4 DEF Answer, Continue
  <2>2. op \in Waiting /\ op # "done" BY DEF Waiting
  <2>3. snd \in Attempts /\ snd.t \in Transfers /\ net \subseteq Messages
    BY <1>4, OneLiveRequest DEF AttemptSound
  <2> HIDE DEF op
  <2>4. /\ snd' \in Attempts /\ snd'.t = snd.t /\ snd'.phase = op /\ snd'.off = off
    BY <2>1, <2>2, <2>3 DEF Attempts
  <2>5. Request(snd.t, op, off) \in Messages BY <2>2, <2>3 DEF Request, Messages
  <2>6. net' \subseteq Messages BY <2>1, <2>3, <2>5
  <2>7. \A k \in net' : k.live => k = Request(snd'.t, snd'.phase, snd'.off)
    BY <2>1, <2>4
  <2>8. AttemptSound(snd', net', rx) BY <1>2, <2>3, <2>4, <2>6, <2>7 DEF AttemptSound
  <2> QED BY <2>2, <2>4, <2>8 DEF SuccessSound
<1>5. CASE ~m.live
  <2>1. snd' = snd /\ net' = net \ {m} BY <1>5 DEF Answer
  <2>2. net' \subseteq net BY <2>1
  <2>3. AttemptSound(snd, net', rx) BY <1>2, <2>2 DEF AttemptSound
  <2> QED BY <2>1, <2>3
<1> QED BY <1>4, <1>5

(* The attempt ends, its request lost or late, its handler dropped or left *)
(* to run for nobody.                                                      *)
LEMMA AbandonSound ==
    ASSUME AttemptSound(snd, net, rx), Abandon,
           HandlerSound(rx, installs, applied)
    PROVE  /\ AttemptSound(snd', net', rx') /\ SuccessSound(snd', applied)
           /\ HandlerSound(rx', installs, applied)
<1> DEFINE live == {m \in net : m.live}
<1>1. rx \in Handlers /\ net \subseteq Messages BY DEF AttemptSound
<1>2. snd' = Idle BY DEF Abandon
<1>3. /\ rx' \in Handlers /\ ~rx'.live
      /\ HandlerSound(rx', installs, applied)
  <2>1. CASE rx' = NoHandler BY <2>1, NoHandlerIsSound
  <2>2. CASE rx' = [rx EXCEPT !.live = FALSE]
    <3>1. /\ rx' \in Handlers /\ rx'.t = rx.t /\ rx'.done = rx.done /\ rx'.live = FALSE
      BY <1>1, <2>2 DEF Handlers
    <3>2. ASSUME rx = NoHandler PROVE rx' = NoHandler
      <4>1. rx.live = FALSE BY <3>2 DEF NoHandler
      <4>2. rx' = [rx EXCEPT !.live = rx.live] BY <2>2, <4>1
      <4>3. rx' = rx BY <1>1, <4>2 DEF Handlers
      <4> QED BY <3>2, <4>3
    <3> QED BY <3>1, <3>2, NoHandlerIsSound DEF HandlerSound
  <2> QED BY <2>1, <2>2 DEF Abandon
<1>4. \A m \in live : [m EXCEPT !.live = FALSE] \in Messages /\ ~[m EXCEPT !.live = FALSE].live
  BY <1>1 DEF Messages
<1>5. net' \subseteq Messages /\ \A m \in net' : ~m.live
  <2>1. net' = net \ live \/ net' = (net \ live) \cup {[m EXCEPT !.live = FALSE] : m \in live}
    BY DEF Abandon
  <2> QED BY <1>1, <1>4, <2>1
<1> QED BY <1>2, <1>3, <1>5, IdleIsSound

(* A deadline or a new vote ends the attempt.                              *)
LEMMA GiveUpSound ==
    ASSUME TransferInv, GiveUp \/ NewVote PROVE TransferInv'
<1>1. /\ Abandon
      /\ UNCHANGED <<latest, objects, stage, applied, installs, damaged, crashes>>
  BY DEF GiveUp, NewVote, leaderVars, diskVars
<1>2. /\ AttemptSound(snd', net', rx') /\ SuccessSound(snd', applied)
      /\ HandlerSound(rx', installs, applied)
  BY <1>1, AbandonSound DEF TransferInv
<1>3. LeaderSound'
  <2>1. CASE GiveUp
    BY <2>1, BoundsAssumption DEF TransferInv, GiveUp, leaderVars, diskVars, LeaderSound
  <2>2. CASE NewVote
    BY <2>2, BoundsAssumption DEF TransferInv, NewVote, diskVars, LeaderSound
  <2> QED BY <2>1, <2>2
<1> QED BY <1>1, <1>2, <1>3 DEF TransferInv

(* build_snapshot and its collection of older artifacts.                   *)
LEMMA LeaderStepSound ==
    ASSUME TransferInv, BuildSnapshot \/ CollectObjects
    PROVE  TransferInv'
<1>1. UNCHANGED <<vote, snd, net, stage, applied, rx, installs, damaged, faults, crashes>>
  BY DEF BuildSnapshot, CollectObjects, diskVars
<1>2. /\ latest' \in 0 .. MaxBuilds /\ objects' \subseteq 1 .. MaxBuilds
      /\ objects' # {} => latest' # 0
  <2>1. CASE BuildSnapshot
    BY <2>1, BoundsAssumption DEF TransferInv, LeaderSound, BuildSnapshot
  <2>2. CASE CollectObjects
    <3>1. /\ latest' = latest /\ objects' = {latest} /\ latest \in 0 .. MaxBuilds
          /\ latest # 0 /\ MaxBuilds \in Nat
      BY <2>2, BoundsAssumption DEF TransferInv, LeaderSound, CollectObjects
    <3> QED BY <3>1
  <2> QED BY <2>1, <2>2
<1> QED BY <1>1, <1>2 DEF TransferInv, LeaderSound

(* A new attempt: the file is opened after the descriptor was read.        *)
LEMMA AttemptSteps ==
    ASSUME TransferInv, ReadDescriptor \/ OpenDescriptor
    PROVE  TransferInv'
<1>1. UNCHANGED <<latest, objects, vote, stage, applied, rx, installs, damaged, faults, crashes>>
  BY DEF ReadDescriptor, OpenDescriptor, leaderVars, diskVars
<1>2. AttemptSound(snd, net, rx) /\ LeaderSound BY DEF TransferInv
<1>3. /\ snd \in Attempts /\ net \subseteq Messages /\ rx \in Handlers
      /\ \A m \in net : m.live => m.op = snd.phase /\ m.op \in Waiting
      /\ rx.live => snd.phase = "finish"
  BY <1>2, OneLiveRequest DEF AttemptSound
<1>4. snd.phase \notin Waiting
  BY DEF ReadDescriptor, OpenDescriptor, Waiting
<1>5. ~rx.live /\ \A m \in net : ~m.live BY <1>3, <1>4 DEF Waiting
<1>6. CASE ReadDescriptor
  <2>1. net' = net /\ snd' = [Idle EXCEPT !.phase = "opening", !.desc = latest]
    BY <1>6 DEF ReadDescriptor
  <2>2. Idle \in Attempts /\ latest \in 0 .. MaxBuilds
    BY <1>2, BoundsAssumption DEF Idle, Attempts, LeaderSound
  <2>3. snd' \in Attempts /\ snd'.phase = "opening" BY <2>1, <2>2 DEF Attempts
  <2>4. snd'.phase \notin Waiting /\ snd'.phase # "done" BY <2>3 DEF Waiting
  <2>5. AttemptSound(snd', net', rx) /\ SuccessSound(snd', applied)
    BY <1>3, <1>5, <2>1, <2>3, <2>4 DEF AttemptSound, SuccessSound
  <2> QED BY <1>1, <2>5 DEF TransferInv, LeaderSound
<1>7. CASE OpenDescriptor /\ snd.desc \in objects
  <2> DEFINE t == <<vote, snd.desc>>
  <2>1. /\ snd' = [phase |-> "begin", t |-> t, off |-> 0, desc |-> snd.desc]
        /\ net' = net \cup {Request(t, "begin", 0)}
    BY <1>7 DEF OpenDescriptor
  <2>2. t \in Transfers BY <1>2, <1>7 DEF LeaderSound, Transfers
  <2>3. 0 \in 0 .. Chunks /\ "begin" \in Waiting /\ snd.desc \in 0 .. MaxBuilds
    BY <1>3, BoundsAssumption DEF Waiting, Attempts
  <2> HIDE DEF t
  <2>4. snd' \in Attempts /\ snd'.phase = "begin" /\ snd'.t = t /\ snd'.off = 0
    BY <2>1, <2>2, <2>3 DEF Attempts
  <2>5. Request(t, "begin", 0) \in Messages BY <2>2, <2>3 DEF Messages, Request
  <2>6. net' \subseteq Messages BY <1>3, <2>1, <2>5
  <2>7. \A m \in net' : m.live => m = Request(snd'.t, snd'.phase, snd'.off)
    BY <1>5, <2>1, <2>4
  <2>8. AttemptSound(snd', net', rx) /\ SuccessSound(snd', applied)
    BY <1>3, <1>5, <2>2, <2>4, <2>6, <2>7 DEF AttemptSound, SuccessSound
  <2> QED BY <1>1, <2>8 DEF TransferInv, LeaderSound
<1>8. CASE OpenDescriptor /\ snd.desc \notin objects
  <2>1. snd' = Idle /\ net' = net BY <1>8 DEF OpenDescriptor
  <2>2. AttemptSound(snd', net', rx) /\ SuccessSound(snd', applied)
    BY <1>3, <1>5, <2>1, IdleIsSound
  <2> QED BY <1>1, <2>2 DEF TransferInv, LeaderSound
<1> QED BY <1>6, <1>7, <1>8

(* begin_snapshot.                                                         *)
LEMMA BeginSound ==
    ASSUME TransferInv, NEW m \in net, BeginSnapshot(m)
    PROVE  TransferInv'
<1> DEFINE kept == DropAbandoned(stage)
           s == kept[m.t]
           r == Recover(WithIntent(s))
           begun == [kept EXCEPT ![m.t] = r]
<1>1. /\ UNCHANGED <<latest, objects, vote, applied, rx, damaged, faults, crashes>>
      /\ LockFree /\ installs' = Seen(Seen(installs, kept), stage')
      /\ \/ s.torn /\ stage' = kept /\ Refuse(m)
         \/ stage' = begun /\ Answer(m, begun[m.t].progress)
  BY DEF BeginSnapshot, leaderVars
<1>2. m.t \in Transfers BY DEF TransferInv, AttemptSound, Messages
<1>3. StagesSound(kept) /\ KeepsHeld(stage, kept) BY DropAbandonedSound DEF TransferInv
<1>4. StageSound(m.t, s) BY <1>2, <1>3 DEF StagesSound, StageSound
<1>5. StageSound(m.t, r) /\ (Held(m.t, s) => Held(m.t, r))
  BY <1>2, <1>4, RecoverSound, WithIntentSound
<1>6. kept \in [Transfers -> StageRecords] BY <1>3 DEF StagesSound
<1> HIDE DEF kept, r
<1>7. StagesSound(begun) /\ KeepsHeld(kept, begun) BY <1>2, <1>3, <1>5, ReplaceStage
<1>8. begun[m.t].progress \in 0 .. Chunks
  BY <1>2, <1>5, <1>6 DEF StageSound, StageRecords
<1>9. KeepsHeld(kept, kept) BY DEF KeepsHeld
<1> HIDE DEF begun, s
<1>10. StagesSound(stage') /\ KeepsHeld(kept, stage') BY <1>1, <1>3, <1>7, <1>9
<1>11. InstallsSound(Seen(installs, kept), kept) BY <1>3, KeepsHeldBySeen DEF TransferInv
<1>12. InstallsSound(installs', stage') BY <1>1, <1>10, <1>11, KeepsHeldBySeen
<1>13. AttemptSound(snd', net', rx) /\ SuccessSound(snd', applied)
  BY <1>1, <1>8, RefuseSound, AnswerSound DEF TransferInv
<1>14. HandlerSound(rx', installs', applied') BY <1>1, NoHandlerIsSound DEF LockFree
<1> QED BY <1>1, <1>10, <1>12, <1>13, <1>14 DEF TransferInv, LeaderSound

(* A chunk at the end of what the progress counts.                         *)
LEMMA WriteChunkSound ==
    ASSUME NEW t \in Transfers, NEW s, StageSound(t, s),
           NEW m, m.t = t, ChunkFits(s, m)
    PROVE  /\ StageSound(t, WriteChunk(s, m))
           /\ StageSound(t, [WriteChunk(s, m) EXCEPT !.progress = s.progress + 1])
           /\ StageSound(t, [s EXCEPT !.part = Append(s.part, Torn)])
           /\ s.progress + 1 \in 0 .. Chunks /\ ~Held(t, s)
<1>1. /\ s \in StageRecords /\ s.part \in Seq(Cells) /\ s.progress \in Nat
      /\ PrefixSound(t, s) /\ Chunks \in Nat
  BY TransferTypes DEF StageSound, StageRecords
<1>2. m.off = s.progress /\ Len(s.part) = s.progress /\ s.progress + 1 <= Chunks
  BY DEF ChunkFits
<1>3. \A i \in 1 .. s.progress : s.part[i] = <<t[2], i>> BY <1>1, <1>2 DEF PrefixSound
<1> DEFINE cell == <<m.t[2], m.off + 1>>
           p == s.progress
           c == Append(s.part, cell)
           d == Append(s.part, Torn)
<1>4. cell = <<t[2], p + 1>> /\ cell \in Cells /\ Torn \in Cells
  BY <1>1, <1>2, TransferTypes DEF Cells, Torn
<1> HIDE DEF cell
<1>5. /\ c \in Seq(Cells) /\ Len(c) = p + 1 /\ c[p + 1] = cell
      /\ \A i \in 1 .. p : c[i] = s.part[i]
  BY <1>1, <1>2, <1>4
<1>6. d \in Seq(Cells) /\ \A i \in 1 .. p : d[i] = s.part[i] BY <1>1, <1>2, <1>4
<1>7. \A i \in 1 .. p + 1 : c[i] = <<t[2], i>>
  <2> SUFFICES ASSUME NEW i \in 1 .. p + 1 PROVE c[i] = <<t[2], i>> OBVIOUS
  <2>1. CASE i = p + 1 BY <1>4, <1>5, <2>1
  <2>2. CASE i # p + 1
    <3>1. i \in 1 .. p BY <1>1, <2>2
    <3> QED BY <1>3, <1>5, <3>1
  <2> QED BY <2>1, <2>2
<1>8. p + 1 \in 0 .. Chunks /\ p \in 0 .. Chunks /\ p # Chunks BY <1>1, <1>2
<1>9. WriteChunk(s, m) = [s EXCEPT !.part = c] BY DEF WriteChunk, cell
<1>13. \A i \in 1 .. p : c[i] = <<t[2], i>> /\ d[i] = <<t[2], i>> BY <1>3, <1>5, <1>6
<1> DEFINE w == WriteChunk(s, m)
           v == [w EXCEPT !.progress = p + 1]
           u == [s EXCEPT !.part = d]
<1> HIDE DEF c, d
<1>10. w \in StageRecords /\ w.part = c /\ w.progress = p
  BY <1>1, <1>5, <1>9 DEF StageRecords
<1>11. u \in StageRecords /\ u.part = d /\ u.progress = p
  BY <1>1, <1>6 DEF StageRecords
<1> HIDE DEF w, u
<1>12. v \in StageRecords /\ v.part = c /\ v.progress = p + 1
  BY <1>8, <1>10 DEF StageRecords
<1> HIDE DEF v
<1>14. PrefixSound(t, w) /\ PrefixSound(t, u) BY <1>10, <1>11, <1>13 DEF PrefixSound
<1>15. PrefixSound(t, v) BY <1>7, <1>12 DEF PrefixSound
<1>16. ~Held(t, s) BY <1>8 DEF Held
<1>17. StageSound(t, w) /\ StageSound(t, v) /\ StageSound(t, u)
  BY <1>10, <1>11, <1>12, <1>14, <1>15 DEF StageSound
<1> QED BY <1>8, <1>16, <1>17 DEF w, v, u, d

(* put_snapshot_chunk.                                                     *)
LEMMA ChunkSound ==
    ASSUME TransferInv, NEW m \in net, PutSnapshotChunk(m)
    PROVE  TransferInv'
<1> DEFINE s == stage[m.t]
           v == [WriteChunk(s, m) EXCEPT !.progress = s.progress + 1]
<1>1. /\ UNCHANGED <<latest, objects, vote, applied, rx, damaged, faults, crashes>>
      /\ LockFree /\ installs' = Seen(installs, stage')
      /\ \/ ChunkFits(s, m) /\ stage' = [stage EXCEPT ![m.t] = v] /\ Answer(m, s.progress + 1)
         \/ stage' = stage /\ Refuse(m)
  BY DEF PutSnapshotChunk, leaderVars
<1>2. m.t \in Transfers BY DEF TransferInv, AttemptSound, Messages
<1>3. StagesSound(stage) BY DEF TransferInv
<1>4. StageSound(m.t, s) BY <1>2, <1>3 DEF StagesSound, StageSound
<1> HIDE DEF s
<1>5. ChunkFits(s, m) => StageSound(m.t, v) /\ ~Held(m.t, s) /\ s.progress + 1 \in 0 .. Chunks
  BY <1>2, <1>4, WriteChunkSound
<1> HIDE DEF v
<1>6. StagesSound(stage') /\ KeepsHeld(stage, stage')
  <2>1. CASE ChunkFits(s, m) /\ stage' = [stage EXCEPT ![m.t] = v]
    <3>1. ~Held(m.t, stage[m.t]) BY <1>5, <2>1 DEF s
    <3> QED BY <1>2, <1>3, <1>5, <2>1, <3>1, ReplaceStage
  <2>2. CASE stage' = stage BY <1>3, <2>2 DEF KeepsHeld
  <2> QED BY <1>1, <2>1, <2>2
<1>7. InstallsSound(installs', stage') BY <1>1, <1>6, KeepsHeldBySeen DEF TransferInv
<1>8. AttemptSound(snd', net', rx) /\ SuccessSound(snd', applied)
  BY <1>1, <1>5, RefuseSound, AnswerSound DEF TransferInv
<1>9. HandlerSound(rx', installs', applied') BY <1>1, NoHandlerIsSound DEF LockFree
<1> QED BY <1>1, <1>6, <1>7, <1>8, <1>9 DEF TransferInv, LeaderSound

(* finish_snapshot up to the installation.                                 *)
LEMMA FinishSound ==
    ASSUME TransferInv, NEW m \in net, FinishSnapshot(m)
    PROVE  TransferInv'
<1> DEFINE s == stage[m.t]
<1>1. /\ UNCHANGED <<latest, objects, vote, applied, damaged, faults, crashes>> /\ LockFree
  BY DEF FinishSnapshot, leaderVars
<1>2. m \in Messages /\ m.t \in Transfers /\ m.live \in BOOLEAN
  BY DEF TransferInv, AttemptSound, Messages
<1>3. StagesSound(stage) /\ InstallsSound(installs, stage) BY DEF TransferInv
<1>4. StageSound(m.t, s) BY <1>2, <1>3 DEF StagesSound, StageSound
<1>5. LeaderSound' BY <1>1 DEF TransferInv, LeaderSound
<1>6. CASE /\ Files \subseteq s.files /\ StageComplete(s, m.t)
           /\ rx' = [t |-> m.t, live |-> m.live, done |-> FALSE]
           /\ installs' = Append(installs, [t |-> m.t, data |-> s.part, linked |-> TRUE])
           /\ net' = net \ {m} /\ UNCHANGED <<snd, stage>>
  <2> DEFINE x == [t |-> m.t, data |-> s.part, linked |-> TRUE]
  <2>1. x \in InstallRecords BY <1>2, <1>4 DEF InstallRecords, StageSound, StageRecords
  <2>2. Held(m.t, s) BY <1>6 DEF Held, StageComplete, Files
  <2>3. InstallSound(x, stage) BY <2>2 DEF InstallSound, Held
  <2>4. x.t = m.t OBVIOUS
  <2>5. installs' = Append(installs, x) BY <1>6
  <2> HIDE DEF x, s
  <2>6. /\ installs' \in Seq(InstallRecords) /\ Len(installs') = Len(installs) + 1
        /\ Len(installs) \in Nat /\ installs'[Len(installs')] = x /\ installs' # <<>>
        /\ \A i \in 1 .. Len(installs) : installs'[i] = installs[i]
    BY <1>3, <2>1, <2>5 DEF InstallsSound
  <2>7. ASSUME NEW i \in 1 .. Len(installs') PROVE InstallSound(installs'[i], stage)
    <3>1. CASE i = Len(installs') BY <2>3, <2>6, <3>1
    <3>2. CASE i # Len(installs')
      <4>1. i \in 1 .. Len(installs) BY <2>6, <3>2
      <4> QED BY <1>3, <2>6, <4>1 DEF InstallsSound
    <3> QED BY <3>1, <3>2
  <2>8. InstallsSound(installs', stage') BY <1>6, <2>6, <2>7 DEF InstallsSound
  <2>9. rx' \in Handlers /\ rx'.t = m.t /\ rx'.live = m.live /\ rx'.done = FALSE
    BY <1>2, <1>6 DEF Handlers
  <2>10. HandlerSound(rx', installs', applied')
    BY <1>2, <2>4, <2>6, <2>9 DEF HandlerSound
  <2>11. AttemptSound(snd', net', rx')
    <3>1. AttemptSound(snd, net, rx) /\ snd' = snd /\ net' = net \ {m} BY <1>6 DEF TransferInv
    <3>2. /\ snd \in Attempts /\ net' \subseteq Messages
          /\ snd.phase \in Waiting => snd.t \in Transfers
          /\ \A k \in net' : k.live => k = Request(snd.t, snd.phase, snd.off)
      BY <3>1 DEF AttemptSound
    <3>3. ASSUME m.live PROVE snd.phase = "finish" /\ snd.t = m.t /\ \A k \in net' : ~k.live
      BY <3>1, <3>3, OneLiveRequest DEF FinishSnapshot
    <3> QED BY <2>9, <3>1, <3>2, <3>3 DEF AttemptSound
  <2>12. SuccessSound(snd', applied') BY <1>1, <1>6 DEF TransferInv
  <2> QED BY <1>1, <1>3, <1>5, <1>6, <2>8, <2>10, <2>11, <2>12 DEF TransferInv
<1>7. CASE /\ ~StageComplete(s, m.t) /\ Refuse(m) /\ rx' = rx
           /\ stage' = [stage EXCEPT ![m.t] = Reset(s)]
           /\ installs' = Seen(installs, stage')
  <2> DEFINE r == Reset(s)
             f == s.files \cup {"part", "progress"}
  <2>1. s \in StageRecords /\ s.files \subseteq Files BY <1>4 DEF StageSound, StageRecords
  <2>2. r = [s EXCEPT !.files = f, !.part = <<>>, !.progress = 0] BY DEF Reset
  <2>3. f \in SUBSET Files /\ <<>> \in Seq(Cells) /\ 0 \in 0 .. Chunks
    BY <2>1, BoundsAssumption DEF Files
  <2>4. ~Held(m.t, s) BY <1>7 DEF Held, StageComplete
  <2> HIDE DEF s, f, r
  <2>5. r \in StageRecords /\ r.progress = 0 BY <2>1, <2>2, <2>3 DEF StageRecords
  <2>6. StageSound(m.t, r) BY <2>5 DEF StageSound, PrefixSound
  <2>7. StagesSound(stage') /\ KeepsHeld(stage, stage')
    <3>1. ~Held(m.t, stage[m.t]) BY <2>4 DEF s
    <3>2. stage' = [stage EXCEPT ![m.t] = r] BY <1>7 DEF r
    <3> QED BY <1>2, <1>3, <2>6, <3>1, <3>2, ReplaceStage
  <2>8. InstallsSound(installs', stage') BY <1>3, <1>7, <2>7, KeepsHeldBySeen
  <2>9. AttemptSound(snd', net', rx) /\ SuccessSound(snd', applied)
    BY <1>1, <1>7, RefuseSound DEF TransferInv
  <2>10. HandlerSound(rx', installs', applied') BY <1>1, <1>7, NoHandlerIsSound DEF LockFree
  <2> QED BY <1>1, <1>5, <1>7, <2>7, <2>8, <2>9, <2>10 DEF TransferInv
<1>8. CASE Refuse(m) /\ UNCHANGED <<stage, installs, rx>>
  <2>1. AttemptSound(snd', net', rx) /\ SuccessSound(snd', applied)
    BY <1>1, <1>8, RefuseSound DEF TransferInv
  <2> QED BY <1>1, <1>3, <1>5, <1>8, <2>1 DEF TransferInv
<1> QED BY <1>6, <1>7, <1>8 DEF FinishSnapshot

(* The oldest artifact is installed; the waiting handler's is the last.    *)
LEMMA InstallStep ==
    ASSUME TransferInv, CompleteInstall PROVE TransferInv'
<1> DEFINE x == Head(installs)
           d == rx # NoHandler /\ Len(installs) = 1
<1>1. /\ UNCHANGED <<latest, objects, vote, snd, net, stage, faults, crashes>>
      /\ installs # <<>> /\ installs' = Tail(installs)
      /\ damaged' = (damaged \/ x.data # Whole(x.t))
      /\ applied' = IF x.t[2] > applied THEN x.t[2] ELSE applied
      /\ rx' = [rx EXCEPT !.done = d]
  BY DEF CompleteInstall, leaderVars
<1>2. /\ installs \in Seq(InstallRecords) /\ Len(installs) \in Nat /\ Len(installs) > 0
      /\ \A i \in 1 .. Len(installs) : InstallSound(installs[i], stage)
  BY <1>1 DEF TransferInv, InstallsSound
<1>3. x = installs[1] /\ x \in InstallRecords /\ InstallSound(x, stage) BY <1>2
<1>4. /\ Tail(installs) \in Seq(InstallRecords) /\ Len(Tail(installs)) = Len(installs) - 1
      /\ \A i \in 1 .. Len(installs) - 1 : Tail(installs)[i] = installs[i + 1]
  BY <1>1, <1>2
<1>5. InstallsSound(installs', stage')
  <2>1. ASSUME NEW i \in 1 .. Len(installs') PROVE InstallSound(installs'[i], stage)
    <3>1. i \in 1 .. Len(installs) - 1 /\ i + 1 \in 1 .. Len(installs) BY <1>1, <1>2, <1>4
    <3> QED BY <1>1, <1>2, <1>4, <3>1
  <2> QED BY <1>1, <1>4, <2>1 DEF InstallsSound
<1>6. damaged' = FALSE BY <1>1, <1>3 DEF TransferInv, InstallSound
<1>7. x.t \in Transfers /\ x.t[2] \in 1 .. MaxBuilds BY <1>3, TransferTypes DEF InstallRecords
<1>8. applied \in 0 .. MaxBuilds /\ MaxBuilds \in Nat
  BY BoundsAssumption DEF TransferInv, LeaderSound
<1>9. applied' \in 0 .. MaxBuilds /\ applied <= applied' /\ x.t[2] <= applied'
  BY <1>1, <1>7, <1>8
<1>10. LeaderSound' BY <1>1, <1>9 DEF TransferInv, LeaderSound
<1>11. rx \in Handlers /\ AttemptSound(snd, net, rx) /\ HandlerSound(rx, installs, applied)
  BY DEF TransferInv, AttemptSound
<1>12. d \in BOOLEAN OBVIOUS
<1>13. (d => rx # NoHandler /\ Len(installs) = 1) /\ (~d => rx = NoHandler \/ Len(installs) # 1)
  OBVIOUS
<1> HIDE DEF d, x
<1>14. rx' \in Handlers /\ rx'.t = rx.t /\ rx'.live = rx.live /\ rx'.done = d
  BY <1>1, <1>11, <1>12 DEF Handlers
<1>15. ~rx.done BY <1>1, <1>11 DEF HandlerSound
<1>16. rx = NoHandler => rx' = NoHandler
  <2> SUFFICES ASSUME rx = NoHandler PROVE rx' = NoHandler OBVIOUS
  <2>1. rx.done = FALSE BY DEF NoHandler
  <2>2. d = FALSE BY <1>12, <1>13
  <2>3. rx' = [rx EXCEPT !.done = rx.done] BY <1>1, <2>1, <2>2
  <2>4. rx' = rx BY <1>11, <2>3 DEF Handlers
  <2> QED BY <2>4
<1>17. HandlerSound(rx', installs', applied')
  <2>1. CASE rx = NoHandler BY <1>16, <2>1, NoHandlerIsSound
  <2>2. CASE rx # NoHandler
    <3>1. rx.t \in Transfers /\ installs[Len(installs)].t = rx.t
      BY <1>11, <1>15, <2>2 DEF HandlerSound
    <3>2. CASE d
      <4>1. Len(installs) = 1 /\ x.t = rx.t BY <1>3, <1>13, <3>1, <3>2
      <4>2. installs' = <<>> BY <1>1, <1>4, <4>1
      <4>3. rx'.t[2] <= applied' BY <1>9, <1>14, <4>1
      <4> QED BY <1>14, <3>1, <3>2, <4>2, <4>3 DEF HandlerSound
    <3>3. CASE ~d
      <4>0. Len(installs) # 1 BY <1>13, <2>2, <3>3
      <4>1. Len(installs) - 1 \in Nat /\ Len(installs) - 1 > 0
        <5> DEFINE n == Len(installs)
        <5>1. n \in Nat /\ n > 0 /\ n # 1 BY <1>2, <4>0
        <5> HIDE DEF n
        <5>2. n - 1 \in Nat /\ n - 1 > 0 BY <5>1
        <5> QED BY <5>2 DEF n
      <4>2. installs'[Len(installs')] = installs[Len(installs)] BY <1>1, <1>2, <1>4, <4>1
      <4>3. installs' # <<>>
        <5>1. Len(installs') > 0 BY <1>1, <1>4, <4>1
        <5> QED BY <5>1
      <4> QED BY <1>14, <3>1, <3>3, <4>2, <4>3 DEF HandlerSound
    <3> QED BY <1>12, <3>2, <3>3
  <2> QED BY <2>1, <2>2
<1>18. AttemptSound(snd', net', rx') BY <1>1, <1>11, <1>14 DEF AttemptSound
<1>19. SuccessSound(snd', applied')
  <2>1. snd.t[2] \in Nat BY <1>11, TransferTypes DEF AttemptSound, Attempts, NoTransfer
  <2>2. applied \in Nat /\ applied' \in Nat BY <1>8, <1>9
  <2>3. snd.phase = "done" => snd.t[2] <= applied BY DEF TransferInv, SuccessSound
  <2> QED BY <1>1, <1>9, <2>1, <2>2, <2>3 DEF SuccessSound
<1> QED BY <1>1, <1>5, <1>6, <1>10, <1>17, <1>18, <1>19 DEF TransferInv, StagesSound

(* finish_snapshot after the installation.                                 *)
LEMMA EndFinishSound ==
    ASSUME TransferInv, EndFinish PROVE TransferInv'
<1> DEFINE su == DropSuperseded(stage, rx.t)
           s == Remove(stage[rx.t], Files)
<1>1. /\ UNCHANGED <<latest, objects, vote, net, applied, damaged, faults, crashes>>
      /\ rx.done /\ rx' = NoHandler
      /\ stage' = [su EXCEPT ![rx.t] = s] /\ installs' = Seen(installs, stage')
      /\ snd' = IF rx.live THEN [snd EXCEPT !.phase = "done"] ELSE snd
  BY DEF EndFinish, leaderVars
<1>2. /\ StagesSound(stage) /\ HandlerSound(rx, installs, applied)
      /\ AttemptSound(snd, net, rx) /\ InstallsSound(installs, stage)
  BY DEF TransferInv
<1>3. rx # NoHandler BY <1>1 DEF NoHandler
<1>4. rx.t \in Transfers /\ rx.t[2] <= applied /\ installs = <<>>
  BY <1>1, <1>2, <1>3 DEF HandlerSound
<1>5. StagesSound(su) BY <1>2, <1>4, DropSupersededSound
<1>6. StageSound(rx.t, stage[rx.t]) BY <1>2, <1>4 DEF StagesSound, StageSound
<1>7. Files \in SUBSET Files /\ "part" \in Files BY DEF Files
<1>8. StageSound(rx.t, s) /\ "part" \notin s.files BY <1>4, <1>6, <1>7, RemoveSound
<1> HIDE DEF su, s
<1>9. StagesSound(stage') BY <1>1, <1>4, <1>5, <1>8, ReplaceStage
<1>10. InstallsSound(installs', stage')
  <2>1. installs' = <<>> BY <1>1, <1>4 DEF Seen
  <2> QED BY <2>1 DEF InstallsSound
<1>11. HandlerSound(rx', installs', applied') BY <1>1, NoHandlerIsSound
<1>12. AttemptSound(snd', net', rx') /\ SuccessSound(snd', applied')
  <2>1. CASE rx.live
    <3>1. snd \in Attempts /\ net \subseteq Messages /\ snd.t = rx.t /\ (\A m \in net : ~m.live)
      BY <1>2, <2>1 DEF AttemptSound
    <3>2. snd' = [snd EXCEPT !.phase = "done"] BY <1>1, <2>1
    <3>3. snd' \in Attempts /\ snd'.t = snd.t /\ snd'.phase = "done"
      BY <3>1, <3>2 DEF Attempts
    <3>4. snd'.phase \notin Waiting BY <3>3 DEF Waiting
    <3> QED BY <1>1, <1>4, <3>1, <3>3, <3>4, NoHandlerIsSound DEF AttemptSound, SuccessSound
  <2>2. CASE ~rx.live
    <3>1. snd' = snd BY <1>1, <2>2
    <3> QED BY <1>1, <1>2, <3>1, NoHandlerIsSound DEF AttemptSound, TransferInv
  <2> QED BY <2>1, <2>2
<1> QED BY <1>1, <1>9, <1>10, <1>11, <1>12 DEF TransferInv, LeaderSound

(* Whatever a crash leaves of a stage, its progress does not lie.          *)
LEMMA TornStageSound ==
    ASSUME StagesSound(stage), NEW m \in Messages,
           NEW s \in TornStages(m)
    PROVE  StageSound(m.t, s)
<1> DEFINE o == stage[m.t]
<1>1. m.t \in Transfers /\ m.op \in {"begin", "chunk", "finish"} BY DEF Messages, Waiting
<1>2. StageSound(m.t, o) BY <1>1 DEF StagesSound, StageSound
<1>3. /\ o \in StageRecords /\ o.files \subseteq Files /\ PrefixSound(m.t, o)
  BY <1>2 DEF StageSound, StageRecords
<1> DEFINE f == o.files \cup {"intent"}
           g == o.files \cup {"intent", "part"}
<1>4. f \in SUBSET Files /\ g \in SUBSET Files /\ <<>> \in Seq(Cells) /\ TRUE \in BOOLEAN
  BY <1>3 DEF Files
<1>5. CASE m.op = "begin"
  <2>1. \/ s = [o EXCEPT !.files = f, !.torn = TRUE] \/ s = [o EXCEPT !.files = f]
        \/ s = [o EXCEPT !.files = g] \/ s = o
        \/ \E gone \in SUBSET Files : s = Remove(o, gone)
    BY <1>5 DEF TornStages
  <2> HIDE DEF o, f, g
  <2>2. CASE s = [o EXCEPT !.files = f, !.torn = TRUE]
    <3>1. s \in StageRecords /\ s.part = o.part /\ s.progress = o.progress
      BY <1>3, <1>4, <2>2 DEF StageRecords
    <3> QED BY <1>3, <3>1 DEF StageSound, PrefixSound
  <2>3. CASE s = [o EXCEPT !.files = f]
    <3>1. s \in StageRecords /\ s.part = o.part /\ s.progress = o.progress
      BY <1>3, <1>4, <2>3 DEF StageRecords
    <3> QED BY <1>3, <3>1 DEF StageSound, PrefixSound
  <2>4. CASE s = [o EXCEPT !.files = g]
    <3>1. s \in StageRecords /\ s.part = o.part /\ s.progress = o.progress
      BY <1>3, <1>4, <2>4 DEF StageRecords
    <3> QED BY <1>3, <3>1 DEF StageSound, PrefixSound
  <2>5. CASE s = o BY <1>2, <2>5
  <2>6. CASE \E gone \in SUBSET Files : s = Remove(o, gone)
    BY <1>1, <1>2, <2>6, RemoveSound
  <2> QED BY <2>1, <2>2, <2>3, <2>4, <2>5, <2>6
<1>6. CASE m.op = "chunk"
  <2>1. \/ ChunkFits(o, m) /\ (s = [o EXCEPT !.part = Append(o.part, Torn)] \/ s = WriteChunk(o, m))
        \/ s = o
    BY <1>6 DEF TornStages
  <2> HIDE DEF o
  <2> QED BY <1>1, <1>2, <2>1, WriteChunkSound
<1>7. CASE m.op = "finish"
  <2>1. s = [o EXCEPT !.part = <<>>] \/ s = o BY <1>7 DEF TornStages
  <2> HIDE DEF o
  <2>2. CASE s = [o EXCEPT !.part = <<>>]
    <3>1. s \in StageRecords /\ s.part = <<>> /\ s.progress = o.progress
      BY <1>3, <1>4, <2>2 DEF StageRecords
    <3>2. o.progress \in Nat BY <1>3, TransferTypes, <1>1 DEF StageRecords
    <3>3. PrefixSound(m.t, s) BY <3>1, <3>2 DEF PrefixSound
    <3> QED BY <3>1, <3>3 DEF StageSound
  <2>3. CASE s = o BY <1>2, <2>3
  <2> QED BY <2>1, <2>2, <2>3
<1> QED BY <1>1, <1>5, <1>6, <1>7

(* The follower restarts, inside a handler or between two.                 *)
LEMMA CrashSound ==
    ASSUME TransferInv, Crash PROVE TransferInv'
<1>1. /\ UNCHANGED <<latest, objects, vote, applied, damaged, faults>>
      /\ net' = {} /\ rx' = NoHandler /\ installs' = <<>>
      /\ snd' = IF snd.phase \in Waiting THEN Idle ELSE snd
      /\ crashes < MaxCrashes /\ crashes' = crashes + 1
  BY DEF Crash, leaderVars
<1>2. StagesSound(stage) /\ AttemptSound(snd, net, rx) /\ HandlerSound(rx, installs, applied)
  BY DEF TransferInv
<1>3. StagesSound(stage')
  <2>1. CASE \E m \in net : \E s \in TornStages(m) : stage' = [stage EXCEPT ![m.t] = s]
    <3>1. PICK m \in net : \E s \in TornStages(m) : stage' = [stage EXCEPT ![m.t] = s]
      BY <2>1
    <3>2. PICK s \in TornStages(m) : stage' = [stage EXCEPT ![m.t] = s] BY <3>1
    <3>3. m \in Messages /\ m.t \in Transfers BY <1>2 DEF AttemptSound, Messages
    <3>4. StageSound(m.t, s) BY <1>2, <3>3, TornStageSound
    <3>5. /\ stage \in [Transfers -> StageRecords] /\ s \in StageRecords
          /\ \A u \in Transfers : PrefixSound(u, stage[u])
          /\ PrefixSound(m.t, s)
      BY <1>2, <3>4 DEF StagesSound, StageSound
    <3>6. stage' \in [Transfers -> StageRecords] BY <3>2, <3>5
    <3>7. \A u \in Transfers : stage'[u] = IF u = m.t THEN s ELSE stage[u] BY <3>2, <3>5
    <3>8. \A u \in Transfers : PrefixSound(u, stage'[u]) BY <3>5, <3>7
    <3> QED BY <3>6, <3>8 DEF StagesSound
  <2>2. CASE rx.done /\ \E gone \in SUBSET Files :
                stage' = [DropSuperseded(stage, rx.t) EXCEPT ![rx.t] = Remove(stage[rx.t], gone)]
    <3>1. PICK gone \in SUBSET Files :
              stage' = [DropSuperseded(stage, rx.t) EXCEPT ![rx.t] = Remove(stage[rx.t], gone)]
      BY <2>2
    <3> DEFINE su == DropSuperseded(stage, rx.t)
               s == Remove(stage[rx.t], gone)
    <3>2. rx # NoHandler BY <2>2 DEF NoHandler
    <3>3. rx.t \in Transfers BY <1>2, <3>2 DEF HandlerSound
    <3>4. StageSound(rx.t, stage[rx.t]) BY <1>2, <3>3 DEF StagesSound, StageSound
    <3>5. StageSound(rx.t, s) BY <3>3, <3>4, RemoveSound
    <3>6. StagesSound(su) BY <1>2, <3>3, DropSupersededSound
    <3>7. stage' = [su EXCEPT ![rx.t] = s] BY <3>1
    <3> HIDE DEF su, s
    <3>8. /\ su \in [Transfers -> StageRecords] /\ s \in StageRecords
          /\ \A u \in Transfers : PrefixSound(u, su[u])
          /\ PrefixSound(rx.t, s)
      BY <3>5, <3>6 DEF StagesSound, StageSound
    <3>9. stage' \in [Transfers -> StageRecords] BY <3>7, <3>8
    <3>10. \A u \in Transfers : stage'[u] = IF u = rx.t THEN s ELSE su[u] BY <3>7, <3>8
    <3>11. \A u \in Transfers : PrefixSound(u, stage'[u]) BY <3>8, <3>10
    <3> QED BY <3>9, <3>11 DEF StagesSound
  <2>3. CASE stage' = stage BY <1>2, <2>3
  <2> QED BY <2>1, <2>2, <2>3 DEF Crash
<1>4. LeaderSound'
  BY <1>1, BoundsAssumption DEF TransferInv, LeaderSound
<1>5. InstallsSound(installs', stage') BY <1>1 DEF InstallsSound
<1>6. HandlerSound(rx', installs', applied') BY <1>1, NoHandlerIsSound
<1>7. AttemptSound(snd', net', rx') /\ SuccessSound(snd', applied')
  <2>1. net' \in SUBSET Messages /\ (\A m \in net' : ~m.live) /\ rx' \in Handlers /\ ~rx'.live
    BY <1>1, NoHandlerIsSound
  <2>2. CASE snd.phase \in Waiting
    <3>1. snd' = Idle BY <1>1, <2>2
    <3> QED BY <2>1, <3>1, IdleIsSound
  <2>3. CASE snd.phase \notin Waiting
    <3>1. snd' = snd BY <1>1, <2>3
    <3>2. AttemptSound(snd', net', rx') BY <1>2, <2>1, <2>3, <3>1 DEF AttemptSound
    <3> QED BY <1>1, <3>1, <3>2 DEF TransferInv
  <2> QED BY <2>2, <2>3
<1> QED BY <1>1, <1>3, <1>4, <1>5, <1>6, <1>7 DEF TransferInv

(* Time passes over an intent file.                                        *)
LEMMA GrowOldSound ==
    ASSUME TransferInv, NEW t \in Transfers, GrowOld(t)
    PROVE  TransferInv'
<1> DEFINE s == [stage[t] EXCEPT !.old = TRUE]
<1>1. /\ UNCHANGED <<latest, objects, vote, snd, net, applied, rx, installs, damaged, faults, crashes>>
      /\ stage' = [stage EXCEPT ![t] = s]
  BY DEF GrowOld, leaderVars
<1>2. StagesSound(stage) /\ InstallsSound(installs, stage) BY DEF TransferInv
<1>3. stage[t] \in StageRecords /\ PrefixSound(t, stage[t]) BY <1>2 DEF StagesSound
<1>4. /\ s \in StageRecords /\ s.part = stage[t].part /\ s.progress = stage[t].progress
      /\ s.files = stage[t].files
  BY <1>3 DEF StageRecords
<1> HIDE DEF s
<1>5. StageSound(t, s) BY <1>3, <1>4 DEF StageSound, PrefixSound
<1>6. Held(t, stage[t]) => Held(t, s) BY <1>4 DEF Held
<1>7. StagesSound(stage') BY <1>1, <1>2, <1>5, <1>6, ReplaceStage
<1>8. \A u \in Transfers : Held(u, stage[u]) => Held(u, stage'[u])
  <2>1. \A u \in Transfers : stage'[u] = IF u = t THEN s ELSE stage[u]
    BY <1>1, <1>2 DEF StagesSound
  <2> QED BY <1>6, <2>1
<1>9. InstallsSound(installs', stage')
  <2>1. ASSUME NEW i \in 1 .. Len(installs) PROVE InstallSound(installs[i], stage')
    <3>1. installs[i] \in InstallRecords /\ InstallSound(installs[i], stage)
      BY <1>2 DEF InstallsSound
    <3>2. installs[i].t \in Transfers BY <3>1 DEF InstallRecords
    <3> QED BY <1>8, <3>1, <3>2 DEF InstallSound
  <2> QED BY <1>1, <1>2, <2>1 DEF InstallsSound
<1> QED BY <1>1, <1>7, <1>9 DEF TransferInv, LeaderSound

(* Nothing is under way at first.                                          *)
LEMMA TransferInit == ASSUME InitTransfer PROVE TransferInv
<1>1. LeaderSound BY BoundsAssumption DEF InitTransfer, LeaderSound
<1>2. StagesSound(stage)
  <2>1. NoStage \in StageRecords /\ NoStage.progress = 0
    BY BoundsAssumption DEF NoStage, StageRecords
  <2>2. \A t \in Transfers : PrefixSound(t, NoStage) BY <2>1 DEF PrefixSound
  <2> QED BY <2>1, <2>2 DEF InitTransfer, StagesSound
<1>3. InstallsSound(installs, stage) BY DEF InitTransfer, InstallsSound
<1>4. AttemptSound(snd, net, rx) /\ SuccessSound(snd, applied)
  <2>1. NoHandler \in Handlers /\ ~NoHandler.live BY NoHandlerIsSound
  <2>2. {} \in SUBSET Messages /\ \A m \in {} : ~m.live OBVIOUS
  <2>3. AttemptSound(Idle, {}, NoHandler) /\ SuccessSound(Idle, applied)
    BY ONLY <2>1, <2>2, IdleIsSound
  <2> QED BY <2>3 DEF InitTransfer
<1>5. HandlerSound(rx, installs, applied) BY NoHandlerIsSound DEF InitTransfer
<1> QED BY <1>1, <1>2, <1>3, <1>4, <1>5 DEF TransferInv, InitTransfer

(* Every step keeps the invariant.                                         *)
LEMMA TransferStep ==
    ASSUME TransferInv, [NextTransfer]_transferVars PROVE TransferInv'
<1>1. CASE BuildSnapshot \/ CollectObjects BY <1>1, LeaderStepSound
<1>2. CASE ReadDescriptor \/ OpenDescriptor BY <1>2, AttemptSteps
<1>3. CASE GiveUp \/ NewVote BY <1>3, GiveUpSound
<1>4. ASSUME NEW m \in net, BeginSnapshot(m) PROVE TransferInv' BY <1>4, BeginSound
<1>5. ASSUME NEW m \in net, PutSnapshotChunk(m) PROVE TransferInv' BY <1>5, ChunkSound
<1>6. ASSUME NEW m \in net, FinishSnapshot(m) PROVE TransferInv' BY <1>6, FinishSound
<1>7. CASE CompleteInstall BY <1>7, InstallStep
<1>8. CASE EndFinish BY <1>8, EndFinishSound
<1>9. CASE Crash BY <1>9, CrashSound
<1>10. ASSUME NEW t \in Transfers, GrowOld(t) PROVE TransferInv' BY <1>10, GrowOldSound
<1>11. CASE UNCHANGED transferVars BY <1>11 DEF TransferInv, transferVars, LeaderSound
<1> QED BY <1>1, <1>2, <1>3, <1>4, <1>5, <1>6, <1>7, <1>8, <1>9, <1>10, <1>11 DEF NextTransfer

(* The invariant says what the run checks.                                 *)
LEMMA TransferInvSuffices ==
    ASSUME TransferInv PROVE TransfersAreTrue /\ TransferTypeOK
<1>1. ASSUME NEW t \in Transfers, stage[t].progress <= Len(stage[t].part)
      PROVE  SubSeq(stage[t].part, 1, stage[t].progress)
                 = SubSeq(Whole(t), 1, stage[t].progress)
  <2> DEFINE s == stage[t]
             p == s.progress
             w == Whole(t)
  <2>1. /\ s \in StageRecords /\ s.part \in Seq(Cells) /\ p \in 0 .. Chunks
        /\ \A i \in 1 .. p : s.part[i] = <<t[2], i>>
    BY <1>1 DEF TransferInv, StagesSound, StageRecords, PrefixSound
  <2>2. /\ w \in Seq(Cells) /\ Len(w) = Chunks /\ Chunks \in Nat
        /\ \A i \in 1 .. Chunks : w[i] = <<t[2], i>>
    BY TransferTypes
  <2>3. p \in Nat /\ p <= Len(w) /\ p <= Len(s.part) BY <1>1, <2>1, <2>2
  <2>4. SubSeq(s.part, 1, p) = [i \in 1 .. p |-> s.part[i]]
    <3> HIDE DEF p
    <3> QED BY <2>1, <2>3
  <2>5. SubSeq(w, 1, p) = [i \in 1 .. p |-> w[i]]
    <3> HIDE DEF p, w
    <3> QED BY <2>2, <2>3
  <2>6. \A i \in 1 .. p : s.part[i] = w[i]
    <3> HIDE DEF p, w, s
    <3>1. 1 .. p \subseteq 1 .. Chunks BY <2>2, <2>3
    <3> QED BY <2>1, <2>2, <3>1
  <2> QED BY <2>4, <2>5, <2>6
<1>2. StageIsPrefix BY <1>1 DEF StageIsPrefix
<1>3. InstallReadsWholeArtifact
  BY DEF TransferInv, InstallsSound, InstallSound, InstallReadsWholeArtifact
<1>4. SuccessMeansInstalled
  <2>1. applied \in Nat /\ snd.t[2] \in Nat
    BY TransferTypes, BoundsAssumption DEF TransferInv, LeaderSound, AttemptSound, Attempts, NoTransfer
  <2> QED BY <2>1 DEF TransferInv, SuccessSound, SuccessMeansInstalled
<1>5. TransferTypeOK
  <2>1. \A t \in Transfers :
          /\ stage[t].files \subseteq Files
          /\ stage[t].torn \in BOOLEAN /\ stage[t].old \in BOOLEAN
          /\ stage[t].progress \in 0 .. Chunks
    BY DEF TransferInv, StagesSound, StageRecords
  <2>2. rx.t \in Transfers \cup {NoTransfer} BY DEF TransferInv, AttemptSound, Handlers
  <2>3. /\ snd \in [phase : {"idle", "opening", "done"} \cup Waiting,
                    t : Transfers \cup {NoTransfer}, off : 0 .. Chunks, desc : 0 .. MaxBuilds]
        /\ \A m \in net : m \in [t : Transfers, op : Waiting, off : 0 .. Chunks, live : BOOLEAN]
    BY DEF TransferInv, AttemptSound, Attempts, Messages
  <2>4. damaged \in BOOLEAN BY DEF TransferInv
  <2> QED BY <2>1, <2>2, <2>3, <2>4 DEF TransferInv, LeaderSound, TransferTypeOK
<1> QED BY <1>2, <1>3, <1>4, <1>5 DEF TransfersAreTrue

(* What the three ends of a snapshot transfer believe is true, for every   *)
(* number of chunks, artifacts, votes, losses and crashes: the progress    *)
(* stored by put_snapshot_chunk counts chunks of the artifact, whatever a  *)
(* crash tore; an artifact finish_snapshot handed to Openraft is read      *)
(* whole, although the handler that holds the lock may be dropped and the  *)
(* transfer begun or abandoned meanwhile; and a transfer full_snapshot     *)
(* saw succeed is installed.                                               *)
THEOREM SnapshotTransfersAreTrue ==
    TransferSpec => [](TransfersAreTrue /\ TransferTypeOK)
<1>1. InitTransfer => TransferInv BY TransferInit
<1>2. TransferInv /\ [NextTransfer]_transferVars => TransferInv' BY TransferStep
<1>3. TransferInv => TransfersAreTrue /\ TransferTypeOK BY TransferInvSuffices
<1> QED BY <1>1, <1>2, <1>3, PTL DEF TransferSpec
=============================================================================
