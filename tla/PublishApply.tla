---------------------------- MODULE PublishApply ----------------------------
(***************************************************************************)
(* The publish state machine of one data group: how one replica applies    *)
(* the committed log (light-stream-storage/src/lib.rs, PublishApplyTxn,    *)
(* apply_command, the partition bookmarks and the mutation fence).         *)
(*                                                                         *)
(* `db` is the durable state, written by one synced WriteBatch per log     *)
(* entry.  While a PublishMany entry is being applied the batch is staged  *)
(* in `staged`, with the receipts decided so far cached in `outcomes`; a   *)
(* crash before the write discards both and the entry is applied again.    *)
(* Clients submit any request in any order, any number of times: retries,  *)
(* duplicates, reordered sequences and reused sequences all occur.         *)
(***************************************************************************)
EXTENDS Integers, Sequences, FiniteSets

CONSTANTS
    Cluster,        \* the cluster this group belongs to
    Partitions,     \* partitions the group owns
    Sessions,       \* producer sessions (principal and session id)
    Sequences_,     \* request sequence numbers
    Names,          \* bookmark names
    Payloads,       \* record contents
    Requests,       \* publish requests clients may submit
    BookmarkIds,    \* bookmark ids chosen by CreateBookmark callers
    BookmarkCommands, \* CreateBookmark and DeleteBookmark commands callers may submit
    None,           \* an absent optional value
    ReceiptWindow,  \* receipts kept per session
    MaxOffset,      \* largest record offset (u64::MAX in the code)
    MaxBytes,       \* largest byte position (u64::MAX in the code)
    MaxBatch,       \* bound: requests in one PublishMany
    MaxLog,         \* bound: committed entries
    MaxUnapplied    \* bound: committed entries not yet applied

(* The identity of a request: its receipt key.                             *)
RequestIds == [partition : Partitions, session : Sessions, sequence : Sequences_]

IdOf(r) == [partition |-> r.partition, session |-> r.session, sequence |-> r.sequence]

ASSUME ConstantsAssumption ==
    /\ ReceiptWindow \in Nat \ {0}
    /\ MaxOffset \in Nat /\ MaxBytes \in Nat
    /\ MaxBatch \in Nat /\ MaxLog \in Nat /\ MaxUnapplied \in Nat
    /\ Sequences_ \subseteq Nat

(* A request carries at least one record: PublishBatch::new validates it.  *)
ASSUME RequestsAssumption ==
    \A r \in Requests :
        /\ IdOf(r) \in RequestIds
        /\ r.records \in Seq(Payloads) /\ Len(r.records) > 0
        /\ r.bytes \in Nat
        /\ r.bookmark \in Names \cup {None}

(* Publish bookmarks are named by log index and request ordinal.           *)
PublishBookmarkIds == (1 .. MaxLog) \X (1 .. MaxBatch)
AllBookmarkIds == BookmarkIds \cup PublishBookmarkIds

ASSUME BookmarkCommandsAssumption ==
    BookmarkCommands \subseteq
        [type : {"CreateBookmark"}, id : BookmarkIds, partition : Partitions,
         name : Names, offset : 0 .. MaxOffset]
          \cup [type : {"DeleteBookmark"}, id : AllBookmarkIds, partition : Partitions]

VARIABLES
    log,        \* committed entries, in log order
    applied,    \* index of the last entry whose WriteBatch is durable
    db,         \* durable state
    pos,        \* next request of the entry being applied, 0 when idle
    slot,       \* first_payload_slot of that request
    staged,     \* the state the WriteBatch under construction would leave
    outcomes,   \* PublishApplyTxn.outcomes
    outs,       \* item results so far
    answered    \* history: <<request, reply>> pairs sent to clients

txn == <<pos, slot, staged, outcomes, outs>>
vars == <<log, applied, db, pos, slot, staged, outcomes, outs, answered>>

-----------------------------------------------------------------------------
(* Results.                                                                *)

Published(first, count, bookmark) ==
    [ok |-> TRUE, first |-> first, count |-> count, bookmark |-> bookmark]
Failed(error) == [ok |-> FALSE, error |-> error]

Outcome(r, result) == [request |-> r, result |-> result]

(* Deterministic results: they are stored and consume the sequence.        *)
StoredErrors == {"BookmarkNameConflict", "InvalidRange", "ByteOverflow"}
Durable(result) == result.ok \/ result.error \in StoredErrors

NoSession == [highest |-> -1, retained |-> <<>>]

EmptyOutcomes == [id \in RequestIds |-> None]

InitialDb ==
    [ receipts    |-> EmptyOutcomes,
      sessions    |-> [ps \in Partitions \X Sessions |-> NoSession],
      next        |-> [p \in Partitions |-> 0],
      bytes       |-> [p \in Partitions |-> 0],
      records     |-> [p \in Partitions |-> [o \in 0 .. MaxOffset - 1 |-> None]],
      bookmarks   |-> [id \in AllBookmarkIds |-> None],
      names       |-> [pn \in Partitions \X Names |-> None],
      order       |-> [p \in Partitions |-> {}],
      publication |-> [p \in Partitions |-> 0],
      fence       |-> FALSE ]

-----------------------------------------------------------------------------
(* Commands.                                                               *)

PublishManys ==
    {[type |-> "PublishMany", requests |-> batch] :
        batch \in UNION {[1 .. n -> Requests] : n \in 1 .. MaxBatch}}

FenceCommands == [type : {"AcquireFence", "ReleaseFence"}]

Commands == PublishManys \cup BookmarkCommands \cup FenceCommands

Entry == log[applied + 1]
Request == Entry.requests[pos]

-----------------------------------------------------------------------------
(* The pieces of PublishApplyTxn.                                          *)

(* prior_outcome: the transaction's cache, then the durable state as it    *)
(* was before this entry: evictions staged by earlier items do not show.   *)
PriorOutcome(id) == IF outcomes[id] # None THEN outcomes[id] ELSE db.receipts[id]

Replay(stored, r) ==
    IF stored.request = r THEN stored.result ELSE Failed("ReceiptConflict")

SessionOf(w, id) == w.sessions[<<id.partition, id.session>>]

StoreOutcome(w, r, result) ==
    [w EXCEPT !.receipts = [w.receipts EXCEPT ![IdOf(r)] = Outcome(r, result)]]

(* advance_session: the sequence becomes the highest, and the oldest        *)
(* receipt leaves the window when it is full.                              *)
Evicted(w, id) ==
    LET retained == Append(SessionOf(w, id).retained, id.sequence)
    IN  IF Len(retained) > ReceiptWindow
          THEN {[id EXCEPT !.sequence = Head(retained)]}
          ELSE {}

AdvanceSession_ForgetsHighest(w, id) ==
    LET retained == Append(SessionOf(w, id).retained, id.sequence)
    IN  [w EXCEPT
           !.receipts = [k \in RequestIds |->
                            IF k \in Evicted(w, id) THEN None ELSE w.receipts[k]],
           !.sessions = [w.sessions EXCEPT ![<<id.partition, id.session>>].retained =
               IF Evicted(w, id) = {} THEN retained ELSE Tail(retained)]]

AdvanceSession(w, id) ==
    LET retained == Append(SessionOf(w, id).retained, id.sequence)
    IN  [w EXCEPT
           !.receipts = [k \in RequestIds |->
                            IF k \in Evicted(w, id) THEN None ELSE w.receipts[k]],
           !.sessions = [w.sessions EXCEPT ![<<id.partition, id.session>>] =
               [highest  |-> id.sequence,
                retained |-> IF Evicted(w, id) = {} THEN retained ELSE Tail(retained)]]]

(* create_publish_bookmark: the id, name and order indexes and the         *)
(* partition's publication counter move together.                          *)
Bookmark(id, p, name, offset, publication) ==
    [id |-> id, partition |-> p, name |-> name, offset |-> offset,
     publication |-> publication, deleted |-> FALSE]

PutBookmark(w, b) ==
    [w EXCEPT
       !.bookmarks   = [w.bookmarks EXCEPT ![b.id] = b],
       !.names       = [w.names EXCEPT ![<<b.partition, b.name>>] = b.id],
       !.order       = [w.order EXCEPT ![b.partition] = @ \cup {<<b.publication, b.id>>}],
       !.publication = [w.publication EXCEPT ![b.partition] = b.publication]]

PublishBookmark(w, r) ==
    IF r.bookmark = None
      THEN None
      ELSE Bookmark(<<applied + 1, pos>>, r.partition, r.bookmark,
                    w.next[r.partition] + Len(r.records),
                    w.publication[r.partition] + 1)

(* The record loop: record i of the request takes offset first + i and     *)
(* the payload in flat slot first_payload_slot + i of this log entry.      *)
(* `request` is a history field: it names the request the record is of.    *)
PutRecords(w, r) ==
    LET first == w.next[r.partition]
        count == Len(r.records)
    IN  [w EXCEPT
           !.records = [w.records EXCEPT ![r.partition] =
              [o \in 0 .. MaxOffset - 1 |->
                 IF o \in first .. first + count - 1
                   THEN [entry |-> applied + 1, slot |-> slot + (o - first),
                         request |-> IdOf(r)]
                   ELSE @[o]]],
           !.next  = [w.next EXCEPT ![r.partition] = first + count],
           !.bytes = [w.bytes EXCEPT ![r.partition] = @ + r.bytes]]

-----------------------------------------------------------------------------
(* apply_one, one action per return.                                       *)

Applying == pos > 0 /\ pos <= Len(Entry.requests)

Answer_SlotsOfEffectsOnly(result) ==
    /\ outs' = Append(outs, result)
    /\ pos' = pos + 1
    /\ slot' = IF result.ok THEN slot + Len(Request.records) ELSE slot
    /\ UNCHANGED <<log, applied, db, answered>>

Answer(result) ==
    /\ outs' = Append(outs, result)
    /\ pos' = pos + 1
    /\ slot' = slot + Len(Request.records)
    /\ UNCHANGED <<log, applied, db, answered>>

ReturnWithoutEffect(result) ==
    /\ Answer(result)
    /\ UNCHANGED <<staged, outcomes>>

(* store_outcome, then advance_session.                                    *)
Decide(w, result) ==
    LET id == IdOf(Request)
    IN  /\ Answer(result)
        /\ staged' = AdvanceSession(StoreOutcome(w, Request, result), id)
        /\ outcomes' = [k \in RequestIds |->
                          IF k \in Evicted(w, id) THEN None
                          ELSE IF k = id THEN Outcome(Request, result)
                          ELSE outcomes[k]]

ForeignCluster ==
    /\ Applying
    /\ Request.cluster # Cluster
    /\ ReturnWithoutEffect(Failed("IdentityMismatch"))

ReplayReceipt ==
    /\ Applying
    /\ Request.cluster = Cluster
    /\ PriorOutcome(IdOf(Request)) # None
    /\ ReturnWithoutEffect(Replay(PriorOutcome(IdOf(Request)), Request))

Unseen ==
    /\ Applying
    /\ Request.cluster = Cluster
    /\ PriorOutcome(IdOf(Request)) = None

RejectExpired ==
    /\ Unseen
    /\ Request.sequence <= SessionOf(staged, IdOf(Request)).highest
    /\ ReturnWithoutEffect(Failed("ReceiptExpired"))

Fresh_IgnoresHighest == Unseen

Fresh ==
    /\ Unseen
    /\ Request.sequence > SessionOf(staged, IdOf(Request)).highest

NameIsUsed ==
    /\ Request.bookmark # None
    /\ staged.names[<<Request.partition, Request.bookmark>>] # None

RangeFits == staged.next[Request.partition] + Len(Request.records) <= MaxOffset
BytesFit == staged.bytes[Request.partition] + Request.bytes <= MaxBytes

BookmarkIdIsUsed ==
    /\ Request.bookmark # None
    /\ staged.bookmarks[<<applied + 1, pos>>] # None

RejectBookmarkName_NotStored ==
    /\ Fresh
    /\ NameIsUsed
    /\ ReturnWithoutEffect(Failed("BookmarkNameConflict"))

RejectBookmarkName ==
    /\ Fresh
    /\ NameIsUsed
    /\ Decide(staged, Failed("BookmarkNameConflict"))

RejectRange ==
    /\ Fresh
    /\ ~NameIsUsed
    /\ ~RangeFits
    /\ Decide(staged, Failed("InvalidRange"))

RejectBytes ==
    /\ Fresh
    /\ ~NameIsUsed
    /\ RangeFits
    /\ ~BytesFit
    /\ Decide(staged, Failed("ByteOverflow"))

RejectBookmarkId ==
    /\ Fresh
    /\ ~NameIsUsed
    /\ RangeFits
    /\ BytesFit
    /\ BookmarkIdIsUsed
    /\ Decide(staged, Failed("BookmarkNameConflict"))

Publish ==
    /\ Fresh
    /\ ~NameIsUsed
    /\ RangeFits
    /\ BytesFit
    /\ ~BookmarkIdIsUsed
    /\ LET b      == PublishBookmark(staged, Request)
           marked == IF b = None THEN staged ELSE PutBookmark(staged, b)
       IN  Decide(PutRecords(marked, Request),
                  Published(staged.next[Request.partition], Len(Request.records), b))

ApplyOne ==
    \/ ForeignCluster
    \/ ReplayReceipt
    \/ RejectExpired
    \/ RejectBookmarkName
    \/ RejectRange
    \/ RejectBytes
    \/ RejectBookmarkId
    \/ Publish

-----------------------------------------------------------------------------
(* apply_entry and apply_command: each entry ends in one synced write of   *)
(* its effects together with KEY_APPLIED.                                  *)

Ready == pos = 0 /\ applied < Len(log)

Idle(w) ==
    /\ pos' = 0
    /\ slot' = 0
    /\ staged' = w
    /\ outcomes' = EmptyOutcomes
    /\ outs' = <<>>

(* What the scheduler sends its waiters (complete_response): one item      *)
(* result each, or one storage error for all when the apply result is not  *)
(* PublishedMany.                                                          *)
PublishedMany(items) == [kind |-> "PublishedMany", items |-> items]
Rejected(error) == [kind |-> "Rejected", error |-> error]

CompleteResponse(requests, result) ==
    {<<requests[k], IF result.kind = "PublishedMany"
                      THEN result.items[k] ELSE Failed("Storage")>> :
        k \in DOMAIN requests}

BeginPublishMany ==
    /\ Ready
    /\ Entry.type = "PublishMany"
    /\ ~db.fence
    /\ pos' = 1
    /\ UNCHANGED <<log, applied, db, slot, staged, outcomes, outs, answered>>

CommitPublishMany ==
    /\ pos > 0
    /\ pos > Len(Entry.requests)
    /\ db' = staged
    /\ applied' = applied + 1
    /\ answered' = answered \cup CompleteResponse(Entry.requests, PublishedMany(outs))
    /\ Idle(staged)
    /\ UNCHANGED log

(* replay_publish_many: under a held fence only what is already decided is *)
(* answered, from the durable state alone.                                 *)
FencedOutcome(r) ==
    LET id == IdOf(r)
    IN  IF db.receipts[id] # None THEN Replay(db.receipts[id], r)
        ELSE IF r.sequence <= SessionOf(db, id).highest THEN Failed("ReceiptExpired")
        ELSE Failed("ExportInProgress")

ReplayPublishMany(requests) ==
    LET items == [k \in DOMAIN requests |-> FencedOutcome(requests[k])]
    IN  IF \E k \in DOMAIN items : items[k] # Failed("ExportInProgress")
          THEN PublishedMany(items)
          ELSE Rejected("ExportInProgress")

FencedPublishMany ==
    /\ Ready
    /\ Entry.type = "PublishMany"
    /\ db.fence
    /\ applied' = applied + 1
    /\ answered' = answered \cup
           CompleteResponse(Entry.requests, ReplayPublishMany(Entry.requests))
    /\ UNCHANGED <<log, db, txn>>

(* Entries other than PublishMany are applied and written in one step.     *)
WriteEntry(w) ==
    /\ db' = w
    /\ applied' = applied + 1
    /\ Idle(w)
    /\ UNCHANGED <<log, answered>>

(* create_bookmark_record: an existing id is returned or conflicts, a used *)
(* name conflicts, an offset beyond the tail is rejected; none writes.     *)
CanCreateBookmark(c) ==
    /\ c.offset <= db.next[c.partition]
    /\ db.bookmarks[c.id] = None
    /\ db.names[<<c.partition, c.name>>] = None

CreateBookmark ==
    /\ Ready
    /\ Entry.type = "CreateBookmark"
    /\ WriteEntry(IF ~db.fence /\ CanCreateBookmark(Entry)
                    THEN PutBookmark(db, Bookmark(Entry.id, Entry.partition, Entry.name,
                                  Entry.offset, db.publication[Entry.partition] + 1))
                    ELSE db)

(* apply_delete_bookmark: the id keeps a tombstone; the name is free again. *)
CanDeleteBookmark(c) ==
    /\ db.bookmarks[c.id] # None
    /\ db.bookmarks[c.id].partition = c.partition
    /\ ~db.bookmarks[c.id].deleted

RemoveBookmark(w, b) ==
    [w EXCEPT
       !.bookmarks = [w.bookmarks EXCEPT ![b.id] = [b EXCEPT !.deleted = TRUE]],
       !.names     = [w.names EXCEPT ![<<b.partition, b.name>>] = None],
       !.order     = [w.order EXCEPT ![b.partition] = @ \ {<<b.publication, b.id>>}]]

DeleteBookmark ==
    /\ Ready
    /\ Entry.type = "DeleteBookmark"
    /\ WriteEntry(IF ~db.fence /\ CanDeleteBookmark(Entry)
                    THEN RemoveBookmark(db, db.bookmarks[Entry.id])
                    ELSE db)

(* The export protocol, as far as this group's mutations see it.           *)
SetFence ==
    /\ Ready
    /\ Entry.type \in {"AcquireFence", "ReleaseFence"}
    /\ WriteEntry([db EXCEPT !.fence = (Entry.type = "AcquireFence")])

(* Raft commits an entry.                                                  *)
Commit ==
    /\ Len(log) < MaxLog
    /\ Len(log) - applied < MaxUnapplied
    /\ \E c \in Commands : log' = Append(log, c)
    /\ UNCHANGED <<applied, db, txn, answered>>

(* The process stops and reopens the store: what was staged is gone.       *)
Crash ==
    /\ pos > 0
    /\ Idle(db)
    /\ UNCHANGED <<log, applied, db, answered>>

Init ==
    /\ log = <<>>
    /\ applied = 0
    /\ db = InitialDb
    /\ pos = 0
    /\ slot = 0
    /\ staged = InitialDb
    /\ outcomes = EmptyOutcomes
    /\ outs = <<>>
    /\ answered = {}

Next ==
    \/ Commit
    \/ BeginPublishMany
    \/ ApplyOne
    \/ CommitPublishMany
    \/ FencedPublishMany
    \/ CreateBookmark
    \/ DeleteBookmark
    \/ SetFence
    \/ Crash

Spec == Init /\ [][Next]_vars

-----------------------------------------------------------------------------
(* Types.                                                                  *)

BookmarkRecords ==
    [id : AllBookmarkIds, partition : Partitions, name : Names,
     offset : Nat, publication : Nat, deleted : BOOLEAN]

Results ==
    [ok : {TRUE}, first : Nat, count : Nat, bookmark : BookmarkRecords \cup {None}]
      \cup [ok : {FALSE},
            error : StoredErrors \cup {"IdentityMismatch", "ReceiptConflict",
                       "ReceiptExpired", "ExportInProgress", "Storage"}]

Outcomes == [request : Requests, result : Results]

Dbs ==
    [ receipts    : [RequestIds -> Outcomes \cup {None}],
      sessions    : [Partitions \X Sessions ->
                        [highest : Sequences_ \cup {-1}, retained : Seq(Sequences_)]],
      next        : [Partitions -> 0 .. MaxOffset],
      bytes       : [Partitions -> 0 .. MaxBytes],
      records     : [Partitions -> [0 .. MaxOffset - 1 ->
                        [entry : 1 .. MaxLog, slot : Nat, request : RequestIds] \cup {None}]],
      bookmarks   : [AllBookmarkIds -> BookmarkRecords \cup {None}],
      names       : [Partitions \X Names -> AllBookmarkIds \cup {None}],
      order       : [Partitions -> SUBSET (Nat \X AllBookmarkIds)],
      publication : [Partitions -> Nat],
      fence       : BOOLEAN ]

(* An absent optional value differs from every present one.                *)
ASSUME NoneAssumption ==
    None \notin Outcomes \cup BookmarkRecords \cup AllBookmarkIds
                 \cup [entry : 1 .. MaxLog, slot : Nat, request : RequestIds]

(* Every variable holds a value of the kind the code stores in it, for the *)
(* durable state and for the transaction being staged.                     *)
TypeOK ==
    /\ log \in Seq(Commands)
    /\ applied \in 0 .. Len(log)
    /\ db \in Dbs
    /\ pos \in Nat
    /\ slot \in Nat
    /\ staged \in Dbs
    /\ outcomes \in [RequestIds -> Outcomes \cup {None}]
    /\ outs \in Seq(Results)
    /\ answered \subseteq Requests \X Results

-----------------------------------------------------------------------------
(* Safety.                                                                 *)

RecordAt(d, p, o) == d.records[p][o]

(* Two records of one request identity were written by one apply of one    *)
(* log entry, side by side: whatever is retried, duplicated, reordered or  *)
(* lost in a crash, an identity is never published twice (apply_one).      *)
ExactlyOnce ==
    \A p \in Partitions : \A o1, o2 \in 0 .. MaxOffset - 1 :
        LET a == RecordAt(db, p, o1)
            b == RecordAt(db, p, o2)
        IN  (a # None /\ b # None /\ a.request = b.request)
               => a.entry = b.entry /\ a.slot - b.slot = o1 - o2

(* Retained receipts and the producer session agree: a receipt is stored   *)
(* exactly for the sequences the session retains, these increase, end in   *)
(* the highest and never outgrow the window (advance_session).             *)
WindowHoldsReceipts ==
    \A id \in RequestIds :
        LET s == SessionOf(db, id)
            n == Len(s.retained)
        IN  /\ (db.receipts[id] # None) <=> (\E i \in 1 .. n : s.retained[i] = id.sequence)
            /\ n <= ReceiptWindow
            /\ \A i, j \in 1 .. n : i < j => s.retained[i] < s.retained[j]
            /\ n > 0 => s.retained[n] = s.highest

(* What a client was told stays the truth.  Every answer ever given for a  *)
(* request body is the same published range or the same rejection, also    *)
(* after the bookmark that caused the rejection is gone, and it stays true *)
(* after its receipt has left the window: the records of a published       *)
(* request are exactly the range it was told, a rejected request never has *)
(* a record (store_outcome, apply_one, advance_session).                   *)
AnswersStayTrue ==
    /\ \A x, y \in answered :
          (x[1] = y[1] /\ Durable(x[2]) /\ Durable(y[2])) => x[2] = y[2]
    /\ \A x \in answered : Durable(x[2]) =>
          \A o \in 0 .. MaxOffset - 1 :
              LET rec == RecordAt(db, x[1].partition, o)
              IN  (rec # None /\ rec.request = IdOf(x[1])) <=>
                      (x[2].ok /\ o \in x[2].first .. x[2].first + x[2].count - 1)

(* The payloads of a log entry, slot by slot, as thin_entry stores them    *)
(* when the entry is appended.                                             *)
PayloadsOf(requests) ==
    LET flat[n \in 0 .. Len(requests)] ==
            IF n = 0 THEN <<>> ELSE flat[n - 1] \o requests[n].records
    IN  flat[Len(requests)]

(* A stored receipt is the truth about the log: every record in its range  *)
(* resolves to the payload the request carried there, although requests    *)
(* that were replayed or rejected in the same entry also occupy slots, and *)
(* its bookmark points just past the range (apply_one, thin_entry).        *)
ReceiptsResolve ==
    \A id \in RequestIds :
        LET stored == db.receipts[id]
        IN  (stored # None /\ stored.result.ok) =>
            /\ stored.result.first + stored.result.count <= db.next[id.partition]
            /\ \A i \in 0 .. stored.result.count - 1 :
                  LET rec == RecordAt(db, id.partition, stored.result.first + i)
                  IN  /\ rec # None
                      /\ PayloadsOf(log[rec.entry].requests)[rec.slot + 1]
                            = stored.request.records[i + 1]
            /\ stored.request.bookmark # None =>
                  stored.result.bookmark.offset
                      = stored.result.first + stored.result.count

(* The three bookmark indexes agree: a name leads to the one undeleted     *)
(* bookmark of that name, the order index lists exactly the undeleted      *)
(* bookmarks, and no two bookmarks share a publication number              *)
(* (create_publish_bookmark, create_bookmark_record, apply_delete_bookmark). *)
BookmarkIndexesAgree ==
    LET live == {id \in AllBookmarkIds :
                    db.bookmarks[id] # None /\ ~db.bookmarks[id].deleted}
    IN  /\ \A p \in Partitions : \A n \in Names :
              {id \in live : db.bookmarks[id].partition = p /\ db.bookmarks[id].name = n}
                  = {db.names[<<p, n>>]} \ {None}
        /\ \A p \in Partitions :
              db.order[p] = {<<db.bookmarks[id].publication, id>> :
                                id \in {i \in live : db.bookmarks[i].partition = p}}
        /\ \A i, j \in AllBookmarkIds :
              ( /\ i # j
                /\ db.bookmarks[i] # None
                /\ db.bookmarks[j] # None
                /\ db.bookmarks[i].partition = db.bookmarks[j].partition )
                  => db.bookmarks[i].publication # db.bookmarks[j].publication

(* The indexes of the store agree with each other and with the log: the    *)
(* receipts with the producer sessions and the records they promise, and   *)
(* the three bookmark indexes with each other.                             *)
IndexesAgree == WindowHoldsReceipts /\ ReceiptsResolve /\ BookmarkIndexesAgree

(* The group implements the exactly-once ledger.  The ledger of a          *)
(* partition is read off its records, and a sequence is closed when the    *)
(* session's highest sequence reaches it.                                  *)
LedgerOf(p) ==
    [i \in 1 .. db.next[p] |->
        LET rec == RecordAt(db, p, i - 1)
        IN  [request |-> rec.request,
             payload |-> PayloadsOf(log[rec.entry].requests)[rec.slot + 1]]]

Ledger == INSTANCE ExactlyOnceLedger WITH
    ledger <- [p \in Partitions |-> LedgerOf(p)],
    closed <- [ps \in Partitions \X Sessions |-> db.sessions[ps].highest]

(* Every behaviour of apply_entry, with its caches, windows, fences and    *)
(* crashes, is a behaviour of the exactly-once ledger.                     *)
ImplementsLedger == Ledger!Spec
=============================================================================
