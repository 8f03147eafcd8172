------------------------- MODULE PublishApplyProofs -------------------------
(***************************************************************************)
(* Proofs about PublishApply, for every set of partitions, sessions and    *)
(* requests, every receipt window and every log.                           *)
(***************************************************************************)
EXTENDS PublishApply, TLAPS, WellFoundedInduction

-----------------------------------------------------------------------------
(* The helpers keep the durable state well typed.                          *)

(* A request's identity is a receipt key.                                  *)
LEMMA IdOfType ==
    ASSUME NEW r \in Requests
    PROVE  /\ IdOf(r) \in RequestIds
           /\ IdOf(r).partition = r.partition
           /\ IdOf(r).session = r.session
           /\ IdOf(r).sequence = r.sequence
           /\ r.partition \in Partitions
           /\ r.session \in Sessions
           /\ r.sequence \in Sequences_
BY RequestsAssumption DEF RequestIds, IdOf

(* store_outcome touches the receipts only.                                *)
LEMMA StoreOutcomeType ==
    ASSUME NEW w \in Dbs, NEW r \in Requests, NEW result \in Results
    PROVE  /\ StoreOutcome(w, r, result) \in Dbs
           /\ StoreOutcome(w, r, result).records = w.records
           /\ StoreOutcome(w, r, result).sessions = w.sessions
           /\ StoreOutcome(w, r, result).next = w.next
BY IdOfType DEF StoreOutcome, Outcome, Dbs, Outcomes

(* advance_session touches the receipts and the session, whose highest     *)
(* sequence becomes the request's.                                         *)
LEMMA AdvanceSessionType ==
    ASSUME NEW w \in Dbs, NEW id \in RequestIds
    PROVE  /\ AdvanceSession(w, id) \in Dbs
           /\ AdvanceSession(w, id).records = w.records
           /\ AdvanceSession(w, id).next = w.next
           /\ \A k \in RequestIds :
                 SessionOf(AdvanceSession(w, id), k).highest =
                    IF k.partition = id.partition /\ k.session = id.session
                      THEN id.sequence ELSE SessionOf(w, k).highest
<1> DEFINE ps == <<id.partition, id.session>>
           old == SessionOf(w, id).retained
           retained == Append(old, id.sequence)
           kept == IF Evicted(w, id) = {} THEN retained ELSE Tail(retained)
           receipts == [k \in RequestIds |->
                          IF k \in Evicted(w, id) THEN None ELSE w.receipts[k]]
           sessions == [w.sessions EXCEPT ![ps] =
                          [highest |-> id.sequence, retained |-> kept]]
<1>1. ps \in Partitions \X Sessions /\ id.sequence \in Sequences_
  BY DEF RequestIds
<1>2. old \in Seq(Sequences_)
  BY <1>1 DEF SessionOf, Dbs
<1>3. retained \in Seq(Sequences_) /\ retained # <<>>
  BY <1>1, <1>2
<1>4. kept \in Seq(Sequences_)
  BY <1>3
<1>5. receipts \in [RequestIds -> Outcomes \cup {None}]
  BY DEF Dbs
<1>6. sessions \in [Partitions \X Sessions ->
                      [highest : Sequences_ \cup {-1}, retained : Seq(Sequences_)]]
  BY <1>1, <1>4 DEF Dbs
<1>7. AdvanceSession(w, id) = [w EXCEPT !.receipts = receipts, !.sessions = sessions]
  BY DEF AdvanceSession
<1> HIDE DEF receipts, sessions, kept
<1>8. /\ AdvanceSession(w, id) \in Dbs
      /\ AdvanceSession(w, id).records = w.records
      /\ AdvanceSession(w, id).next = w.next
      /\ AdvanceSession(w, id).sessions = sessions
  BY <1>5, <1>6, <1>7 DEF Dbs
<1>9. ASSUME NEW k \in RequestIds
      PROVE  SessionOf(AdvanceSession(w, id), k).highest =
                IF k.partition = id.partition /\ k.session = id.session
                  THEN id.sequence ELSE SessionOf(w, k).highest
  BY <1>1, <1>8 DEF SessionOf, sessions, Dbs, RequestIds
<1> QED
  BY <1>8, <1>9

(* The bookmark helpers touch the bookmark indexes only.                   *)
LEMMA PutBookmarkType ==
    ASSUME NEW w \in Dbs, NEW b \in BookmarkRecords
    PROVE  /\ PutBookmark(w, b) \in Dbs
           /\ PutBookmark(w, b).records = w.records
           /\ PutBookmark(w, b).sessions = w.sessions
           /\ PutBookmark(w, b).next = w.next
           /\ PutBookmark(w, b).bytes = w.bytes
<1> DEFINE bookmarks == [w.bookmarks EXCEPT ![b.id] = b]
           names == [w.names EXCEPT ![<<b.partition, b.name>>] = b.id]
           order == [w.order EXCEPT ![b.partition] = @ \cup {<<b.publication, b.id>>}]
           publication == [w.publication EXCEPT ![b.partition] = b.publication]
<1>1. bookmarks \in [AllBookmarkIds -> BookmarkRecords \cup {None}]
  BY DEF Dbs
<1>2. names \in [Partitions \X Names -> AllBookmarkIds \cup {None}]
  BY DEF Dbs, BookmarkRecords
<1>3. order \in [Partitions -> SUBSET (Nat \X AllBookmarkIds)]
  BY DEF Dbs, BookmarkRecords
<1>4. publication \in [Partitions -> Nat]
  BY DEF Dbs, BookmarkRecords
<1>5. PutBookmark(w, b) =
        [w EXCEPT !.bookmarks = bookmarks, !.names = names, !.order = order,
                  !.publication = publication]
  BY DEF PutBookmark
<1> HIDE DEF bookmarks, names, order, publication
<1> QED
  BY <1>1, <1>2, <1>3, <1>4, <1>5 DEF Dbs

(* Deleting a bookmark clears its name and its place in the order only.    *)
LEMMA RemoveBookmarkType ==
    ASSUME NEW w \in Dbs, NEW b \in BookmarkRecords
    PROVE  /\ RemoveBookmark(w, b) \in Dbs
           /\ RemoveBookmark(w, b).records = w.records
           /\ RemoveBookmark(w, b).sessions = w.sessions
<1> DEFINE bookmarks == [w.bookmarks EXCEPT ![b.id] = [b EXCEPT !.deleted = TRUE]]
           names == [w.names EXCEPT ![<<b.partition, b.name>>] = None]
           order == [w.order EXCEPT ![b.partition] = @ \ {<<b.publication, b.id>>}]
<1>1. bookmarks \in [AllBookmarkIds -> BookmarkRecords \cup {None}]
  BY DEF Dbs, BookmarkRecords
<1>2. names \in [Partitions \X Names -> AllBookmarkIds \cup {None}]
  BY DEF Dbs, BookmarkRecords
<1>3. order \in [Partitions -> SUBSET (Nat \X AllBookmarkIds)]
  BY DEF Dbs, BookmarkRecords
<1>4. RemoveBookmark(w, b) =
        [w EXCEPT !.bookmarks = bookmarks, !.names = names, !.order = order]
  BY DEF RemoveBookmark
<1> HIDE DEF bookmarks, names, order
<1> QED
  BY <1>1, <1>2, <1>3, <1>4 DEF Dbs

(* The record loop fills the range above the tail with this request's      *)
(* records and leaves every other record alone.                            *)
LEMMA PutRecordsType ==
    ASSUME NEW w \in Dbs, NEW r \in Requests,
           w.next[r.partition] + Len(r.records) <= MaxOffset,
           w.bytes[r.partition] + r.bytes <= MaxBytes,
           applied + 1 \in 1 .. MaxLog, slot \in Nat
    PROVE  /\ PutRecords(w, r) \in Dbs
           /\ PutRecords(w, r).sessions = w.sessions
           /\ \A p \in Partitions : \A o \in 0 .. MaxOffset - 1 :
                 RecordAt(PutRecords(w, r), p, o) =
                    IF p = r.partition
                         /\ o \in w.next[p] .. w.next[p] + Len(r.records) - 1
                      THEN [entry |-> applied + 1, slot |-> slot + (o - w.next[p]),
                            request |-> IdOf(r)]
                      ELSE RecordAt(w, p, o)
<1> DEFINE q == r.partition
           first == w.next[q]
           count == Len(r.records)
           Rec == [entry : 1 .. MaxLog, slot : Nat, request : RequestIds] \cup {None}
           row == [o \in 0 .. MaxOffset - 1 |->
                     IF o \in first .. first + count - 1
                       THEN [entry |-> applied + 1, slot |-> slot + (o - first),
                             request |-> IdOf(r)]
                       ELSE w.records[q][o]]
           records == [w.records EXCEPT ![q] = row]
           next == [w.next EXCEPT ![q] = first + count]
           bytes == [w.bytes EXCEPT ![q] = @ + r.bytes]
<1>1. /\ q \in Partitions /\ IdOf(r) \in RequestIds
      /\ first \in Nat /\ count \in Nat /\ r.bytes \in Nat
      /\ w.bytes[q] \in Nat
  BY IdOfType, RequestsAssumption, ConstantsAssumption DEF Dbs
<1>2. w.records \in [Partitions -> [0 .. MaxOffset - 1 -> Rec]]
  BY DEF Dbs
<1>3. row \in [0 .. MaxOffset - 1 -> Rec]
  <2> SUFFICES ASSUME NEW o \in 0 .. MaxOffset - 1
               PROVE  (IF o \in first .. first + count - 1
                         THEN [entry |-> applied + 1, slot |-> slot + (o - first),
                               request |-> IdOf(r)]
                         ELSE w.records[q][o]) \in Rec
    OBVIOUS
  <2>1. CASE o \in first .. first + count - 1
    <3> HIDE DEF first, count
    <3>1. o - first \in Nat
      BY <1>1, <2>1
    <3> DEFINE delta == o - first
    <3>3. slot + delta \in Nat
      BY <3>1
    <3>2. [entry |-> applied + 1, slot |-> slot + (o - first), request |-> IdOf(r)]
             \in [entry : 1 .. MaxLog, slot : Nat, request : RequestIds]
      BY <1>1, <3>3
    <3> QED
      BY <2>1, <3>2
  <2>2. CASE o \notin first .. first + count - 1
    BY <1>1, <1>2, <2>2
  <2> QED
    BY <2>1, <2>2
<1>4. records \in [Partitions -> [0 .. MaxOffset - 1 -> Rec]]
  BY <1>1, <1>2, <1>3
<1>5. next \in [Partitions -> 0 .. MaxOffset]
  <2>1. w.next \in [Partitions -> 0 .. MaxOffset]
    BY DEF Dbs
  <2>2. first + count \in 0 .. MaxOffset
    BY <1>1, ConstantsAssumption
  <2> HIDE DEF first, count
  <2> QED
    BY <2>1, <2>2
<1>6. bytes \in [Partitions -> 0 .. MaxBytes]
  <2>1. w.bytes \in [Partitions -> 0 .. MaxBytes]
    BY DEF Dbs
  <2>2. w.bytes[q] + r.bytes \in 0 .. MaxBytes
    BY <1>1, ConstantsAssumption
  <2> QED
    BY <2>1, <2>2
<1>7. PutRecords(w, r) =
        [w EXCEPT !.records = records, !.next = next, !.bytes = bytes]
  BY DEF PutRecords
<1>8. ASSUME NEW p \in Partitions, NEW o \in 0 .. MaxOffset - 1
      PROVE  records[p][o] = IF p = q /\ o \in w.next[p] .. w.next[p] + count - 1
                               THEN [entry |-> applied + 1, slot |-> slot + (o - w.next[p]),
                                     request |-> IdOf(r)]
                               ELSE w.records[p][o]
  BY <1>1, <1>2
<1> HIDE DEF records, next, bytes
<1>9. /\ PutRecords(w, r) \in Dbs
      /\ PutRecords(w, r).sessions = w.sessions
      /\ PutRecords(w, r).records = records
  BY <1>4, <1>5, <1>6, <1>7 DEF Dbs
<1> QED
  BY <1>8, <1>9 DEF RecordAt

-----------------------------------------------------------------------------
(* The inductive invariant.                                                *)

(* A stored record belongs to its partition, and its session has closed    *)
(* the record's sequence: no later request of that identity is fresh.      *)
Owned(d) ==
    \A p \in Partitions : \A o \in 0 .. MaxOffset - 1 :
        RecordAt(d, p, o) # None =>
            /\ RecordAt(d, p, o).request.partition = p
            /\ RecordAt(d, p, o).request.sequence
                  <= SessionOf(d, RecordAt(d, p, o).request).highest

OnceIn(d) ==
    \A p \in Partitions : \A o1, o2 \in 0 .. MaxOffset - 1 :
        ( /\ RecordAt(d, p, o1) # None
          /\ RecordAt(d, p, o2) # None
          /\ RecordAt(d, p, o1).request = RecordAt(d, p, o2).request )
        => /\ RecordAt(d, p, o1).entry = RecordAt(d, p, o2).entry
           /\ RecordAt(d, p, o1).slot - RecordAt(d, p, o2).slot = o1 - o2

(* Where the transaction stands: idle it mirrors the durable state, busy   *)
(* it is inside a PublishMany entry with one result per request so far.    *)
TxnOK ==
    /\ Len(log) <= MaxLog
    /\ pos = 0 => staged = db /\ slot = 0 /\ outcomes = EmptyOutcomes /\ outs = <<>>
    /\ pos > 0 => /\ applied < Len(log)
                  /\ Entry.type = "PublishMany"
                  /\ pos <= Len(Entry.requests) + 1
                  /\ Len(outs) = pos - 1

IInv ==
    /\ TypeOK
    /\ TxnOK
    /\ Owned(db)
    /\ OnceIn(db)
    /\ Owned(staged)
    /\ OnceIn(staged)

(* Sequence numbers, with -1 for none yet, are integers.                   *)
LEMMA SequencesAreInts ==
    ASSUME NEW n \in Sequences_ \cup {-1}
    PROVE  n \in Int
BY ConstantsAssumption

(* What is stored at an offset and for a session.                          *)
LEMMA StoredTypes ==
    ASSUME NEW d \in Dbs
    PROVE  /\ \A p \in Partitions : \A o \in 0 .. MaxOffset - 1 :
                 RecordAt(d, p, o) # None =>
                    /\ RecordAt(d, p, o).request \in RequestIds
                    /\ RecordAt(d, p, o).slot \in Nat
           /\ \A k \in RequestIds : SessionOf(d, k).highest \in Int
<1>1. ASSUME NEW p \in Partitions, NEW o \in 0 .. MaxOffset - 1,
             RecordAt(d, p, o) # None
      PROVE  /\ RecordAt(d, p, o).request \in RequestIds
             /\ RecordAt(d, p, o).slot \in Nat
  <2> DEFINE Rec == [entry : 1 .. MaxLog, slot : Nat, request : RequestIds]
  <2>1. d.records \in [Partitions -> [0 .. MaxOffset - 1 -> Rec \cup {None}]]
    BY DEF Dbs
  <2>2. RecordAt(d, p, o) \in Rec \cup {None}
    <3> HIDE DEF Rec
    <3> QED
      BY <2>1 DEF RecordAt
  <2>3. RecordAt(d, p, o) \in Rec
    BY <1>1, <2>2
  <2> QED
    BY <2>3
<1>2. ASSUME NEW k \in RequestIds
      PROVE  SessionOf(d, k).highest \in Int
  <2>1. <<k.partition, k.session>> \in Partitions \X Sessions
    BY DEF RequestIds
  <2>2. SessionOf(d, k).highest \in Sequences_ \cup {-1}
    BY <2>1 DEF Dbs, SessionOf
  <2> QED
    BY <2>2, SequencesAreInts
<1> QED
  BY <1>1, <1>2

(* What the shape of a command says.                                       *)
LEMMA CommandShapes ==
    ASSUME NEW c \in Commands
    PROVE  /\ c.type = "PublishMany" => /\ c.requests \in Seq(Requests)
                                        /\ Len(c.requests) \in 1 .. MaxBatch
           /\ c.type = "CreateBookmark" => /\ c.id \in BookmarkIds
                                           /\ c.partition \in Partitions
                                           /\ c.name \in Names
                                           /\ c.offset \in Nat
           /\ c.type = "DeleteBookmark" => c.id \in AllBookmarkIds
<1>1. CASE c \in PublishManys
  <2>1. PICK n \in 1 .. MaxBatch : \E batch \in [1 .. n -> Requests] :
                 c = [type |-> "PublishMany", requests |-> batch]
    BY <1>1 DEF PublishManys
  <2>2. PICK batch \in [1 .. n -> Requests] :
                 c = [type |-> "PublishMany", requests |-> batch]
    BY <2>1
  <2>3. n \in Nat
    BY ConstantsAssumption
  <2>4. batch \in Seq(Requests) /\ Len(batch) = n
    BY <2>3
  <2> QED
    BY <2>2, <2>4
<1>2. CASE c \in BookmarkCommands
  BY <1>2, BookmarkCommandsAssumption, ConstantsAssumption
<1>3. CASE c \in FenceCommands
  BY <1>3 DEF FenceCommands
<1> QED
  BY <1>1, <1>2, <1>3 DEF Commands

(* The entry and the request being applied are well typed.                 *)
LEMMA ApplyingTypes ==
    ASSUME TypeOK, TxnOK, Applying
    PROVE  /\ Request \in Requests
           /\ applied + 1 \in 1 .. MaxLog
           /\ pos \in 1 .. MaxBatch
<1>1. pos > 0 /\ applied < Len(log) /\ Entry.type = "PublishMany"
  BY DEF TxnOK, Applying
<1>2. Entry \in Commands
  BY <1>1 DEF TypeOK, Entry
<1>3. Entry.requests \in Seq(Requests) /\ Len(Entry.requests) \in 1 .. MaxBatch
  BY <1>1, <1>2, CommandShapes
<1>4. pos \in 1 .. Len(Entry.requests)
  BY <1>1, <1>3 DEF Applying, TypeOK
<1>5. applied + 1 \in 1 .. MaxLog
  BY <1>1, ConstantsAssumption DEF TypeOK, TxnOK
<1> QED
  BY <1>3, <1>4, <1>5, ConstantsAssumption DEF Request

(* The transaction position after one more answer.                         *)
LEMMA AnswerMoves ==
    ASSUME IInv, Applying, NEW result \in Results, Answer(result)
    PROVE  /\ log' \in Seq(Commands) /\ applied' \in 0 .. Len(log') /\ db' \in Dbs
           /\ pos' \in Nat /\ slot' \in Nat /\ outs' \in Seq(Results)
           /\ answered' \subseteq Requests \X Results
           /\ TxnOK'
           /\ Owned(db)' /\ OnceIn(db)'
<1>1. Request \in Requests /\ Len(Request.records) \in Nat
  BY ApplyingTypes, RequestsAssumption DEF IInv
<1>2. /\ log' = log /\ applied' = applied /\ db' = db /\ answered' = answered
      /\ outs' = Append(outs, result) /\ pos' = pos + 1
      /\ slot' = slot + Len(Request.records)
  BY DEF Answer
<1>3. /\ log \in Seq(Commands) /\ applied \in 0 .. Len(log) /\ db \in Dbs
      /\ pos \in Nat /\ slot \in Nat /\ outs \in Seq(Results)
      /\ answered \subseteq Requests \X Results
  BY DEF IInv, TypeOK
<1>4. pos > 0 /\ pos <= Len(Entry.requests)
  BY DEF Applying
<1>5. outs' \in Seq(Results) /\ Len(outs') = Len(outs) + 1
  BY <1>2, <1>3
<1>6. Len(Entry.requests) \in Nat
  <2>1. Entry \in Commands /\ Entry.type = "PublishMany"
    BY <1>3, <1>4 DEF IInv, TxnOK, Entry
  <2> QED
    BY <2>1, CommandShapes, ConstantsAssumption
<1>7. TxnOK'
  <2>1. Entry' = Entry
    BY <1>2 DEF Entry
  <2>2. pos' > 0 /\ pos' # 0 /\ pos' <= Len(Entry.requests) + 1 /\ Len(outs') = pos' - 1
    BY <1>2, <1>3, <1>4, <1>5, <1>6 DEF IInv, TxnOK
  <2> QED
    BY <1>2, <1>4, <2>1, <2>2 DEF IInv, TxnOK
<1>8. Owned(db)' /\ OnceIn(db)'
  BY <1>2 DEF IInv, Owned, OnceIn, RecordAt, SessionOf
<1> QED
  BY <1>1, <1>2, <1>3, <1>5, <1>7, <1>8

(* Returns that write nothing.                                             *)
LEMMA ReturnKeepsInv ==
    ASSUME IInv, Applying, NEW result \in Results, ReturnWithoutEffect(result)
    PROVE  IInv'
<1>1. Answer(result) /\ staged' = staged /\ outcomes' = outcomes
  BY DEF ReturnWithoutEffect
<1>2. TypeOK'
  BY <1>1, AnswerMoves DEF IInv, TypeOK
<1>3. Owned(staged)' /\ OnceIn(staged)'
  BY <1>1 DEF IInv, Owned, OnceIn, RecordAt, SessionOf
<1> QED
  BY <1>1, <1>2, <1>3, AnswerMoves DEF IInv

(* Returns that decide the request: the session closes its sequence, so    *)
(* records of the request, and of every older one, are closed.             *)
LEMMA DecideKeepsInv ==
    ASSUME IInv, Fresh, NEW w \in Dbs, NEW result \in Results,
           w.sessions = staged.sessions,
           OnceIn(w),
           \A p \in Partitions : \A o \in 0 .. MaxOffset - 1 :
              RecordAt(w, p, o) # None =>
                 /\ RecordAt(w, p, o).request.partition = p
                 /\ \/ RecordAt(w, p, o).request = IdOf(Request)
                    \/ RecordAt(w, p, o).request.sequence
                          <= SessionOf(staged, RecordAt(w, p, o).request).highest,
           Decide(w, result)
    PROVE  IInv'
<1> DEFINE id == IdOf(Request)
           stored == StoreOutcome(w, Request, result)
           new == AdvanceSession(stored, id)
<1>1. /\ Applying
      /\ Request.sequence > SessionOf(staged, id).highest
  BY DEF Fresh, Unseen
<1>2. /\ Request \in Requests /\ id \in RequestIds
      /\ id.sequence = Request.sequence /\ id.sequence \in Int
  <2>1. Request \in Requests
    BY <1>1, ApplyingTypes DEF IInv
  <2>2. id \in RequestIds /\ id.sequence = Request.sequence /\ Request.sequence \in Sequences_
    BY <2>1, IdOfType
  <2> QED
    BY <2>1, <2>2, SequencesAreInts
<1>3. /\ Answer(result)
      /\ staged' = new
      /\ outcomes' = [k \in RequestIds |->
                        IF k \in Evicted(w, id) THEN None
                        ELSE IF k = id THEN Outcome(Request, result)
                        ELSE outcomes[k]]
  BY DEF Decide
<1>4. /\ stored \in Dbs
      /\ stored.records = w.records
      /\ stored.sessions = staged.sessions
  BY <1>2, StoreOutcomeType
<1>5. /\ new \in Dbs
      /\ new.records = w.records
      /\ \A k \in RequestIds : SessionOf(new, k).highest =
             IF k.partition = id.partition /\ k.session = id.session
               THEN id.sequence ELSE SessionOf(staged, k).highest
  BY <1>2, <1>4, AdvanceSessionType DEF SessionOf
<1>6. outcomes' \in [RequestIds -> Outcomes \cup {None}]
  <2>1. Outcome(Request, result) \in Outcomes
    BY <1>2 DEF Outcome, Outcomes
  <2> QED
    BY <1>3, <2>1 DEF IInv, TypeOK
<1>7. TypeOK'
  BY <1>1, <1>3, <1>5, <1>6, AnswerMoves DEF TypeOK
<1>8. \A p \in Partitions : \A o \in 0 .. MaxOffset - 1 :
         RecordAt(new, p, o) = RecordAt(w, p, o)
  BY <1>5 DEF RecordAt
<1>9. Owned(new)
  <2> SUFFICES ASSUME NEW p \in Partitions, NEW o \in 0 .. MaxOffset - 1,
                      RecordAt(w, p, o) # None
               PROVE  /\ RecordAt(w, p, o).request.partition = p
                      /\ RecordAt(w, p, o).request.sequence
                            <= SessionOf(new, RecordAt(w, p, o).request).highest
    BY <1>8 DEF Owned
  <2> DEFINE k == RecordAt(w, p, o).request
  <2>1. k \in RequestIds
    BY StoredTypes
  <2>2. /\ k.sequence \in Int
        /\ SessionOf(staged, k).highest \in Int
    <3>1. k.sequence \in Sequences_
      BY <2>1 DEF RequestIds
    <3>2. staged \in Dbs
      BY DEF IInv, TypeOK
    <3> QED
      BY <2>1, <3>1, <3>2, StoredTypes, SequencesAreInts
  <2>3. k.partition = p
    OBVIOUS
  <2>4. CASE k = id
    BY <1>2, <1>5, <2>3, <2>4
  <2>5. CASE k.sequence <= SessionOf(staged, k).highest
    <3>1. CASE k.partition = id.partition /\ k.session = id.session
      <4>1. SessionOf(staged, k) = SessionOf(staged, id)
        BY <3>1 DEF SessionOf
      <4> QED
        BY <1>1, <1>2, <1>5, <2>1, <2>2, <2>3, <2>5, <3>1, <4>1
    <3>2. CASE ~(k.partition = id.partition /\ k.session = id.session)
      BY <1>5, <2>1, <2>3, <2>5, <3>2
    <3> QED
      BY <3>1, <3>2
  <2> QED
    BY <2>4, <2>5
<1>10. OnceIn(new)
  BY <1>8 DEF OnceIn
<1>11. Owned(staged)' /\ OnceIn(staged)'
  <2> HIDE DEF new
  <2> QED
    BY <1>3, <1>9, <1>10 DEF Owned, OnceIn, RecordAt, SessionOf
<1> QED
  BY <1>1, <1>3, <1>7, <1>11, AnswerMoves DEF IInv

(* Results of the named kinds are results.                                 *)
LEMMA FailedTypes ==
    /\ Failed("IdentityMismatch") \in Results
    /\ Failed("ReceiptConflict") \in Results
    /\ Failed("ReceiptExpired") \in Results
    /\ Failed("ExportInProgress") \in Results
    /\ Failed("Storage") \in Results
    /\ Failed("BookmarkNameConflict") \in Results
    /\ Failed("InvalidRange") \in Results
    /\ Failed("ByteOverflow") \in Results
BY DEF Failed, Results, StoredErrors

(* A replayed answer is the stored result or a conflict.                   *)
LEMMA ReplayType ==
    ASSUME NEW stored \in Outcomes, NEW r \in Requests
    PROVE  Replay(stored, r) \in Results
BY FailedTypes DEF Replay, Outcomes

(* A deterministic rejection stages nothing but its receipt and session.   *)
LEMMA RejectKeepsInv ==
    ASSUME IInv, Fresh, NEW result \in Results, Decide(staged, result)
    PROVE  IInv'
<1>1. staged \in Dbs /\ OnceIn(staged) /\ Owned(staged)
  BY DEF IInv, TypeOK
<1>2. \A p \in Partitions : \A o \in 0 .. MaxOffset - 1 :
         RecordAt(staged, p, o) # None =>
            /\ RecordAt(staged, p, o).request.partition = p
            /\ RecordAt(staged, p, o).request.sequence
                  <= SessionOf(staged, RecordAt(staged, p, o).request).highest
  BY <1>1 DEF Owned
<1> QED
  BY <1>1, <1>2, DecideKeepsInv

(* A publish stages records of an identity that no stored record has.      *)
LEMMA PublishKeepsInv ==
    ASSUME IInv, Publish
    PROVE  IInv'
<1> DEFINE r == Request
           b == PublishBookmark(staged, r)
           marked == IF b = None THEN staged ELSE PutBookmark(staged, b)
           w == PutRecords(marked, r)
           first == staged.next[r.partition]
           count == Len(r.records)
           result == Published(first, count, b)
<1>1. /\ Applying /\ Fresh /\ RangeFits /\ BytesFit
      /\ r.sequence > SessionOf(staged, IdOf(r)).highest
      /\ Decide(w, result)
  BY DEF Publish, Fresh, Unseen
<1>2. /\ r \in Requests /\ applied + 1 \in 1 .. MaxLog /\ pos \in 1 .. MaxBatch
      /\ staged \in Dbs /\ slot \in Nat /\ Owned(staged) /\ OnceIn(staged)
  BY <1>1, ApplyingTypes DEF IInv, TypeOK
<1>3. /\ IdOf(r) \in RequestIds /\ r.partition \in Partitions
      /\ r.bookmark \in Names \cup {None}
      /\ count \in Nat /\ first \in Nat /\ staged.publication[r.partition] \in Nat
  BY <1>2, IdOfType, RequestsAssumption, ConstantsAssumption DEF Dbs
<1>4. b \in BookmarkRecords \cup {None}
  <2>1. CASE r.bookmark = None
    BY <2>1 DEF PublishBookmark
  <2>2. CASE r.bookmark # None
    <3>1. <<applied + 1, pos>> \in AllBookmarkIds
      BY <1>2 DEF AllBookmarkIds, PublishBookmarkIds
    <3>2. first + count \in Nat /\ staged.publication[r.partition] + 1 \in Nat
      BY <1>3
    <3> QED
      BY <1>3, <2>2, <3>1, <3>2 DEF PublishBookmark, Bookmark, BookmarkRecords
  <2> QED
    BY <2>1, <2>2
<1>5. result \in Results
  BY <1>3, <1>4 DEF Published, Results
<1>6. /\ marked \in Dbs /\ marked.records = staged.records
      /\ marked.sessions = staged.sessions
      /\ marked.next = staged.next /\ marked.bytes = staged.bytes
  BY <1>2, <1>4, PutBookmarkType
<1> HIDE DEF marked, b
<1>7. /\ w \in Dbs
      /\ w.sessions = staged.sessions
      /\ \A p \in Partitions : \A o \in 0 .. MaxOffset - 1 :
            RecordAt(w, p, o) =
               IF p = r.partition /\ o \in first .. first + count - 1
                 THEN [entry |-> applied + 1, slot |-> slot + (o - first),
                       request |-> IdOf(r)]
                 ELSE RecordAt(staged, p, o)
  <2>1. /\ marked.next[r.partition] + count <= MaxOffset
        /\ marked.bytes[r.partition] + r.bytes <= MaxBytes
    BY <1>1, <1>6 DEF RangeFits, BytesFit
  <2>2. /\ w \in Dbs
        /\ w.sessions = marked.sessions
        /\ \A p \in Partitions : \A o \in 0 .. MaxOffset - 1 :
              RecordAt(w, p, o) =
                 IF p = r.partition /\ o \in marked.next[p] .. marked.next[p] + count - 1
                   THEN [entry |-> applied + 1, slot |-> slot + (o - marked.next[p]),
                         request |-> IdOf(r)]
                   ELSE RecordAt(marked, p, o)
    BY <1>2, <1>6, <2>1, PutRecordsType
  <2>3. \A p \in Partitions : \A o \in 0 .. MaxOffset - 1 :
           RecordAt(marked, p, o) = RecordAt(staged, p, o)
    BY <1>6 DEF RecordAt
  <2> HIDE DEF w
  <2> QED
    BY <1>6, <2>2, <2>3
<1> HIDE DEF w
<1> DEFINE IsNew(p, o) == p = r.partition /\ o \in first .. first + count - 1
<1>8. ASSUME NEW p \in Partitions, NEW o \in 0 .. MaxOffset - 1,
             RecordAt(staged, p, o) # None
      PROVE  /\ RecordAt(staged, p, o).request # IdOf(r)
             /\ RecordAt(staged, p, o).request.partition = p
             /\ RecordAt(staged, p, o).request.sequence
                   <= SessionOf(staged, RecordAt(staged, p, o).request).highest
  <2>1. /\ RecordAt(staged, p, o).request.partition = p
        /\ RecordAt(staged, p, o).request.sequence
              <= SessionOf(staged, RecordAt(staged, p, o).request).highest
    BY <1>2, <1>8 DEF Owned
  <2>2. /\ IdOf(r).sequence = r.sequence
        /\ r.sequence \in Int
        /\ SessionOf(staged, IdOf(r)).highest \in Int
    <3>1. IdOf(r).sequence = r.sequence /\ r.sequence \in Sequences_
      BY <1>2, IdOfType
    <3> QED
      BY <1>2, <1>3, <3>1, SequencesAreInts, StoredTypes
  <2>3. RecordAt(staged, p, o).request # IdOf(r)
    <3> SUFFICES ASSUME RecordAt(staged, p, o).request = IdOf(r)
                 PROVE  FALSE
      OBVIOUS
    <3>1. r.sequence <= SessionOf(staged, IdOf(r)).highest
      BY <2>1, <2>2
    <3> QED
      BY <1>1, <2>2, <3>1
  <2> QED
    BY <2>1, <2>3
<1>9. ASSUME NEW p \in Partitions, NEW o \in 0 .. MaxOffset - 1,
             RecordAt(w, p, o) # None
      PROVE  /\ RecordAt(w, p, o).request.partition = p
             /\ \/ RecordAt(w, p, o).request = IdOf(r)
                \/ RecordAt(w, p, o).request.sequence
                      <= SessionOf(staged, RecordAt(w, p, o).request).highest
  <2>1. CASE IsNew(p, o)
    BY <1>2, <1>7, <2>1, IdOfType
  <2>2. CASE ~IsNew(p, o)
    BY <1>7, <1>8, <1>9, <2>2
  <2> QED
    BY <2>1, <2>2
<1>10. OnceIn(w)
  <2> SUFFICES ASSUME NEW p \in Partitions,
                      NEW o1 \in 0 .. MaxOffset - 1, NEW o2 \in 0 .. MaxOffset - 1,
                      RecordAt(w, p, o1) # None, RecordAt(w, p, o2) # None,
                      RecordAt(w, p, o1).request = RecordAt(w, p, o2).request
               PROVE  /\ RecordAt(w, p, o1).entry = RecordAt(w, p, o2).entry
                      /\ RecordAt(w, p, o1).slot - RecordAt(w, p, o2).slot = o1 - o2
    BY DEF OnceIn
  <2>1. CASE IsNew(p, o1) /\ IsNew(p, o2)
    <3>1. /\ RecordAt(w, p, o1) = [entry |-> applied + 1, slot |-> slot + (o1 - first),
                                   request |-> IdOf(r)]
          /\ RecordAt(w, p, o2) = [entry |-> applied + 1, slot |-> slot + (o2 - first),
                                   request |-> IdOf(r)]
      BY <1>7, <2>1
    <3>2. (slot + (o1 - first)) - (slot + (o2 - first)) = o1 - o2
      <4> HIDE DEF first
      <4> QED
        BY <1>2, <1>3
    <3> QED
      BY <3>1, <3>2
  <2>2. CASE ~IsNew(p, o1) /\ ~IsNew(p, o2)
    <3>1. RecordAt(w, p, o1) = RecordAt(staged, p, o1)
            /\ RecordAt(w, p, o2) = RecordAt(staged, p, o2)
      BY <1>7, <2>2
    <3> QED
      BY <1>2, <3>1 DEF OnceIn
  <2>3. CASE IsNew(p, o1) /\ ~IsNew(p, o2)
    BY <1>7, <1>8, <2>3
  <2>4. CASE ~IsNew(p, o1) /\ IsNew(p, o2)
    BY <1>7, <1>8, <2>4
  <2> QED
    BY <2>1, <2>2, <2>3, <2>4
<1> HIDE DEF result, r
<1> QED
  BY <1>1, <1>5, <1>7, <1>9, <1>10, DecideKeepsInv DEF r

(* Every return of apply_one keeps the invariant.                          *)
LEMMA ApplyOneKeepsInv ==
    ASSUME IInv, ApplyOne
    PROVE  IInv'
<1>1. CASE ForeignCluster
  BY <1>1, FailedTypes, ReturnKeepsInv DEF ForeignCluster
<1>2. CASE ReplayReceipt
  <2> DEFINE stored == PriorOutcome(IdOf(Request))
  <2>1. Applying /\ stored # None /\ ReturnWithoutEffect(Replay(stored, Request))
    BY <1>2 DEF ReplayReceipt
  <2>2. Request \in Requests /\ IdOf(Request) \in RequestIds
    BY <2>1, ApplyingTypes, IdOfType DEF IInv
  <2>3. outcomes[IdOf(Request)] \in Outcomes \cup {None}
    BY <2>2 DEF IInv, TypeOK
  <2>4. db.receipts[IdOf(Request)] \in Outcomes \cup {None}
    BY <2>2 DEF IInv, TypeOK, Dbs
  <2>5. stored \in Outcomes
    BY <2>1, <2>3, <2>4 DEF PriorOutcome
  <2> QED
    BY <2>1, <2>2, <2>5, ReplayType, ReturnKeepsInv
<1>3. CASE RejectExpired
  BY <1>3, FailedTypes, ReturnKeepsInv DEF RejectExpired, Unseen
<1>4. CASE RejectBookmarkName
  BY <1>4, FailedTypes, RejectKeepsInv DEF RejectBookmarkName
<1>5. CASE RejectRange
  BY <1>5, FailedTypes, RejectKeepsInv DEF RejectRange
<1>6. CASE RejectBytes
  BY <1>6, FailedTypes, RejectKeepsInv DEF RejectBytes
<1>7. CASE RejectBookmarkId
  BY <1>7, FailedTypes, RejectKeepsInv DEF RejectBookmarkId
<1>8. CASE Publish
  BY <1>8, PublishKeepsInv
<1> QED
  BY <1>1, <1>2, <1>3, <1>4, <1>5, <1>6, <1>7, <1>8 DEF ApplyOne

(* The durable write: whatever it installs becomes both states.            *)
LEMMA InstallKeepsInv ==
    ASSUME IInv, NEW w \in Dbs, Owned(w), OnceIn(w),
           log' = log, applied' \in 0 .. Len(log), db' = w, Idle(w),
           answered' \subseteq Requests \X Results
    PROVE  IInv'
<1>1. /\ pos' = 0 /\ slot' = 0 /\ staged' = w /\ outcomes' = EmptyOutcomes /\ outs' = <<>>
  BY DEF Idle
<1>2. EmptyOutcomes \in [RequestIds -> Outcomes \cup {None}]
  BY DEF EmptyOutcomes
<1>3. TypeOK'
  BY <1>1, <1>2 DEF IInv, TypeOK
<1>4. TxnOK'
  BY <1>1 DEF IInv, TxnOK, EmptyOutcomes
<1>5. Owned(db)' /\ OnceIn(db)' /\ Owned(staged)' /\ OnceIn(staged)'
  BY <1>1 DEF Owned, OnceIn, RecordAt, SessionOf
<1> QED
  BY <1>3, <1>4, <1>5 DEF IInv

(* The replies of one PublishMany entry are typed.                         *)
LEMMA CompleteResponseType ==
    ASSUME NEW requests \in Seq(Requests), NEW result,
           result.kind = "PublishedMany" =>
              \A k \in DOMAIN requests : result.items[k] \in Results
    PROVE  CompleteResponse(requests, result) \subseteq Requests \X Results
<1>1. ASSUME NEW k \in DOMAIN requests
      PROVE  /\ requests[k] \in Requests
             /\ (IF result.kind = "PublishedMany"
                   THEN result.items[k] ELSE Failed("Storage")) \in Results
  BY FailedTypes
<1> QED
  BY <1>1 DEF CompleteResponse

(* A state that differs from the durable one in bookmarks or fence only.   *)
LEMMA SameRecords ==
    ASSUME IInv, NEW w \in Dbs, w.records = db.records, w.sessions = db.sessions
    PROVE  Owned(w) /\ OnceIn(w)
BY DEF IInv, Owned, OnceIn, RecordAt, SessionOf

(* apply_entry writes the staged batch: durable and staged state meet.     *)
LEMMA CommitPublishManyKeepsInv ==
    ASSUME IInv, CommitPublishMany
    PROVE  IInv'
<1>1. /\ pos > 0 /\ pos > Len(Entry.requests)
      /\ db' = staged /\ applied' = applied + 1 /\ log' = log /\ Idle(staged)
      /\ answered' = answered \cup CompleteResponse(Entry.requests, PublishedMany(outs))
  BY DEF CommitPublishMany
<1>2. /\ applied < Len(log) /\ Entry.type = "PublishMany"
      /\ pos <= Len(Entry.requests) + 1 /\ Len(outs) = pos - 1
      /\ staged \in Dbs /\ Owned(staged) /\ OnceIn(staged)
      /\ log \in Seq(Commands) /\ applied \in 0 .. Len(log) /\ pos \in Nat
      /\ outs \in Seq(Results) /\ answered \subseteq Requests \X Results
  BY <1>1 DEF IInv, TypeOK, TxnOK
<1>3. Entry \in Commands
  BY <1>2 DEF Entry
<1>4. Entry.requests \in Seq(Requests) /\ Len(Entry.requests) \in Nat
  BY <1>2, <1>3, CommandShapes, ConstantsAssumption
<1>5. Len(outs) = Len(Entry.requests)
  BY <1>1, <1>2, <1>4
<1>6. \A k \in DOMAIN Entry.requests : PublishedMany(outs).items[k] \in Results
  BY <1>2, <1>4, <1>5 DEF PublishedMany
<1>7. answered' \subseteq Requests \X Results
  BY <1>1, <1>2, <1>4, <1>6, CompleteResponseType
<1>8. applied' \in 0 .. Len(log)
  BY <1>1, <1>2
<1> QED
  BY <1>1, <1>2, <1>7, <1>8, InstallKeepsInv

(* Under the fence a batch is answered from receipts; nothing is staged.   *)
LEMMA FencedPublishManyKeepsInv ==
    ASSUME IInv, FencedPublishMany
    PROVE  IInv'
<1> DEFINE items == [k \in DOMAIN Entry.requests |-> FencedOutcome(Entry.requests[k])]
<1>1. /\ pos = 0 /\ applied < Len(log) /\ Entry.type = "PublishMany"
      /\ applied' = applied + 1
      /\ answered' = answered \cup
             CompleteResponse(Entry.requests, ReplayPublishMany(Entry.requests))
      /\ UNCHANGED <<log, db, pos, slot, staged, outcomes, outs>>
  BY DEF FencedPublishMany, Ready, txn
<1>2. /\ log \in Seq(Commands) /\ applied \in 0 .. Len(log) /\ db \in Dbs
      /\ answered \subseteq Requests \X Results
  BY DEF IInv, TypeOK
<1>3. Entry \in Commands
  BY <1>1, <1>2 DEF Entry
<1>4. Entry.requests \in Seq(Requests)
  BY <1>1, <1>3, CommandShapes
<1>5. ASSUME NEW k \in DOMAIN Entry.requests
      PROVE  FencedOutcome(Entry.requests[k]) \in Results
  <2> DEFINE r == Entry.requests[k]
  <2>1. r \in Requests
    BY <1>4
  <2>2. IdOf(r) \in RequestIds
    BY <2>1, IdOfType
  <2>3. db.receipts[IdOf(r)] \in Outcomes \cup {None}
    BY <1>2, <2>2 DEF Dbs
  <2> HIDE DEF r
  <2>4. db.receipts[IdOf(r)] # None => Replay(db.receipts[IdOf(r)], r) \in Results
    BY <2>1, <2>3, ReplayType
  <2> QED
    BY <2>4, FailedTypes DEF FencedOutcome, r
<1>6. CompleteResponse(Entry.requests, ReplayPublishMany(Entry.requests))
         \subseteq Requests \X Results
  <2>1. CASE \E k \in DOMAIN items : items[k] # Failed("ExportInProgress")
    <3>1. ReplayPublishMany(Entry.requests) = PublishedMany(items)
      BY <2>1 DEF ReplayPublishMany
    <3>2. \A k \in DOMAIN Entry.requests : PublishedMany(items).items[k] \in Results
      BY <1>5 DEF PublishedMany
    <3> HIDE DEF items
    <3> QED
      BY <1>4, <3>1, <3>2, CompleteResponseType
  <2>2. CASE ~\E k \in DOMAIN items : items[k] # Failed("ExportInProgress")
    <3>1. ReplayPublishMany(Entry.requests) = Rejected("ExportInProgress")
      BY <2>2 DEF ReplayPublishMany
    <3>2. Rejected("ExportInProgress").kind # "PublishedMany"
      BY DEF Rejected
    <3> QED
      BY <1>4, <3>1, <3>2, CompleteResponseType
  <2> QED
    BY <2>1, <2>2
<1>7. TypeOK'
  BY <1>1, <1>2, <1>6 DEF IInv, TypeOK
<1>8. TxnOK'
  BY <1>1 DEF IInv, TxnOK
<1>9. Owned(db)' /\ OnceIn(db)' /\ Owned(staged)' /\ OnceIn(staged)'
  BY <1>1 DEF IInv, Owned, OnceIn, RecordAt, SessionOf
<1> QED
  BY <1>7, <1>8, <1>9 DEF IInv

(* Entries applied and written in one step.                                *)
LEMMA WriteEntryKeepsInv ==
    ASSUME IInv, Ready, NEW w \in Dbs, w.records = db.records, w.sessions = db.sessions,
           WriteEntry(w)
    PROVE  IInv'
<1>1. /\ db' = w /\ applied' = applied + 1 /\ log' = log /\ Idle(w) /\ answered' = answered
  BY DEF WriteEntry
<1>2. applied' \in 0 .. Len(log) /\ answered' \subseteq Requests \X Results
  BY <1>1 DEF IInv, TypeOK, Ready
<1> QED
  BY <1>1, <1>2, SameRecords, InstallKeepsInv

(* Bookmark and fence entries touch no record, receipt or session.         *)
LEMMA BookmarkAndFenceKeepInv ==
    ASSUME IInv, CreateBookmark \/ DeleteBookmark \/ SetFence
    PROVE  IInv'
<1>1. db \in Dbs /\ log \in Seq(Commands) /\ applied \in 0 .. Len(log)
  BY DEF IInv, TypeOK
<1>2. Ready => Entry \in Commands
  BY <1>1 DEF Ready, Entry
<1>3. CASE CreateBookmark
  <2> DEFINE b == Bookmark(Entry.id, Entry.partition, Entry.name, Entry.offset,
                           db.publication[Entry.partition] + 1)
             w == IF ~db.fence /\ CanCreateBookmark(Entry) THEN PutBookmark(db, b) ELSE db
  <2>1. Ready /\ Entry.type = "CreateBookmark" /\ WriteEntry(w)
    BY <1>3 DEF CreateBookmark
  <2>2. /\ Entry.id \in AllBookmarkIds /\ Entry.partition \in Partitions
        /\ Entry.name \in Names /\ Entry.offset \in Nat
    BY <1>2, <2>1, CommandShapes DEF AllBookmarkIds
  <2>3. db.publication[Entry.partition] + 1 \in Nat
    BY <1>1, <2>2 DEF Dbs
  <2>4. b \in BookmarkRecords
    BY <2>2, <2>3 DEF Bookmark, BookmarkRecords
  <2> HIDE DEF b
  <2>5. w \in Dbs /\ w.records = db.records /\ w.sessions = db.sessions
    BY <1>1, <2>4, PutBookmarkType
  <2> HIDE DEF w
  <2> QED
    BY <2>1, <2>5, WriteEntryKeepsInv
<1>4. CASE DeleteBookmark
  <2> DEFINE w == IF ~db.fence /\ CanDeleteBookmark(Entry)
                    THEN RemoveBookmark(db, db.bookmarks[Entry.id]) ELSE db
  <2>1. Ready /\ Entry.type = "DeleteBookmark" /\ WriteEntry(w)
    BY <1>4 DEF DeleteBookmark
  <2>2. db.bookmarks[Entry.id] \in BookmarkRecords \cup {None}
    <3>1. Entry.id \in AllBookmarkIds
      BY <1>2, <2>1, CommandShapes
    <3> QED
      BY <1>1, <3>1 DEF Dbs
  <2>3. CASE ~db.fence /\ CanDeleteBookmark(Entry)
    <3>1. db.bookmarks[Entry.id] \in BookmarkRecords
      BY <2>2, <2>3 DEF CanDeleteBookmark
    <3>2. w = RemoveBookmark(db, db.bookmarks[Entry.id])
      BY <2>3
    <3>3. w \in Dbs /\ w.records = db.records /\ w.sessions = db.sessions
      BY <1>1, <3>1, <3>2, RemoveBookmarkType
    <3> HIDE DEF w
    <3> QED
      BY <2>1, <3>3, WriteEntryKeepsInv
  <2>4. CASE ~(~db.fence /\ CanDeleteBookmark(Entry))
    <3>1. WriteEntry(db)
      BY <2>1, <2>4
    <3> QED
      BY <1>1, <2>1, <3>1, WriteEntryKeepsInv
  <2> QED
    BY <2>3, <2>4
<1>5. CASE SetFence
  <2> DEFINE w == [db EXCEPT !.fence = (Entry.type = "AcquireFence")]
  <2>1. Ready /\ WriteEntry(w)
    BY <1>5 DEF SetFence
  <2>2. w \in Dbs /\ w.records = db.records /\ w.sessions = db.sessions
    BY <1>1 DEF Dbs
  <2> HIDE DEF w
  <2> QED
    BY <2>1, <2>2, WriteEntryKeepsInv
<1> QED
  BY <1>3, <1>4, <1>5

(* A new entry at the end of the log is not yet applied.                   *)
LEMMA CommitKeepsInv ==
    ASSUME IInv, Commit
    PROVE  IInv'
<1>1. PICK c \in Commands : log' = Append(log, c)
  BY DEF Commit
<1>2. /\ Len(log) < MaxLog
      /\ UNCHANGED <<applied, db, pos, slot, staged, outcomes, outs, answered>>
  BY DEF Commit, txn
<1>3. log \in Seq(Commands) /\ applied \in 0 .. Len(log)
  BY DEF IInv, TypeOK
<1>4. log' \in Seq(Commands) /\ Len(log') = Len(log) + 1
  BY <1>1, <1>3
<1>5. TypeOK'
  BY <1>2, <1>3, <1>4 DEF IInv, TypeOK
<1>6. TxnOK'
  <2>1. Len(log') <= MaxLog
    BY <1>2, <1>3, <1>4, ConstantsAssumption
  <2>2. ASSUME pos > 0
        PROVE  applied < Len(log) /\ Entry' = Entry
    <3>1. applied < Len(log)
      BY <2>2 DEF IInv, TxnOK
    <3>2. log'[applied + 1] = log[applied + 1]
      BY <1>1, <1>3, <3>1
    <3> QED
      BY <1>2, <3>1, <3>2 DEF Entry
  <2>3. pos' > 0 => applied' < Len(log')
    BY <1>2, <1>3, <1>4, <2>2
  <2> QED
    BY <1>2, <2>1, <2>2, <2>3 DEF IInv, TxnOK
<1>7. Owned(db)' /\ OnceIn(db)' /\ Owned(staged)' /\ OnceIn(staged)'
  BY <1>2 DEF IInv, Owned, OnceIn, RecordAt, SessionOf
<1> QED
  BY <1>5, <1>6, <1>7 DEF IInv

(* A batch starts from the durable state.                                  *)
LEMMA BeginPublishManyKeepsInv ==
    ASSUME IInv, BeginPublishMany
    PROVE  IInv'
<1>1. /\ pos = 0 /\ applied < Len(log) /\ Entry.type = "PublishMany" /\ pos' = 1
      /\ UNCHANGED <<log, applied, db, slot, staged, outcomes, outs, answered>>
  BY DEF BeginPublishMany, Ready
<1>2. log \in Seq(Commands) /\ applied \in 0 .. Len(log)
  BY DEF IInv, TypeOK
<1>3. Entry \in Commands /\ Entry' = Entry
  BY <1>1, <1>2 DEF Entry
<1>4. Len(Entry.requests) \in 1 .. MaxBatch
  BY <1>1, <1>3, CommandShapes
<1>5. TypeOK'
  BY <1>1 DEF IInv, TypeOK
<1>6. Len(outs) = 0
  BY <1>1 DEF IInv, TxnOK
<1>7. TxnOK'
  BY <1>1, <1>3, <1>4, <1>6, ConstantsAssumption DEF IInv, TxnOK
<1>8. Owned(db)' /\ OnceIn(db)' /\ Owned(staged)' /\ OnceIn(staged)'
  BY <1>1 DEF IInv, Owned, OnceIn, RecordAt, SessionOf
<1> QED
  BY <1>5, <1>7, <1>8 DEF IInv

(* A crash drops what was staged and nothing else.                         *)
LEMMA CrashKeepsInv ==
    ASSUME IInv, Crash
    PROVE  IInv'
BY InstallKeepsInv DEF Crash, IInv, TypeOK

(* An empty group satisfies the invariant.                                 *)
LEMMA InitInv == Init => IInv
<1> SUFFICES ASSUME Init PROVE IInv
  OBVIOUS
<1>1. InitialDb \in Dbs
  BY ConstantsAssumption DEF InitialDb, Dbs, EmptyOutcomes, NoSession
<1>2. EmptyOutcomes \in [RequestIds -> Outcomes \cup {None}]
  BY DEF EmptyOutcomes
<1>3. TypeOK
  BY <1>1, <1>2 DEF Init, TypeOK
<1>4. TxnOK
  BY ConstantsAssumption DEF Init, TxnOK, EmptyOutcomes
<1>5. \A p \in Partitions : \A o \in 0 .. MaxOffset - 1 : RecordAt(InitialDb, p, o) = None
  BY DEF InitialDb, RecordAt
<1>6. Owned(InitialDb) /\ OnceIn(InitialDb)
  BY <1>5 DEF Owned, OnceIn
<1> QED
  BY <1>3, <1>4, <1>6 DEF Init, IInv

(* The invariant is inductive.                                             *)
LEMMA NextKeepsInv == IInv /\ [Next]_vars => IInv'
<1> SUFFICES ASSUME IInv, [Next]_vars PROVE IInv'
  OBVIOUS
<1>1. CASE UNCHANGED vars
  <2>1. UNCHANGED <<log, applied, db, pos, slot, staged, outcomes, outs, answered>>
    BY <1>1 DEF vars
  <2>2. TypeOK'
    BY <2>1 DEF IInv, TypeOK
  <2>3. TxnOK'
    BY <2>1 DEF IInv, TxnOK, Entry
  <2>4. Owned(db)' /\ OnceIn(db)' /\ Owned(staged)' /\ OnceIn(staged)'
    BY <2>1 DEF IInv, Owned, OnceIn, RecordAt, SessionOf
  <2> QED
    BY <2>2, <2>3, <2>4 DEF IInv
<1>2. CASE Next
  BY <1>2, CommitKeepsInv, BeginPublishManyKeepsInv, ApplyOneKeepsInv,
     CommitPublishManyKeepsInv, FencedPublishManyKeepsInv, BookmarkAndFenceKeepInv,
     CrashKeepsInv DEF Next
<1> QED
  BY <1>1, <1>2

-----------------------------------------------------------------------------
(* The variables of the publish state machine keep their types, in         *)
(* particular a tail never passes the largest offset and a byte position   *)
(* never passes the largest position (apply_one's overflow checks).        *)
THEOREM PublishTypeCorrect == Spec => []TypeOK
<1>1. IInv => TypeOK
  BY DEF IInv
<1> QED
  BY <1>1, InitInv, NextKeepsInv, PTL DEF Spec

(* A request identity is published at most once, whatever clients retry,   *)
(* duplicate or reorder, however small the receipt window, and wherever    *)
(* the process crashes (apply_one, advance_session).                       *)
THEOREM PublishExactlyOnce == Spec => []ExactlyOnce
<1>1. IInv => ExactlyOnce
  BY DEF IInv, OnceIn, ExactlyOnce
<1> QED
  BY <1>1, InitInv, NextKeepsInv, PTL DEF Spec

-----------------------------------------------------------------------------
(* The payload slots of a log entry.                                       *)

(* The least number of a set; the induction of the lemmas below.           *)
LEMMA LeastNatural ==
    ASSUME NEW T \in SUBSET Nat, T # {}
    PROVE  \E m \in T : \A n \in T : m <= n
<1>1. PICK m \in T : \A n \in T : ~(<<n, m>> \in OpToRel(<, Nat))
  BY NatLessThanWellFounded, WFMin
<1>2. ASSUME NEW n \in T PROVE m <= n
  <2>1. n < m => <<n, m>> \in OpToRel(<, Nat)
    BY DEF OpToRel
  <2>2. ~(n < m)
    BY <1>1, <2>1, Zenon
  <2> QED BY <2>2
<1> QED BY <1>2

(* Concatenation, element by element.                                      *)
LEMMA ConcatFacts ==
    ASSUME NEW T, NEW a \in Seq(T), NEW c \in Seq(T)
    PROVE  /\ a \o c \in Seq(T)
           /\ Len(a) \in Nat /\ Len(c) \in Nat /\ Len(a \o c) = Len(a) + Len(c)
           /\ \A i \in 1 .. Len(a) : i \in 1 .. Len(a \o c) /\ (a \o c)[i] = a[i]
           /\ \A i \in 1 .. Len(c) :
                 Len(a) + i \in 1 .. Len(a \o c) /\ (a \o c)[Len(a) + i] = c[i]
OBVIOUS

(* The payloads of the first n requests.                                   *)
IsFlat(f, rs, n) ==
    /\ f \in [0 .. n -> Seq(Payloads)] /\ f[0] = <<>>
    /\ \A i \in 1 .. n : f[i] = f[i - 1] \o rs[i].records

FlatOf(rs) == CHOOSE f : IsFlat(f, rs, Len(rs))

LEMMA FlatExists ==
    ASSUME NEW rs \in Seq(Requests), NEW n \in 0 .. Len(rs)
    PROVE  \E f : IsFlat(f, rs, n)
<1> DEFINE bad == {i \in 0 .. Len(rs) : ~\E f : IsFlat(f, rs, i)}
<1> SUFFICES ASSUME bad # {} PROVE FALSE
  OBVIOUS
<1>1. PICK m \in bad : \A i \in bad : m <= i
  <2>1. bad \in SUBSET Nat
    OBVIOUS
  <2> HIDE DEF bad
  <2> QED BY <2>1, LeastNatural
<1>2. CASE m = 0
  <2> DEFINE f == [i \in 0 .. 0 |-> <<>>]
  <2>1. IsFlat(f, rs, 0)
    BY DEF IsFlat
  <2> QED BY <1>1, <1>2, <2>1
<1>3. CASE m # 0
  <2>1. /\ m \in 1 .. Len(rs) /\ m - 1 \in 0 .. Len(rs) /\ m - 1 \notin bad
        /\ m \in Nat /\ m > 0
    BY <1>1, <1>3
  <2>2. PICK f : IsFlat(f, rs, m - 1)
    BY <2>1
  <2> DEFINE last == f[m - 1] \o rs[m].records
             g == [i \in 0 .. m |-> IF i = m THEN last ELSE f[i]]
  <2>3. f[m - 1] \in Seq(Payloads) /\ rs[m].records \in Seq(Payloads)
    <3>1. rs[m] \in Requests /\ m - 1 \in 0 .. m - 1
      BY <2>1
    <3>2. f[m - 1] \in Seq(Payloads)
      BY <3>1, <2>2 DEF IsFlat
    <3>3. rs[m].records \in Seq(Payloads)
      BY <3>1, RequestsAssumption
    <3> QED BY <3>2, <3>3
  <2>4. f[m - 1] \o rs[m].records \in Seq(Payloads)
    <3> DEFINE a == f[m - 1]
               c == rs[m].records
    <3> HIDE DEF a, c
    <3>1. a \in Seq(Payloads) /\ c \in Seq(Payloads)
      BY <2>3 DEF a, c
    <3>2. a \o c \in Seq(Payloads)
      BY <3>1, ConcatFacts
    <3> QED BY <3>2 DEF a, c
  <2>5. \A i \in 0 .. m - 1 : g[i] = f[i] /\ g[i] \in Seq(Payloads)
    <3> HIDE DEF last, bad
    <3>1. ASSUME NEW i \in 0 .. m - 1 PROVE i \in 0 .. m /\ i # m /\ f[i] \in Seq(Payloads)
      BY <2>1, <2>2 DEF IsFlat
    <3> QED BY <3>1
  <2>6. g[m] = f[m - 1] \o rs[m].records /\ g = [i \in 0 .. m |-> g[i]]
    <3>1. g[m] = last /\ g = [i \in 0 .. m |-> g[i]]
      <4> HIDE DEF last, bad
      <4> QED BY <2>1
    <3> QED BY <3>1
  <2> HIDE DEF g, bad, last
  <2>7. ASSUME NEW i \in 0 .. m PROVE g[i] \in Seq(Payloads)
    <3>1. i = m \/ i \in 0 .. m - 1
      BY <2>1
    <3> QED BY <3>1, <2>4, <2>5, <2>6
  <2>8. g \in [0 .. m -> Seq(Payloads)] /\ g[0] = <<>>
    <3>1. 0 \in 0 .. m - 1
      BY <2>1
    <3>2. g[0] = <<>>
      BY <3>1, <2>2, <2>5 DEF IsFlat
    <3>3. g \in [0 .. m -> Seq(Payloads)]
      BY <2>6, <2>7
    <3> QED BY <3>2, <3>3
  <2>9. ASSUME NEW i \in 1 .. m PROVE g[i] = g[i - 1] \o rs[i].records
    <3>1. CASE i = m
      <4>1. m - 1 \in 0 .. m - 1
        BY <2>1
      <4> QED BY <4>1, <2>5, <2>6, <3>1
    <3>2. CASE i # m
      <4>1. i \in 1 .. m - 1 /\ i \in 0 .. m - 1 /\ i - 1 \in 0 .. m - 1
        BY <2>1, <3>2
      <4>2. f[i] = f[i - 1] \o rs[i].records
        BY <4>1, <2>2 DEF IsFlat
      <4> QED BY <4>1, <4>2, <2>5
    <3> QED BY <3>1, <3>2
  <2>10. IsFlat(g, rs, m)
    BY <2>8, <2>9 DEF IsFlat
  <2> QED BY <1>1, <2>10 DEF bad
<1> QED BY <1>2, <1>3

LEMMA FlatIs ==
    ASSUME NEW rs \in Seq(Requests)
    PROVE  IsFlat(FlatOf(rs), rs, Len(rs)) /\ PayloadsOf(rs) = FlatOf(rs)[Len(rs)]
<1> DEFINE f == FlatOf(rs)
           Body(h) == [n \in 0 .. Len(rs) |-> IF n = 0 THEN <<>> ELSE h[n - 1] \o rs[n].records]
<1>0. Len(rs) \in 0 .. Len(rs)
  OBVIOUS
<1>1. IsFlat(f, rs, Len(rs))
  BY <1>0, FlatExists, Zenon DEF FlatOf
<1> HIDE DEF f
<1>2. f = Body(f)
  <2>1. f = [n \in 0 .. Len(rs) |-> f[n]]
    BY <1>1 DEF IsFlat
  <2>2. ASSUME NEW n \in 0 .. Len(rs) PROVE f[n] = Body(f)[n]
    <3>1. n = 0 \/ n \in 1 .. Len(rs)
      OBVIOUS
    <3>2. n \in 1 .. Len(rs) => f[n] = f[n - 1] \o rs[n].records
      BY <1>1 DEF IsFlat
    <3>3. n = 0 => f[n] = <<>>
      BY <1>1 DEF IsFlat
    <3> QED BY <3>1, <3>2, <3>3
  <2>3. Body(f) = [n \in 0 .. Len(rs) |-> Body(f)[n]]
    OBVIOUS
  <2> HIDE DEF Body
  <2> QED BY <2>1, <2>2, <2>3
<1> DEFINE k == CHOOSE h : h = Body(h)
<1>3. PayloadsOf(rs) = k[Len(rs)]
  BY Zenon DEF PayloadsOf
<1>4. k = Body(k)
  <2> HIDE DEF Body
  <2> QED BY <1>2, Zenon
<1> HIDE DEF k
<1>5. \A n \in 0 .. Len(rs) : k[n] = IF n = 0 THEN <<>> ELSE k[n - 1] \o rs[n].records
  BY <1>4
<1>6. ASSUME NEW n \in 0 .. Len(rs), k[n] # f[n] PROVE FALSE
  <2> DEFINE bad == {i \in 0 .. Len(rs) : k[i] # f[i]}
  <2>1. PICK m \in bad : \A i \in bad : m <= i
    <3>1. bad \in SUBSET Nat /\ bad # {}
      BY <1>6
    <3> HIDE DEF bad
    <3> QED BY <3>1, LeastNatural
  <2>2. m # 0 /\ m - 1 \in 0 .. Len(rs) /\ k[m - 1] = f[m - 1]
    BY <2>1, <1>5, <1>1 DEF IsFlat
  <2>3. m \in 0 .. Len(rs) /\ m \in 1 .. Len(rs) /\ k[m] # f[m]
    BY <2>1, <2>2
  <2>4. k[m] = k[m - 1] \o rs[m].records
    BY <1>5, <2>2, <2>3
  <2>5. f[m] = f[m - 1] \o rs[m].records
    BY <1>1, <2>3 DEF IsFlat
  <2> QED BY <2>2, <2>3, <2>4, <2>5, Zenon
<1>7. PayloadsOf(rs) = f[Len(rs)]
  BY <1>0, <1>3, <1>6
<1> QED BY <1>1, <1>7 DEF f

(* What is in the slots of the first requests is in the entry.             *)
LEMMA FlatPrefix ==
    ASSUME NEW rs \in Seq(Requests), NEW k \in 0 .. Len(rs)
    PROVE  /\ FlatOf(rs)[k] \in Seq(Payloads)
           /\ Len(FlatOf(rs)[k]) <= Len(PayloadsOf(rs))
           /\ \A i \in 1 .. Len(FlatOf(rs)[k]) : PayloadsOf(rs)[i] = FlatOf(rs)[k][i]
<1> DEFINE f == FlatOf(rs)
           Starts(n) == /\ Len(f[n]) <= Len(PayloadsOf(rs))
                        /\ \A i \in 1 .. Len(f[n]) : PayloadsOf(rs)[i] = f[n][i]
           bad == {j \in 0 .. Len(rs) : ~Starts(Len(rs) - j)}
<1>1. IsFlat(f, rs, Len(rs)) /\ PayloadsOf(rs) = f[Len(rs)]
  BY FlatIs
<1> HIDE DEF f
<1>2. \A n \in 0 .. Len(rs) : f[n] \in Seq(Payloads) /\ Len(f[n]) \in Nat
  BY <1>1 DEF IsFlat
<1>3. Len(rs) \in Nat /\ Len(rs) \in 0 .. Len(rs)
  OBVIOUS
<1>4. ASSUME bad # {} PROVE FALSE
  <2>1. PICK m \in bad : \A i \in bad : m <= i
    <3>1. bad \in SUBSET Nat
      OBVIOUS
    <3> HIDE DEF bad
    <3> QED BY <1>4, <3>1, LeastNatural
  <2>2. m \in Nat /\ m <= Len(rs) /\ ~Starts(Len(rs) - m)
    BY <2>1
  <2>3. m # 0
    <3>1. Starts(Len(rs))
      BY <1>1, <1>2, <1>3
    <3>2. Len(rs) - 0 = Len(rs)
      BY <1>3
    <3> HIDE DEF Starts
    <3> QED BY <2>2, <3>1, <3>2
  <2> DEFINE n == Len(rs) - m
  <2>4. n \in Nat /\ n \in 0 .. Len(rs) /\ n + 1 \in 1 .. Len(rs) /\ n + 1 \in 0 .. Len(rs)
        /\ Len(rs) - (m - 1) = n + 1 /\ (n + 1) - 1 = n
    BY <1>3, <2>2, <2>3
  <2>5. Starts(n + 1)
    <3>1. m - 1 \in 0 .. Len(rs) /\ ~(m <= m - 1)
      BY <1>3, <2>2, <2>3
    <3>2. m - 1 \notin bad
      <4> HIDE DEF bad
      <4> QED BY <2>1, <3>1
    <3>3. Starts(Len(rs) - (m - 1))
      <4> HIDE DEF Starts
      <4> QED BY <3>1, <3>2
    <3> HIDE DEF Starts
    <3> QED BY <2>4, <3>3
  <2> HIDE DEF n
  <2>6. f[n + 1] = f[(n + 1) - 1] \o rs[n + 1].records
    BY <1>1, <2>4 DEF IsFlat
  <2>7. f[n + 1] = f[n] \o rs[n + 1].records
    BY <2>4, <2>6
  <2>8. rs[n + 1].records \in Seq(Payloads) /\ f[n] \in Seq(Payloads)
    <3>1. rs[n + 1] \in Requests
      BY <2>4
    <3> QED BY <1>2, <2>4, <3>1, RequestsAssumption
  <2>9. Len(f[n]) <= Len(f[n + 1]) /\ \A i \in 1 .. Len(f[n]) : i \in 1 .. Len(f[n + 1]) /\ f[n + 1][i] = f[n][i]
    <3> DEFINE a == f[n]
               c == rs[n + 1].records
    <3> HIDE DEF a, c
    <3>1. a \in Seq(Payloads) /\ c \in Seq(Payloads) /\ f[n + 1] = a \o c
      BY <2>7, <2>8 DEF a, c
    <3>2. Len(a) <= Len(a \o c) /\ \A i \in 1 .. Len(a) : i \in 1 .. Len(a \o c) /\ (a \o c)[i] = a[i]
      BY <3>1, ConcatFacts
    <3> QED BY <3>1, <3>2 DEF a
  <2>10. Len(f[n]) \in Nat /\ Len(f[n + 1]) \in Nat /\ Len(PayloadsOf(rs)) \in Nat
    BY <1>1, <1>2, <1>3, <2>4
  <2>11. Starts(n)
    BY <2>5, <2>9, <2>10
  <2> QED BY <2>2, <2>11 DEF n
<1>5. Starts(k)
  <2>1. Len(rs) - k \in 0 .. Len(rs) /\ Len(rs) - (Len(rs) - k) = k
    BY <1>3
  <2>2. Len(rs) - k \notin bad
    BY <1>4
  <2>3. Starts(Len(rs) - (Len(rs) - k))
    <3> HIDE DEF Starts
    <3> QED BY <2>1, <2>2
  <2> HIDE DEF Starts
  <2> QED BY <2>1, <2>3
<1> QED BY <1>2, <1>5 DEF f

(* thin_entry and apply_one number the slots alike: the payloads of        *)
(* request k start behind those of the requests before it.                 *)
LEMMA SlotPayload ==
    ASSUME NEW rs \in Seq(Requests), NEW k \in 1 .. Len(rs)
    PROVE  /\ Len(FlatOf(rs)[k - 1]) \in Nat
           /\ Len(FlatOf(rs)[k]) = Len(FlatOf(rs)[k - 1]) + Len(rs[k].records)
           /\ \A i \in 1 .. Len(rs[k].records) :
                 PayloadsOf(rs)[Len(FlatOf(rs)[k - 1]) + i] = rs[k].records[i]
<1> DEFINE f == FlatOf(rs)
<1>1. k - 1 \in 0 .. Len(rs) /\ k \in 0 .. Len(rs) /\ rs[k] \in Requests
  OBVIOUS
<1>2. f[k] = f[k - 1] \o rs[k].records
  BY FlatIs DEF IsFlat
<1>3. f[k - 1] \in Seq(Payloads) /\ rs[k].records \in Seq(Payloads) /\ f[k] \in Seq(Payloads)
  BY <1>1, FlatPrefix, RequestsAssumption
<1>4. \A i \in 1 .. Len(f[k]) : PayloadsOf(rs)[i] = f[k][i]
  BY <1>1, FlatPrefix
<1> HIDE DEF f
<1> DEFINE a == f[k - 1]
           c == rs[k].records
<1>5. /\ Len(a) \in Nat /\ Len(c) \in Nat /\ Len(a \o c) = Len(a) + Len(c)
      /\ \A i \in 1 .. Len(c) : Len(a) + i \in 1 .. Len(a \o c) /\ (a \o c)[Len(a) + i] = c[i]
  <2>1. a \in Seq(Payloads) /\ c \in Seq(Payloads)
    BY <1>3
  <2> HIDE DEF a, c
  <2> QED BY <2>1
<1> HIDE DEF a, c
<1>6. f[k] = a \o c
  BY <1>2 DEF a, c
<1> QED BY <1>4, <1>5, <1>6 DEF f, a, c

-----------------------------------------------------------------------------
(* What deciding a request leaves in the state.                            *)

Decided(w, r, result) == AdvanceSession(StoreOutcome(w, r, result), IdOf(r))

SameBookmarks(d, e) ==
    /\ e.bookmarks = d.bookmarks /\ e.names = d.names
    /\ e.order = d.order /\ e.publication = d.publication

(* The window of a session after one more sequence.                        *)
Kept(w, id) ==
    LET retained == Append(SessionOf(w, id).retained, id.sequence)
    IN  IF Len(retained) > ReceiptWindow THEN Tail(retained) ELSE retained

LEMMA DecidedFacts ==
    ASSUME NEW w \in Dbs, NEW r \in Requests, NEW result \in Results
    PROVE  /\ Decided(w, r, result) \in Dbs
           /\ Decided(w, r, result).records = w.records
           /\ Decided(w, r, result).next = w.next
           /\ SameBookmarks(w, Decided(w, r, result))
           /\ Decided(w, r, result).sessions =
                 [w.sessions EXCEPT ![<<r.partition, r.session>>] =
                    [highest |-> r.sequence, retained |-> Kept(w, IdOf(r))]]
           /\ Decided(w, r, result).receipts =
                 [k \in RequestIds |-> IF k \in Evicted(w, IdOf(r)) THEN None
                                       ELSE IF k = IdOf(r) THEN Outcome(r, result)
                                       ELSE w.receipts[k]]
<1> DEFINE id == IdOf(r)
           s == StoreOutcome(w, r, result)
           receipts1 == [w.receipts EXCEPT ![id] = Outcome(r, result)]
<1>1. /\ id \in RequestIds /\ id.partition = r.partition /\ id.session = r.session
      /\ id.sequence = r.sequence
  BY IdOfType
<1>2. s = [w EXCEPT !.receipts = receipts1]
  BY DEF StoreOutcome
<1>3. receipts1 \in [RequestIds -> Outcomes \cup {None}]
  BY <1>1 DEF Dbs, Outcome, Outcomes
<1>4. \A k \in RequestIds : receipts1[k] = IF k = id THEN Outcome(r, result) ELSE w.receipts[k]
  <2>1. w.receipts \in [RequestIds -> Outcomes \cup {None}]
    BY DEF Dbs
  <2> QED BY <1>1, <2>1
<1> HIDE DEF receipts1, id
<1>5. /\ s \in Dbs /\ s.receipts = receipts1 /\ s.records = w.records /\ s.next = w.next
      /\ s.sessions = w.sessions /\ s.bookmarks = w.bookmarks /\ s.names = w.names
      /\ s.order = w.order /\ s.publication = w.publication
  BY <1>2, <1>3 DEF Dbs
<1> HIDE DEF s
<1>6. SessionOf(s, id) = SessionOf(w, id)
  BY <1>5 DEF SessionOf
<1> DEFINE retained == Append(SessionOf(w, id).retained, id.sequence)
           receipts2 == [k \in RequestIds |-> IF k \in Evicted(s, id) THEN None ELSE s.receipts[k]]
           kept2 == IF Evicted(s, id) = {} THEN retained ELSE Tail(retained)
           sessions2 == [w.sessions EXCEPT ![<<id.partition, id.session>>] =
                           [highest |-> id.sequence, retained |-> kept2]]
<1>7. Evicted(s, id) = Evicted(w, id)
  BY <1>6 DEF Evicted
<1>8. kept2 = Kept(w, id)
  BY <1>7 DEF Kept, Evicted
<1>9. AdvanceSession(s, id) = [s EXCEPT !.receipts = receipts2, !.sessions = sessions2]
  BY <1>5, <1>6 DEF AdvanceSession
<1>10. AdvanceSession(s, id) \in Dbs
  BY <1>1, <1>5, AdvanceSessionType
<1>11. receipts2 = [k \in RequestIds |-> IF k \in Evicted(w, id) THEN None
                                         ELSE IF k = id THEN Outcome(r, result)
                                         ELSE w.receipts[k]]
  <2>1. \A k \in RequestIds : s.receipts[k] = IF k = id THEN Outcome(r, result) ELSE w.receipts[k]
    BY <1>4, <1>5
  <2> QED BY <1>7, <2>1
<1> HIDE DEF receipts2, sessions2, kept2
<1>12. /\ AdvanceSession(s, id).receipts = receipts2 /\ AdvanceSession(s, id).sessions = sessions2
       /\ AdvanceSession(s, id).records = w.records /\ AdvanceSession(s, id).next = w.next
       /\ AdvanceSession(s, id).bookmarks = w.bookmarks /\ AdvanceSession(s, id).names = w.names
       /\ AdvanceSession(s, id).order = w.order
       /\ AdvanceSession(s, id).publication = w.publication
  BY <1>5, <1>9 DEF Dbs
<1>13. Decided(w, r, result) = AdvanceSession(s, id)
  BY DEF Decided, s, id
<1>14. sessions2 = [w.sessions EXCEPT ![<<r.partition, r.session>>] =
                      [highest |-> r.sequence, retained |-> Kept(w, id)]]
  BY <1>1, <1>8 DEF sessions2
<1> HIDE DEF Decided
<1>15. SameBookmarks(w, Decided(w, r, result))
  BY <1>12, <1>13 DEF SameBookmarks
<1> QED BY <1>10, <1>11, <1>12, <1>13, <1>14, <1>15 DEF id

-----------------------------------------------------------------------------
(* The receipt window.                                                     *)

Rising(s) == \A i, j \in 1 .. Len(s) : i < j => s[i] < s[j]
Has(s, x) == \E i \in 1 .. Len(s) : s[i] = x

(* The retained sequences of one session, up to `highest`.                 *)
WindowOf(s, highest) ==
    /\ Len(s) <= ReceiptWindow
    /\ Rising(s)
    /\ Len(s) > 0 => s[Len(s)] = highest

WindowIn(d) ==
    \A id \in RequestIds :
        /\ (d.receipts[id] # None) <=> Has(SessionOf(d, id).retained, id.sequence)
        /\ WindowOf(SessionOf(d, id).retained, SessionOf(d, id).highest)

(* One more sequence enters at the end.                                    *)
LEMMA RisingAppend ==
    ASSUME NEW s \in Seq(Sequences_), NEW q \in Sequences_, Rising(s),
           Len(s) > 0 => s[Len(s)] < q
    PROVE  /\ Append(s, q) \in Seq(Sequences_) /\ Len(Append(s, q)) = Len(s) + 1
           /\ Append(s, q)[Len(s) + 1] = q
           /\ Rising(Append(s, q))
           /\ \A x : Has(Append(s, q), x) <=> (Has(s, x) \/ x = q)
<1> DEFINE t == Append(s, q)
           n == Len(s)
<1>1. n \in Nat /\ t \in Seq(Sequences_) /\ Len(t) = n + 1 /\ t[n + 1] = q
      /\ \A i \in 1 .. n : t[i] = s[i]
  OBVIOUS
<1>2. q \in Nat /\ \A i \in 1 .. n : s[i] \in Nat
  <2>1. \A i \in 1 .. n : s[i] \in Sequences_
    OBVIOUS
  <2> QED BY <2>1, ConstantsAssumption
<1> HIDE DEF t
<1>3. Rising(t)
  <2> SUFFICES ASSUME NEW i \in 1 .. n + 1, NEW j \in 1 .. n + 1, i < j PROVE t[i] < t[j]
    BY <1>1 DEF Rising
  <2>1. i \in 1 .. n /\ t[i] = s[i]
    BY <1>1
  <2>2. CASE j \in 1 .. n
    BY <1>1, <2>1, <2>2 DEF Rising
  <2>3. CASE j = n + 1
    <3>1. n > 0 /\ s[n] < q /\ n \in 1 .. n
      BY <1>1, <2>1
    <3>2. s[i] <= s[n]
      <4>1. CASE i = n
        BY <1>2, <3>1, <4>1
      <4>2. CASE i # n
        <5>1. i < n
          BY <1>1, <2>1, <4>2
        <5>2. s[i] < s[n]
          BY <2>1, <3>1, <5>1 DEF Rising
        <5> QED BY <1>2, <2>1, <3>1, <5>2
      <4> QED BY <4>1, <4>2
    <3> QED BY <1>1, <1>2, <2>1, <2>3, <3>1, <3>2
  <2> QED BY <1>1, <2>2, <2>3
<1>4. ASSUME NEW x PROVE Has(t, x) <=> (Has(s, x) \/ x = q)
  <2>1. ASSUME Has(t, x) PROVE Has(s, x) \/ x = q
    <3>1. PICK i \in 1 .. n + 1 : t[i] = x
      BY <1>1, <2>1 DEF Has
    <3>2. i \in 1 .. n \/ i = n + 1
      BY <1>1
    <3> QED BY <1>1, <3>1, <3>2 DEF Has
  <2>2. ASSUME Has(s, x) PROVE Has(t, x)
    <3>1. PICK i \in 1 .. n : s[i] = x
      BY <2>2 DEF Has
    <3>2. i \in 1 .. n + 1 /\ t[i] = x
      BY <1>1, <3>1
    <3> QED BY <1>1, <3>2 DEF Has
  <2>3. ASSUME x = q PROVE Has(t, x)
    <3>1. n + 1 \in 1 .. Len(t)
      BY <1>1
    <3> QED BY <1>1, <2>3, <3>1 DEF Has
  <2> QED BY <2>1, <2>2, <2>3
<1> QED BY <1>1, <1>3, <1>4 DEF t

(* The oldest sequence leaves.                                             *)
LEMMA RisingTail ==
    ASSUME NEW s \in Seq(Sequences_), Rising(s), Len(s) > 1
    PROVE  /\ Tail(s) \in Seq(Sequences_) /\ Len(Tail(s)) = Len(s) - 1
           /\ Tail(s)[Len(s) - 1] = s[Len(s)] /\ Head(s) = s[1]
           /\ Rising(Tail(s))
           /\ \A x : Has(Tail(s), x) <=> (Has(s, x) /\ x # Head(s))
<1> DEFINE t == Tail(s)
           n == Len(s)
<1>1. n \in Nat /\ t \in Seq(Sequences_) /\ Len(t) = n - 1 /\ Head(s) = s[1]
      /\ (\A i \in 1 .. n - 1 : t[i] = s[i + 1])
  OBVIOUS
<1>2. \A i \in 1 .. n : s[i] \in Nat
  <2>1. \A i \in 1 .. n : s[i] \in Sequences_
    OBVIOUS
  <2> QED BY <2>1, ConstantsAssumption
<1> HIDE DEF t
<1>3. Rising(t)
  <2> SUFFICES ASSUME NEW i \in 1 .. n - 1, NEW j \in 1 .. n - 1, i < j PROVE t[i] < t[j]
    BY <1>1 DEF Rising
  <2>1. i + 1 \in 1 .. n /\ j + 1 \in 1 .. n /\ i + 1 < j + 1
    BY <1>1
  <2>2. s[i + 1] < s[j + 1]
    BY <2>1 DEF Rising
  <2> QED BY <1>1, <2>2
<1>4. ASSUME NEW x PROVE Has(t, x) <=> (Has(s, x) /\ x # Head(s))
  <2>1. ASSUME Has(t, x) PROVE Has(s, x) /\ x # Head(s)
    <3>1. PICK i \in 1 .. n - 1 : t[i] = x
      BY <1>1, <2>1 DEF Has
    <3>2. i + 1 \in 1 .. n /\ s[i + 1] = x /\ 1 < i + 1 /\ 1 \in 1 .. n
      BY <1>1, <3>1
    <3>3. s[1] < s[i + 1]
      BY <3>2 DEF Rising
    <3>4. x # s[1]
      BY <1>2, <3>2, <3>3
    <3> QED BY <1>1, <3>2, <3>4 DEF Has
  <2>2. ASSUME Has(s, x), x # Head(s) PROVE Has(t, x)
    <3>1. PICK i \in 1 .. n : s[i] = x
      BY <2>2 DEF Has
    <3>2. i # 1
      BY <1>1, <2>2, <3>1
    <3>3. i - 1 \in 1 .. n - 1 /\ (i - 1) + 1 = i
      BY <1>1, <3>2
    <3>4. t[i - 1] = x
      BY <1>1, <3>1, <3>3
    <3> QED BY <1>1, <3>3, <3>4 DEF Has
  <2> QED BY <2>1, <2>2
<1>5. t[n - 1] = s[n]
  <2>1. n - 1 \in 1 .. n - 1 /\ (n - 1) + 1 = n
    BY <1>1
  <2> QED BY <1>1, <2>1
<1> QED BY <1>1, <1>3, <1>4, <1>5 DEF t

(* advance_session keeps receipts and sessions together.                   *)
LEMMA DecidedKeepsWindow ==
    ASSUME NEW w \in Dbs, NEW r \in Requests, NEW result \in Results, WindowIn(w),
           r.sequence > SessionOf(w, IdOf(r)).highest
    PROVE  WindowIn(Decided(w, r, result))
<1> DEFINE id == IdOf(r)
           ps == <<r.partition, r.session>>
           new == Decided(w, r, result)
           old == SessionOf(w, id).retained
           full == Append(old, id.sequence)
           kept == Kept(w, id)
<1>1. /\ id \in RequestIds /\ id.partition = r.partition /\ id.session = r.session
      /\ id.sequence = r.sequence /\ r.sequence \in Sequences_ /\ ps \in Partitions \X Sessions
      /\ r.partition \in Partitions /\ r.session \in Sessions
  BY IdOfType
<1>2. /\ new \in Dbs
      /\ new.sessions = [w.sessions EXCEPT ![ps] = [highest |-> r.sequence, retained |-> kept]]
      /\ new.receipts =
            [k \in RequestIds |-> IF k \in Evicted(w, id) THEN None
                                  ELSE IF k = id THEN Outcome(r, result)
                                  ELSE w.receipts[k]]
  BY DecidedFacts
<1>3. Outcome(r, result) # None
  <2>1. Outcome(r, result) \in Outcomes
    BY DEF Outcome, Outcomes
  <2> QED BY <2>1, NoneAssumption
<1>4. w.sessions \in [Partitions \X Sessions ->
                        [highest : Sequences_ \cup {-1}, retained : Seq(Sequences_)]]
  BY DEF Dbs
<1>5. old \in Seq(Sequences_)
  BY <1>1, <1>4 DEF SessionOf
<1>6. WindowOf(old, SessionOf(w, id).highest)
  BY <1>1 DEF WindowIn
<1>7. Len(old) > 0 => old[Len(old)] < id.sequence
  BY <1>1, <1>6 DEF WindowOf
<1>8. /\ full \in Seq(Sequences_) /\ Len(full) = Len(old) + 1 /\ full[Len(old) + 1] = id.sequence
      /\ Rising(full) /\ \A x : Has(full, x) <=> (Has(old, x) \/ x = id.sequence)
  BY <1>1, <1>5, <1>6, <1>7, RisingAppend DEF WindowOf
<1>9. Len(old) \in Nat /\ Len(old) <= ReceiptWindow /\ ReceiptWindow \in Nat /\ ReceiptWindow > 0
  BY <1>5, <1>6, ConstantsAssumption DEF WindowOf
<1> HIDE DEF old, full
<1>10. /\ WindowOf(kept, id.sequence)
       /\ \A k \in RequestIds : (k.partition = id.partition /\ k.session = id.session) =>
             (Has(kept, k.sequence) <=>
                (k \notin Evicted(w, id) /\ (k.sequence = id.sequence \/ Has(old, k.sequence))))
  <2>1. CASE Len(full) > ReceiptWindow
    <3>1. kept = Tail(full) /\ Evicted(w, id) = {[id EXCEPT !.sequence = Head(full)]}
      BY <2>1 DEF Kept, Evicted, full, old
    <3>2. Len(full) > 1
      BY <2>1, <1>8, <1>9
    <3>3. /\ Len(kept) = Len(full) - 1 /\ kept[Len(full) - 1] = full[Len(full)]
          /\ Rising(kept) /\ \A x : Has(kept, x) <=> (Has(full, x) /\ x # Head(full))
      BY <1>8, <3>1, <3>2, RisingTail
    <3>4. Len(kept) = Len(old) /\ Len(full) - 1 = Len(old)
      BY <1>8, <1>9, <3>3
    <3>5. WindowOf(kept, id.sequence)
      BY <1>8, <1>9, <3>3, <3>4 DEF WindowOf
    <3>6. ASSUME NEW k \in RequestIds, k.partition = id.partition, k.session = id.session
          PROVE  k \in Evicted(w, id) <=> k.sequence = Head(full)
      BY <1>1, <3>1, <3>6 DEF RequestIds
    <3> QED BY <1>8, <3>3, <3>5, <3>6
  <2>2. CASE ~(Len(full) > ReceiptWindow)
    <3>1. kept = full /\ Evicted(w, id) = {}
      BY <2>2 DEF Kept, Evicted, full, old
    <3>2. WindowOf(kept, id.sequence)
      BY <1>8, <1>9, <2>2, <3>1 DEF WindowOf
    <3> QED BY <1>8, <3>1, <3>2
  <2> QED BY <2>1, <2>2
<1>11. ASSUME NEW k \in RequestIds
       PROVE  /\ (new.receipts[k] # None) <=> Has(SessionOf(new, k).retained, k.sequence)
              /\ WindowOf(SessionOf(new, k).retained, SessionOf(new, k).highest)
  <2> HIDE DEF new, kept, id
  <2>1. <<k.partition, k.session>> \in Partitions \X Sessions
    BY DEF RequestIds
  <2>2. CASE k.partition = id.partition /\ k.session = id.session
    <3>1. SessionOf(new, k) = [highest |-> r.sequence, retained |-> kept]
      BY <1>1, <1>2, <1>4, <2>2 DEF SessionOf
    <3>2. k = id <=> k.sequence = id.sequence
      BY <1>1, <2>2 DEF RequestIds
    <3>3. w.receipts[k] # None <=> Has(old, k.sequence)
      BY <2>2 DEF WindowIn, SessionOf, old
    <3>4. new.receipts[k] # None <=>
             (k \notin Evicted(w, id) /\ (k = id \/ w.receipts[k] # None))
      BY <1>2, <1>3
    <3> QED BY <1>1, <1>10, <2>2, <3>1, <3>2, <3>3, <3>4
  <2>3. CASE ~(k.partition = id.partition /\ k.session = id.session)
    <3>1. SessionOf(new, k) = SessionOf(w, k)
      <4>1. <<k.partition, k.session>> # ps
        BY <1>1, <2>3
      <4> QED BY <1>2, <1>4, <2>1, <4>1 DEF SessionOf
    <3>2. k # id /\ k \notin Evicted(w, id)
      BY <1>1, <2>3 DEF Evicted, RequestIds
    <3>3. new.receipts[k] = w.receipts[k]
      BY <1>2, <3>2
    <3> QED BY <3>1, <3>3 DEF WindowIn
  <2> QED BY <2>2, <2>3
<1> QED BY <1>11 DEF WindowIn

-----------------------------------------------------------------------------
(* The bookmark indexes, entry by entry.                                   *)

Live(d, id) == d.bookmarks[id] # None /\ ~d.bookmarks[id].deleted

(* A bookmark is stored under its own id and was numbered by its           *)
(* partition's counter.                                                    *)
Numbered(d) ==
    \A id \in AllBookmarkIds : d.bookmarks[id] # None =>
        /\ d.bookmarks[id].id = id
        /\ d.bookmarks[id].publication <= d.publication[d.bookmarks[id].partition]

Named(d) ==
    \A p \in Partitions : \A n \in Names : \A id \in AllBookmarkIds :
        (d.names[<<p, n>>] = id) <=>
            (Live(d, id) /\ d.bookmarks[id].partition = p /\ d.bookmarks[id].name = n)

Ordered(d) ==
    \A p \in Partitions : \A q \in Nat : \A id \in AllBookmarkIds :
        (<<q, id>> \in d.order[p]) <=>
            (Live(d, id) /\ d.bookmarks[id].partition = p /\ d.bookmarks[id].publication = q)

Distinct(d) ==
    \A i, j \in AllBookmarkIds :
        ( /\ i # j
          /\ d.bookmarks[i] # None
          /\ d.bookmarks[j] # None
          /\ d.bookmarks[i].partition = d.bookmarks[j].partition )
            => d.bookmarks[i].publication # d.bookmarks[j].publication

BookmarksIn(d) == Numbered(d) /\ Named(d) /\ Ordered(d) /\ Distinct(d)

LEMMA SameBookmarksIn ==
    ASSUME NEW d, NEW e, BookmarksIn(d), SameBookmarks(d, e)
    PROVE  BookmarksIn(e)
BY DEF SameBookmarks, BookmarksIn, Numbered, Named, Ordered, Distinct, Live

(* The fields of a stored bookmark.                                        *)
LEMMA BookmarkFields ==
    ASSUME NEW d \in Dbs, NEW id \in AllBookmarkIds, d.bookmarks[id] # None
    PROVE  /\ d.bookmarks[id] \in BookmarkRecords
           /\ d.bookmarks[id].partition \in Partitions /\ d.bookmarks[id].name \in Names
           /\ d.bookmarks[id].publication \in Nat /\ d.bookmarks[id].deleted \in BOOLEAN
           /\ d.publication[d.bookmarks[id].partition] \in Nat
<1>1. d.bookmarks[id] \in BookmarkRecords
  BY DEF Dbs
<1>2. d.bookmarks[id].partition \in Partitions
  BY <1>1 DEF BookmarkRecords
<1>3. d.publication[d.bookmarks[id].partition] \in Nat
  BY <1>2 DEF Dbs
<1> QED BY <1>1, <1>3 DEF BookmarkRecords

(* create_publish_bookmark and create_bookmark_record write all indexes.   *)
LEMMA PutBookmarkKeepsIndexes ==
    ASSUME NEW w \in Dbs, NEW b \in BookmarkRecords, BookmarksIn(w), ~b.deleted,
           w.bookmarks[b.id] = None, w.names[<<b.partition, b.name>>] = None,
           b.publication = w.publication[b.partition] + 1
    PROVE  BookmarksIn(PutBookmark(w, b))
<1> DEFINE new == PutBookmark(w, b)
           bookmarks == [w.bookmarks EXCEPT ![b.id] = b]
           names == [w.names EXCEPT ![<<b.partition, b.name>>] = b.id]
           order == [w.order EXCEPT ![b.partition] = @ \cup {<<b.publication, b.id>>}]
           publication == [w.publication EXCEPT ![b.partition] = b.publication]
<1>1. /\ b.id \in AllBookmarkIds /\ b.partition \in Partitions /\ b.name \in Names
      /\ b.publication \in Nat
  BY DEF BookmarkRecords
<1>2. /\ w.bookmarks \in [AllBookmarkIds -> BookmarkRecords \cup {None}]
      /\ w.names \in [Partitions \X Names -> AllBookmarkIds \cup {None}]
      /\ w.order \in [Partitions -> SUBSET (Nat \X AllBookmarkIds)]
      /\ w.publication \in [Partitions -> Nat]
  BY DEF Dbs
<1>3. new = [w EXCEPT !.bookmarks = bookmarks, !.names = names, !.order = order,
                      !.publication = publication]
  BY DEF PutBookmark
<1>4. /\ bookmarks[b.id] = b
      /\ \A i \in AllBookmarkIds : i # b.id => bookmarks[i] = w.bookmarks[i]
  BY <1>1, <1>2
<1>5. \A p \in Partitions, n \in Names :
         names[<<p, n>>] = IF p = b.partition /\ n = b.name THEN b.id ELSE w.names[<<p, n>>]
  BY <1>1, <1>2
<1>6. \A p \in Partitions, q \in Nat, i \in AllBookmarkIds :
         (<<q, i>> \in order[p]) <=> ( (<<q, i>> \in w.order[p])
                                \/ (p = b.partition /\ q = b.publication /\ i = b.id) )
  BY <1>1, <1>2
<1>7. \A p \in Partitions :
         /\ publication[p] = (IF p = b.partition THEN b.publication ELSE w.publication[p])
         /\ w.publication[p] <= publication[p] /\ publication[p] \in Nat
  BY <1>1, <1>2
<1> HIDE DEF bookmarks, names, order, publication
<1>8. /\ new.bookmarks = bookmarks /\ new.names = names /\ new.order = order
      /\ new.publication = publication
  BY <1>3 DEF Dbs
<1> HIDE DEF new
<1>9. b # None
  BY NoneAssumption
<1>10. /\ Live(new, b.id) /\ new.bookmarks[b.id] = b /\ ~Live(w, b.id)
       /\ \A i \in AllBookmarkIds : i # b.id =>
             new.bookmarks[i] = w.bookmarks[i] /\ (Live(new, i) <=> Live(w, i))
  BY <1>4, <1>8, <1>9 DEF Live
<1>11. Numbered(new)
  <2> SUFFICES ASSUME NEW i \in AllBookmarkIds, new.bookmarks[i] # None
               PROVE  /\ new.bookmarks[i].id = i
                      /\ new.bookmarks[i].publication <= publication[new.bookmarks[i].partition]
    BY <1>8 DEF Numbered
  <2>1. CASE i = b.id
    BY <1>1, <1>7, <1>10, <2>1
  <2>2. CASE i # b.id
    <3>1. new.bookmarks[i] = w.bookmarks[i] /\ w.bookmarks[i] # None
      BY <1>10, <2>2
    <3>2. /\ w.bookmarks[i].id = i
          /\ w.bookmarks[i].publication <= w.publication[w.bookmarks[i].partition]
      BY <3>1 DEF BookmarksIn, Numbered
    <3>3. /\ w.bookmarks[i].partition \in Partitions /\ w.bookmarks[i].publication \in Nat
          /\ w.publication[w.bookmarks[i].partition] \in Nat
      BY <3>1, BookmarkFields
    <3> QED BY <1>7, <3>1, <3>2, <3>3
  <2> QED BY <2>1, <2>2
<1>12. Named(new)
  <2> SUFFICES ASSUME NEW p \in Partitions, NEW n \in Names, NEW i \in AllBookmarkIds
               PROVE  (new.names[<<p, n>>] = i) <=>
                        (Live(new, i) /\ new.bookmarks[i].partition = p /\ new.bookmarks[i].name = n)
    BY Zenon DEF Named
  <2>1. /\ (w.names[<<p, n>>] = i) <=>
             (Live(w, i) /\ w.bookmarks[i].partition = p /\ w.bookmarks[i].name = n)
        /\ i # None
    BY NoneAssumption DEF BookmarksIn, Named
  <2>2. CASE i = b.id
    BY <1>5, <1>8, <1>10, <2>1, <2>2
  <2>3. CASE i # b.id
    BY <1>5, <1>8, <1>10, <2>1, <2>3
  <2> QED BY <2>2, <2>3
<1>13. Ordered(new)
  <2> SUFFICES ASSUME NEW p \in Partitions, NEW q \in Nat, NEW i \in AllBookmarkIds
               PROVE  (<<q, i>> \in new.order[p]) <=>
                        (Live(new, i) /\ new.bookmarks[i].partition = p
                          /\ new.bookmarks[i].publication = q)
    BY Zenon DEF Ordered
  <2>1. (<<q, i>> \in w.order[p]) <=>
             (Live(w, i) /\ w.bookmarks[i].partition = p /\ w.bookmarks[i].publication = q)
    BY DEF BookmarksIn, Ordered
  <2>2. CASE i = b.id
    BY <1>6, <1>8, <1>10, <2>1, <2>2
  <2>3. CASE i # b.id
    BY <1>6, <1>8, <1>10, <2>1, <2>3
  <2> QED BY <2>2, <2>3
<1>14. Distinct(new)
  <2>1. ASSUME NEW i \in AllBookmarkIds, i # b.id, new.bookmarks[i] # None,
               new.bookmarks[i].partition = b.partition
        PROVE  new.bookmarks[i].publication # b.publication
    <3>1. new.bookmarks[i] = w.bookmarks[i] /\ w.bookmarks[i] # None
      BY <1>10, <2>1
    <3>2. w.bookmarks[i].publication <= w.publication[b.partition]
      BY <2>1, <3>1 DEF BookmarksIn, Numbered
    <3>3. w.bookmarks[i].publication \in Nat /\ w.publication[b.partition] \in Nat
      BY <1>1, <1>2, <3>1, BookmarkFields
    <3> QED BY <3>1, <3>2, <3>3
  <2> SUFFICES ASSUME NEW i \in AllBookmarkIds, NEW j \in AllBookmarkIds, i # j,
                      new.bookmarks[i] # None, new.bookmarks[j] # None,
                      new.bookmarks[i].partition = new.bookmarks[j].partition
               PROVE  new.bookmarks[i].publication # new.bookmarks[j].publication
    BY DEF Distinct
  <2>2. CASE i = b.id
    BY <1>10, <2>1, <2>2
  <2>3. CASE j = b.id
    BY <1>10, <2>1, <2>3
  <2>4. CASE i # b.id /\ j # b.id
    BY <1>10, <2>4 DEF BookmarksIn, Distinct
  <2> QED BY <2>2, <2>3, <2>4
<1> QED BY <1>11, <1>12, <1>13, <1>14 DEF BookmarksIn, new

(* apply_delete_bookmark frees the name and the place in the order.        *)
LEMMA RemoveBookmarkKeepsIndexes ==
    ASSUME NEW w \in Dbs, NEW id \in AllBookmarkIds, BookmarksIn(w), Live(w, id)
    PROVE  BookmarksIn(RemoveBookmark(w, w.bookmarks[id]))
<1> DEFINE b == w.bookmarks[id]
           new == RemoveBookmark(w, b)
           gone == [b EXCEPT !.deleted = TRUE]
           bookmarks == [w.bookmarks EXCEPT ![b.id] = gone]
           names == [w.names EXCEPT ![<<b.partition, b.name>>] = None]
           order == [w.order EXCEPT ![b.partition] = @ \ {<<b.publication, b.id>>}]
<1>1. b # None /\ b \in BookmarkRecords /\ b.id = id
  BY BookmarkFields DEF Live, BookmarksIn, Numbered
<1> HIDE DEF b
<1>2. /\ b.partition \in Partitions /\ b.name \in Names /\ b.publication \in Nat
      /\ gone \in BookmarkRecords /\ gone.deleted = TRUE /\ gone.id = id
      /\ gone.partition = b.partition /\ gone.publication = b.publication
  BY <1>1 DEF BookmarkRecords
<1>3. /\ w.bookmarks \in [AllBookmarkIds -> BookmarkRecords \cup {None}]
      /\ w.names \in [Partitions \X Names -> AllBookmarkIds \cup {None}]
      /\ w.order \in [Partitions -> SUBSET (Nat \X AllBookmarkIds)]
  BY DEF Dbs
<1>4. new = [w EXCEPT !.bookmarks = bookmarks, !.names = names, !.order = order]
  BY DEF RemoveBookmark
<1> HIDE DEF gone
<1>5. /\ bookmarks[id] = gone
      /\ \A i \in AllBookmarkIds : i # id => bookmarks[i] = w.bookmarks[i]
  BY <1>1, <1>3
<1>6. \A p \in Partitions, n \in Names :
         names[<<p, n>>] = IF p = b.partition /\ n = b.name THEN None ELSE w.names[<<p, n>>]
  BY <1>2, <1>3
<1>7. \A p \in Partitions, q \in Nat, i \in AllBookmarkIds :
         (<<q, i>> \in order[p]) <=> ( (<<q, i>> \in w.order[p])
                                /\ ~(p = b.partition /\ q = b.publication /\ i = id) )
  BY <1>1, <1>2, <1>3
<1> HIDE DEF bookmarks, names, order
<1>8. /\ new.bookmarks = bookmarks /\ new.names = names /\ new.order = order
      /\ new.publication = w.publication
  BY <1>4 DEF Dbs
<1> HIDE DEF new
<1>9. gone # None
  BY <1>2, NoneAssumption
<1>10. /\ ~Live(new, id) /\ new.bookmarks[id] = gone /\ w.bookmarks[id] = b /\ Live(w, id)
       /\ \A i \in AllBookmarkIds : i # id =>
             new.bookmarks[i] = w.bookmarks[i] /\ (Live(new, i) <=> Live(w, i))
  BY <1>2, <1>5, <1>8, <1>9 DEF Live, b
<1>11. Numbered(new)
  BY <1>1, <1>2, <1>8, <1>9, <1>10 DEF BookmarksIn, Numbered
<1>12. Named(new)
  <2> SUFFICES ASSUME NEW p \in Partitions, NEW n \in Names, NEW i \in AllBookmarkIds
               PROVE  (new.names[<<p, n>>] = i) <=>
                        (Live(new, i) /\ new.bookmarks[i].partition = p /\ new.bookmarks[i].name = n)
    BY Zenon DEF Named
  <2>1. /\ (w.names[<<p, n>>] = i) <=>
             (Live(w, i) /\ w.bookmarks[i].partition = p /\ w.bookmarks[i].name = n)
        /\ i # None
    BY NoneAssumption DEF BookmarksIn, Named
  <2>2. w.names[<<b.partition, b.name>>] = id
    BY <1>2, <1>10 DEF BookmarksIn, Named
  <2>3. CASE i = id
    BY <1>6, <1>8, <1>10, <2>1, <2>3
  <2>4. CASE i # id
    BY <1>6, <1>8, <1>10, <2>1, <2>2, <2>4
  <2> QED BY <2>3, <2>4
<1>13. Ordered(new)
  <2> SUFFICES ASSUME NEW p \in Partitions, NEW q \in Nat, NEW i \in AllBookmarkIds
               PROVE  (<<q, i>> \in new.order[p]) <=>
                        (Live(new, i) /\ new.bookmarks[i].partition = p
                          /\ new.bookmarks[i].publication = q)
    BY Zenon DEF Ordered
  <2>1. (<<q, i>> \in w.order[p]) <=>
             (Live(w, i) /\ w.bookmarks[i].partition = p /\ w.bookmarks[i].publication = q)
    BY DEF BookmarksIn, Ordered
  <2>2. CASE i = id
    BY <1>7, <1>8, <1>10, <2>1, <2>2
  <2>3. CASE i # id
    BY <1>7, <1>8, <1>10, <2>1, <2>3
  <2> QED BY <2>2, <2>3
<1>14. Distinct(new)
  <2> SUFFICES ASSUME NEW i \in AllBookmarkIds, NEW j \in AllBookmarkIds, i # j,
                      new.bookmarks[i] # None, new.bookmarks[j] # None,
                      new.bookmarks[i].partition = new.bookmarks[j].partition
               PROVE  new.bookmarks[i].publication # new.bookmarks[j].publication
    BY DEF Distinct
  <2>1. ASSUME NEW k \in AllBookmarkIds, new.bookmarks[k] # None
        PROVE  /\ w.bookmarks[k] # None
               /\ w.bookmarks[k].partition = new.bookmarks[k].partition
               /\ w.bookmarks[k].publication = new.bookmarks[k].publication
    BY <1>1, <1>2, <1>10, <2>1
  <2>2. /\ w.bookmarks[i] # None /\ w.bookmarks[j] # None
        /\ w.bookmarks[i].partition = w.bookmarks[j].partition
    BY <2>1
  <2>3. w.bookmarks[i].publication # w.bookmarks[j].publication
    BY <2>2 DEF BookmarksIn, Distinct
  <2> QED BY <2>1, <2>3
<1> QED BY <1>11, <1>12, <1>13, <1>14 DEF BookmarksIn, new, b

-----------------------------------------------------------------------------
(* What the stored records say of a request.                               *)

Offsets == 0 .. MaxOffset - 1
Payload(lg, rec) == PayloadsOf(lg[rec.entry].requests)[rec.slot + 1]
Closed(d, id) == id.sequence <= SessionOf(d, id).highest

Mine(d, r, o) ==
    /\ RecordAt(d, r.partition, o) # None
    /\ RecordAt(d, r.partition, o).request = IdOf(r)

(* Request r lies whole at `first`, with its own payloads, and nowhere     *)
(* else in its partition.                                                  *)
Lies(lg, d, r, first) ==
    /\ first \in Nat /\ first + Len(r.records) <= d.next[r.partition]
    /\ \A o \in Offsets : Mine(d, r, o) <=> o \in first .. first + Len(r.records) - 1
    /\ \A i \in 1 .. Len(r.records) :
          Payload(lg, RecordAt(d, r.partition, first + i - 1)) = r.records[i]

Absent(d, r) == \A o \in Offsets : ~Mine(d, r, o)

(* The state bears out result `res` of request r.                          *)
Holds(lg, d, r, res) ==
    /\ Closed(d, IdOf(r))
    /\ res.ok => /\ res.count = Len(r.records)
                 /\ Lies(lg, d, r, res.first)
                 /\ r.bookmark # None => res.bookmark.offset = res.first + res.count
    /\ ~res.ok => Absent(d, r)

(* From d to e sessions only close, tails only advance, and a new record   *)
(* belongs to a request that d had not closed.                             *)
Grows(d, e) ==
    /\ \A k \in RequestIds : SessionOf(d, k).highest <= SessionOf(e, k).highest
    /\ \A p \in Partitions : d.next[p] <= e.next[p]
    /\ \A p \in Partitions : \A o \in Offsets :
          RecordAt(e, p, o) # RecordAt(d, p, o) =>
             /\ RecordAt(d, p, o) = None
             /\ ~Closed(d, RecordAt(e, p, o).request)

(* Records fill a partition up to its tail, come from the first n entries, *)
(* and each lies with its whole request.                                   *)
Dense(d) ==
    \A p \in Partitions : \A o \in Offsets : RecordAt(d, p, o) # None <=> o < d.next[p]
EntriesIn(d, n) ==
    \A p \in Partitions : \A o \in Offsets :
        RecordAt(d, p, o) # None => RecordAt(d, p, o).entry <= n
Carried(lg, d) ==
    \A p \in Partitions : \A o \in Offsets : RecordAt(d, p, o) # None =>
        \E r \in Requests : /\ IdOf(r) = RecordAt(d, p, o).request
                            /\ \E first \in Nat : Lies(lg, d, r, first)
Stored(lg, n, d) == Dense(d) /\ EntriesIn(d, n) /\ Carried(lg, d)

(* Two logs that agree on the first n entries.                             *)
SameUpTo(lg, lh, n) == \A i \in 1 .. n : lh[i] = lg[i]

LEMMA RecordFields ==
    ASSUME NEW d \in Dbs, NEW p \in Partitions, NEW o \in Offsets, RecordAt(d, p, o) # None
    PROVE  /\ RecordAt(d, p, o).entry \in 1 .. MaxLog
           /\ RecordAt(d, p, o).slot \in Nat
           /\ RecordAt(d, p, o).request \in RequestIds
<1> DEFINE Rec == [entry : 1 .. MaxLog, slot : Nat, request : RequestIds]
<1>1. d.records \in [Partitions -> [0 .. MaxOffset - 1 -> Rec \cup {None}]]
  BY DEF Dbs
<1>2. RecordAt(d, p, o) \in Rec \cup {None}
  <2> HIDE DEF Rec
  <2> QED BY <1>1 DEF RecordAt, Offsets
<1>3. RecordAt(d, p, o) \in Rec
  BY <1>2
<1> QED BY <1>3

LEMMA IdSequence ==
    ASSUME NEW k \in RequestIds
    PROVE  k.sequence \in Sequences_ /\ k.sequence \in Int
<1>1. k.sequence \in Sequences_
  BY DEF RequestIds
<1> QED BY <1>1, SequencesAreInts

LEMMA GrowsRefl ==
    ASSUME NEW d \in Dbs
    PROVE  Grows(d, d)
<1>1. \A k \in RequestIds : SessionOf(d, k).highest \in Int
  BY StoredTypes
<1>2. \A p \in Partitions : d.next[p] \in Nat
  BY ConstantsAssumption DEF Dbs
<1> QED BY <1>1, <1>2 DEF Grows

LEMMA GrowsTrans ==
    ASSUME NEW d \in Dbs, NEW e \in Dbs, NEW f \in Dbs, Grows(d, e), Grows(e, f)
    PROVE  Grows(d, f)
<1>1. \A k \in RequestIds :
         /\ SessionOf(d, k).highest \in Int /\ SessionOf(e, k).highest \in Int
         /\ SessionOf(f, k).highest \in Int /\ k.sequence \in Int
         /\ SessionOf(d, k).highest <= SessionOf(e, k).highest
         /\ SessionOf(e, k).highest <= SessionOf(f, k).highest
  <2> SUFFICES ASSUME NEW k \in RequestIds
               PROVE  /\ SessionOf(d, k).highest \in Int /\ SessionOf(e, k).highest \in Int
                      /\ SessionOf(f, k).highest \in Int /\ k.sequence \in Int
                      /\ SessionOf(d, k).highest <= SessionOf(e, k).highest
                      /\ SessionOf(e, k).highest <= SessionOf(f, k).highest
    OBVIOUS
  <2>1. /\ SessionOf(d, k).highest <= SessionOf(e, k).highest
        /\ SessionOf(e, k).highest <= SessionOf(f, k).highest
    BY DEF Grows
  <2> QED BY <2>1, StoredTypes, IdSequence
<1>2. \A p \in Partitions :
         /\ d.next[p] \in Nat /\ e.next[p] \in Nat /\ f.next[p] \in Nat
         /\ d.next[p] <= e.next[p] /\ e.next[p] <= f.next[p]
  BY ConstantsAssumption DEF Dbs, Grows
<1>3. ASSUME NEW p \in Partitions, NEW o \in Offsets, RecordAt(f, p, o) # RecordAt(d, p, o)
      PROVE  RecordAt(d, p, o) = None /\ ~Closed(d, RecordAt(f, p, o).request)
  <2>1. CASE RecordAt(f, p, o) = RecordAt(e, p, o)
    BY <1>3, <2>1 DEF Grows
  <2>2. CASE RecordAt(f, p, o) # RecordAt(e, p, o)
    <3>1. RecordAt(e, p, o) = None /\ ~Closed(e, RecordAt(f, p, o).request)
      BY <2>2 DEF Grows
    <3>2. RecordAt(d, p, o) = None
      BY <3>1 DEF Grows
    <3>3. RecordAt(f, p, o).request \in RequestIds
      BY <2>2, <3>1, RecordFields
    <3>4. ~Closed(d, RecordAt(f, p, o).request)
      BY <1>1, <3>1, <3>3 DEF Closed
    <3> QED BY <3>2, <3>4
  <2> QED BY <2>1, <2>2
<1>4. \A k \in RequestIds : SessionOf(d, k).highest <= SessionOf(f, k).highest
  BY <1>1
<1>5. \A p \in Partitions : d.next[p] <= f.next[p]
  BY <1>2
<1> QED BY <1>3, <1>4, <1>5 DEF Grows

(* The offsets of a request that lies in a partition.                      *)
LEMMA LiesOffsets ==
    ASSUME NEW d \in Dbs, NEW lg, NEW r \in Requests, NEW first, Lies(lg, d, r, first),
           NEW i \in 1 .. Len(r.records)
    PROVE  /\ first + i - 1 \in Offsets
           /\ first + i - 1 \in first .. first + Len(r.records) - 1
           /\ Mine(d, r, first + i - 1)
<1>1. /\ r.partition \in Partitions /\ Len(r.records) \in Nat
      /\ d.next[r.partition] \in 0 .. MaxOffset /\ MaxOffset \in Nat
  BY IdOfType, RequestsAssumption, ConstantsAssumption DEF Dbs
<1>2. first \in Nat /\ first + Len(r.records) <= d.next[r.partition]
  BY DEF Lies
<1>3. first + i - 1 \in Offsets /\ first + i - 1 \in first .. first + Len(r.records) - 1
  BY <1>1, <1>2 DEF Offsets
<1> QED BY <1>3 DEF Lies

(* A request of a closed sequence gains and loses no record.               *)
LEMMA MineGrows ==
    ASSUME NEW d \in Dbs, NEW e \in Dbs, NEW r \in Requests, Grows(d, e),
           Closed(d, IdOf(r)), NEW o \in Offsets
    PROVE  /\ Mine(e, r, o) <=> Mine(d, r, o)
           /\ Mine(d, r, o) => RecordAt(e, r.partition, o) = RecordAt(d, r.partition, o)
<1>1. r.partition \in Partitions
  BY IdOfType
<1> QED BY <1>1 DEF Mine, Grows

LEMMA LiesGrows ==
    ASSUME NEW d \in Dbs, NEW e \in Dbs, NEW lg, NEW r \in Requests, NEW first,
           Grows(d, e), Closed(d, IdOf(r)), Lies(lg, d, r, first)
    PROVE  Lies(lg, e, r, first)
<1>1. /\ r.partition \in Partitions /\ Len(r.records) \in Nat
      /\ d.next[r.partition] \in Nat /\ e.next[r.partition] \in Nat
  BY IdOfType, RequestsAssumption, ConstantsAssumption DEF Dbs
<1>2. first \in Nat /\ first + Len(r.records) <= e.next[r.partition]
  <2>1. d.next[r.partition] <= e.next[r.partition]
    BY <1>1 DEF Grows
  <2>2. first \in Nat /\ first + Len(r.records) <= d.next[r.partition]
    BY DEF Lies
  <2> QED BY <1>1, <2>1, <2>2
<1>3. \A o \in Offsets : Mine(e, r, o) <=> o \in first .. first + Len(r.records) - 1
  BY MineGrows DEF Lies
<1>4. ASSUME NEW i \in 1 .. Len(r.records)
      PROVE  Payload(lg, RecordAt(e, r.partition, first + i - 1)) = r.records[i]
  <2>1. RecordAt(e, r.partition, first + i - 1) = RecordAt(d, r.partition, first + i - 1)
    BY LiesOffsets, MineGrows
  <2>2. Payload(lg, RecordAt(d, r.partition, first + i - 1)) = r.records[i]
    BY DEF Lies
  <2> QED BY <2>1, <2>2
<1> QED BY <1>2, <1>3, <1>4 DEF Lies

LEMMA HoldsGrows ==
    ASSUME NEW d \in Dbs, NEW e \in Dbs, NEW lg, NEW r \in Requests, NEW res \in Results,
           Grows(d, e), Holds(lg, d, r, res)
    PROVE  Holds(lg, e, r, res)
<1>1. Closed(d, IdOf(r)) /\ IdOf(r) \in RequestIds
  BY IdOfType DEF Holds
<1>2. Closed(e, IdOf(r))
  <2>1. /\ SessionOf(d, IdOf(r)).highest \in Int /\ SessionOf(e, IdOf(r)).highest \in Int
        /\ IdOf(r).sequence \in Int
        /\ SessionOf(d, IdOf(r)).highest <= SessionOf(e, IdOf(r)).highest
    <3>1. SessionOf(d, IdOf(r)).highest <= SessionOf(e, IdOf(r)).highest
      BY <1>1 DEF Grows
    <3> QED BY <1>1, <3>1, StoredTypes, IdSequence
  <2> QED BY <1>1, <2>1 DEF Closed
<1>3. Lies(lg, d, r, res.first) => Lies(lg, e, r, res.first)
  BY <1>1, LiesGrows
<1>4. Absent(d, r) => Absent(e, r)
  BY <1>1, MineGrows DEF Absent
<1> QED BY <1>2, <1>3, <1>4 DEF Holds

(* More log does not change what lies in the entries already applied.      *)
LEMMA LiesLonger ==
    ASSUME NEW d \in Dbs, NEW lg, NEW lh, NEW n \in Nat, NEW r \in Requests, NEW first,
           EntriesIn(d, n), SameUpTo(lg, lh, n), Lies(lg, d, r, first)
    PROVE  Lies(lh, d, r, first)
<1>1. ASSUME NEW i \in 1 .. Len(r.records)
      PROVE  Payload(lh, RecordAt(d, r.partition, first + i - 1)) = r.records[i]
  <2> DEFINE rec == RecordAt(d, r.partition, first + i - 1)
  <2>1. first + i - 1 \in Offsets /\ Mine(d, r, first + i - 1) /\ r.partition \in Partitions
    BY LiesOffsets, IdOfType
  <2>2. rec.entry \in 1 .. MaxLog /\ rec.entry <= n
    BY <2>1, RecordFields DEF Mine, EntriesIn
  <2>3. rec.entry \in 1 .. n
    BY <2>2, ConstantsAssumption
  <2>4. lh[rec.entry] = lg[rec.entry]
    BY <2>3 DEF SameUpTo
  <2>5. Payload(lg, rec) = r.records[i]
    BY DEF Lies
  <2> HIDE DEF rec
  <2>6. Payload(lh, rec) = Payload(lg, rec)
    BY <2>4 DEF Payload
  <2> QED BY <2>5, <2>6 DEF rec
<1> QED BY <1>1 DEF Lies

LEMMA HoldsLonger ==
    ASSUME NEW d \in Dbs, NEW lg, NEW lh, NEW n \in Nat, NEW r \in Requests, NEW res,
           EntriesIn(d, n), SameUpTo(lg, lh, n), Holds(lg, d, r, res)
    PROVE  Holds(lh, d, r, res)
BY LiesLonger DEF Holds

LEMMA StoredLonger ==
    ASSUME NEW d \in Dbs, NEW lg, NEW lh, NEW n \in Nat, SameUpTo(lg, lh, n), Stored(lg, n, d)
    PROVE  Stored(lh, n, d)
<1>1. EntriesIn(d, n)
  BY DEF Stored
<1>2. Carried(lh, d)
  BY <1>1, LiesLonger DEF Stored, Carried
<1> QED BY <1>2 DEF Stored

(* What a publish stages: records behind the tail, for a request the       *)
(* session had not closed.                                                 *)
Staging(w, result) ==
    /\ w \in Dbs /\ result \in Results
    /\ w.sessions = staged.sessions /\ w.receipts = staged.receipts
    /\ \A p \in Partitions :
          w.next[p] = IF p = Request.partition
                        THEN staged.next[p] + Len(Request.records) ELSE staged.next[p]
    /\ \A p \in Partitions : \A o \in Offsets :
          RecordAt(w, p, o) =
             IF p = Request.partition
                  /\ o \in staged.next[p] .. staged.next[p] + Len(Request.records) - 1
               THEN [entry |-> applied + 1, slot |-> slot + (o - staged.next[p]),
                     request |-> IdOf(Request)]
               ELSE RecordAt(staged, p, o)
    /\ result.ok /\ result.first = staged.next[Request.partition]
    /\ result.count = Len(Request.records)
    /\ Request.bookmark # None => result.bookmark.offset = result.first + result.count

LEMMA PublishFacts ==
    ASSUME IInv, Publish
    PROVE  \E w, result : /\ Staging(w, result) /\ Decide(w, result)
                          /\ BookmarksIn(staged) => BookmarksIn(w)
<1> DEFINE r == Request
           b == PublishBookmark(staged, r)
           marked == IF b = None THEN staged ELSE PutBookmark(staged, b)
           w == PutRecords(marked, r)
           first == staged.next[r.partition]
           count == Len(r.records)
           result == Published(first, count, b)
<1>1. /\ Applying /\ Fresh /\ RangeFits /\ BytesFit /\ ~NameIsUsed /\ ~BookmarkIdIsUsed
      /\ Decide(w, result)
  BY DEF Publish, Fresh, Unseen
<1>2. /\ r \in Requests /\ applied + 1 \in 1 .. MaxLog /\ pos \in 1 .. MaxBatch
      /\ staged \in Dbs /\ slot \in Nat
  BY <1>1, ApplyingTypes DEF IInv, TypeOK
<1>3. /\ IdOf(r) \in RequestIds /\ r.partition \in Partitions
      /\ r.bookmark \in Names \cup {None}
      /\ count \in Nat /\ first \in Nat /\ staged.publication[r.partition] \in Nat
  BY <1>2, IdOfType, RequestsAssumption, ConstantsAssumption DEF Dbs
<1>4. r.bookmark # None =>
         /\ b \in BookmarkRecords /\ b.id = <<applied + 1, pos>> /\ b.partition = r.partition
         /\ b.name = r.bookmark /\ ~b.deleted /\ b.offset = first + count
         /\ b.publication = staged.publication[r.partition] + 1
  <2> SUFFICES ASSUME r.bookmark # None
               PROVE  /\ b \in BookmarkRecords /\ b.id = <<applied + 1, pos>>
                      /\ b.partition = r.partition
                      /\ b.name = r.bookmark /\ ~b.deleted /\ b.offset = first + count
                      /\ b.publication = staged.publication[r.partition] + 1
    OBVIOUS
  <2>1. <<applied + 1, pos>> \in AllBookmarkIds
    BY <1>2 DEF AllBookmarkIds, PublishBookmarkIds
  <2>2. first + count \in Nat /\ staged.publication[r.partition] + 1 \in Nat
    BY <1>3
  <2>3. b = Bookmark(<<applied + 1, pos>>, r.partition, r.bookmark, first + count,
                     staged.publication[r.partition] + 1)
    BY DEF PublishBookmark
  <2> HIDE DEF b, first, count
  <2> QED BY <1>3, <2>1, <2>2, <2>3 DEF Bookmark, BookmarkRecords
<1>5. r.bookmark = None => b = None
  BY DEF PublishBookmark
<1>6. b \in BookmarkRecords \cup {None} /\ (b = None <=> r.bookmark = None)
  BY <1>4, <1>5, NoneAssumption
<1>7. /\ result \in Results /\ result.ok /\ result.first = first /\ result.count = count
      /\ result.bookmark = b
  BY <1>3, <1>6 DEF Published, Results
<1> HIDE DEF b
<1>8. /\ marked \in Dbs /\ marked.records = staged.records
      /\ marked.sessions = staged.sessions /\ marked.receipts = staged.receipts
      /\ marked.next = staged.next /\ marked.bytes = staged.bytes
  <2>1. CASE b = None
    BY <1>2, <2>1
  <2>2. CASE b # None
    <3>1. b \in BookmarkRecords /\ marked = PutBookmark(staged, b)
      BY <1>6, <2>2
    <3>2. PutBookmark(staged, b).receipts = staged.receipts
      BY <1>2 DEF PutBookmark, Dbs
    <3> QED BY <1>2, <3>1, <3>2, PutBookmarkType
  <2> QED BY <2>1, <2>2
<1>9. BookmarksIn(staged) => BookmarksIn(marked)
  <2>1. CASE b = None
    BY <2>1
  <2>2. CASE b # None
    <3>1. /\ r.bookmark # None /\ staged.names[<<b.partition, b.name>>] = None
          /\ staged.bookmarks[b.id] = None
      BY <1>1, <1>4, <1>6, <2>2 DEF NameIsUsed, BookmarkIdIsUsed
    <3>2. BookmarksIn(staged) => BookmarksIn(PutBookmark(staged, b))
      BY <1>2, <1>4, <3>1, PutBookmarkKeepsIndexes
    <3> QED BY <2>2, <3>2
  <2> QED BY <2>1, <2>2
<1> HIDE DEF marked, result
<1> DEFINE records == [marked.records EXCEPT ![r.partition] =
              [o \in 0 .. MaxOffset - 1 |->
                 IF o \in marked.next[r.partition] .. marked.next[r.partition] + count - 1
                   THEN [entry |-> applied + 1, slot |-> slot + (o - marked.next[r.partition]),
                         request |-> IdOf(r)]
                   ELSE @[o]]]
           next == [marked.next EXCEPT ![r.partition] = marked.next[r.partition] + count]
           bytes == [marked.bytes EXCEPT ![r.partition] = @ + r.bytes]
<1>10. w = [marked EXCEPT !.records = records, !.next = next, !.bytes = bytes]
  BY DEF PutRecords
<1>11. \A p \in Partitions : next[p] = IF p = r.partition THEN staged.next[p] + count
                                       ELSE staged.next[p]
  <2>1. staged.next \in [Partitions -> 0 .. MaxOffset]
    BY <1>2 DEF Dbs
  <2> QED BY <1>3, <1>8, <2>1
<1>12. /\ w \in Dbs /\ w.sessions = marked.sessions
       /\ \A p \in Partitions : \A o \in 0 .. MaxOffset - 1 :
              RecordAt(w, p, o) =
                 IF p = r.partition /\ o \in marked.next[p] .. marked.next[p] + count - 1
                   THEN [entry |-> applied + 1, slot |-> slot + (o - marked.next[p]),
                         request |-> IdOf(r)]
                   ELSE RecordAt(marked, p, o)
  <2>1. /\ marked.next[r.partition] + count <= MaxOffset
        /\ marked.bytes[r.partition] + r.bytes <= MaxBytes
    BY <1>1, <1>8 DEF RangeFits, BytesFit
  <2> QED BY <1>2, <1>8, <2>1, PutRecordsType
<1> HIDE DEF records, next, bytes
<1>13. /\ w.receipts = marked.receipts /\ w.next = next /\ SameBookmarks(marked, w)
  <2> HIDE DEF w
  <2>1. DOMAIN marked = DOMAIN staged
    BY <1>2, <1>8 DEF Dbs
  <2> QED BY <1>8, <1>10 DEF Dbs, SameBookmarks
<1> HIDE DEF w
<1>14. \A p \in Partitions : \A o \in Offsets : RecordAt(marked, p, o) = RecordAt(staged, p, o)
  BY <1>8 DEF RecordAt
<1>15. Staging(w, result)
  <2>1. w \in Dbs /\ result \in Results /\ w.sessions = staged.sessions
        /\ w.receipts = staged.receipts
    BY <1>7, <1>8, <1>12, <1>13
  <2>2. \A p \in Partitions :
          w.next[p] = IF p = Request.partition
                        THEN staged.next[p] + Len(Request.records) ELSE staged.next[p]
    BY <1>11, <1>13
  <2>3. \A p \in Partitions : \A o \in Offsets :
          RecordAt(w, p, o) =
             IF p = Request.partition
                  /\ o \in staged.next[p] .. staged.next[p] + Len(Request.records) - 1
               THEN [entry |-> applied + 1, slot |-> slot + (o - staged.next[p]),
                     request |-> IdOf(Request)]
               ELSE RecordAt(staged, p, o)
    BY <1>8, <1>12, <1>14 DEF Offsets
  <2>4. Request.bookmark # None => result.bookmark.offset = result.first + result.count
    BY <1>4, <1>7
  <2> QED BY <1>7, <2>1, <2>2, <2>3, <2>4 DEF Staging
<1>16. BookmarksIn(staged) => BookmarksIn(w)
  BY <1>9, <1>13, SameBookmarksIn
<1> QED BY <1>1, <1>15, <1>16

(* A state with the same records and tails stores the same requests.       *)
LEMMA StoredSame ==
    ASSUME NEW d, NEW e, NEW lg, NEW n, e.records = d.records, e.next = d.next,
           Stored(lg, n, d)
    PROVE  Stored(lg, n, e)
<1>1. \A p, o : RecordAt(e, p, o) = RecordAt(d, p, o)
  BY DEF RecordAt
<1>2. Dense(e)
  BY <1>1 DEF Stored, Dense
<1>3. EntriesIn(e, n)
  BY <1>1 DEF Stored, EntriesIn
<1>4. ASSUME NEW r \in Requests, NEW first \in Nat, Lies(lg, d, r, first)
      PROVE  Lies(lg, e, r, first)
  BY <1>1, <1>4 DEF Lies, Mine
<1>5. Carried(lg, e)
  BY <1>1, <1>4 DEF Stored, Carried
<1> QED BY <1>2, <1>3, <1>5 DEF Stored

(* Deciding a fresh request moves the state forward.                       *)
LEMMA DecidedGrows ==
    ASSUME NEW d \in Dbs, NEW w \in Dbs, NEW r \in Requests, NEW result \in Results,
           w.sessions = d.sessions, ~Closed(d, IdOf(r)),
           \A p \in Partitions : d.next[p] <= w.next[p],
           \A p \in Partitions : \A o \in Offsets :
              RecordAt(w, p, o) # RecordAt(d, p, o) =>
                 RecordAt(d, p, o) = None /\ RecordAt(w, p, o).request = IdOf(r)
    PROVE  Grows(d, Decided(w, r, result)) /\ Closed(Decided(w, r, result), IdOf(r))
<1> DEFINE new == Decided(w, r, result)
           id == IdOf(r)
<1>1. /\ id \in RequestIds /\ id.partition = r.partition /\ id.session = r.session
      /\ id.sequence = r.sequence /\ r.sequence \in Sequences_ /\ r.partition \in Partitions
      /\ r.session \in Sessions
  BY IdOfType
<1>2. /\ new \in Dbs /\ new.records = w.records /\ new.next = w.next
      /\ new.sessions = [w.sessions EXCEPT ![<<r.partition, r.session>>] =
                           [highest |-> r.sequence, retained |-> Kept(w, id)]]
  BY DecidedFacts
<1> HIDE DEF new, id
<1>3. d.sessions \in [Partitions \X Sessions ->
                        [highest : Sequences_ \cup {-1}, retained : Seq(Sequences_)]]
  BY DEF Dbs
<1>4. ASSUME NEW k \in RequestIds
      PROVE  SessionOf(new, k).highest =
                IF k.partition = r.partition /\ k.session = r.session
                  THEN r.sequence ELSE SessionOf(d, k).highest
  <2>1. <<k.partition, k.session>> \in Partitions \X Sessions
    BY DEF RequestIds
  <2> QED BY <1>1, <1>2, <1>3, <2>1 DEF SessionOf
<1>5. /\ r.sequence \in Int /\ SessionOf(d, id).highest \in Int
      /\ SessionOf(d, id).highest < r.sequence
  <2>1. SessionOf(d, id).highest \in Int /\ r.sequence \in Int
    BY <1>1, StoredTypes, SequencesAreInts
  <2> QED BY <1>1, <2>1 DEF Closed, id
<1>6. ASSUME NEW k \in RequestIds
      PROVE  SessionOf(d, k).highest <= SessionOf(new, k).highest
  <2>1. SessionOf(d, k).highest \in Int
    BY StoredTypes
  <2>2. CASE k.partition = r.partition /\ k.session = r.session
    <3>1. SessionOf(d, k) = SessionOf(d, id)
      BY <1>1, <2>2 DEF SessionOf
    <3> QED BY <1>4, <1>5, <2>2, <3>1
  <2>3. CASE ~(k.partition = r.partition /\ k.session = r.session)
    BY <1>4, <2>1, <2>3
  <2> QED BY <2>2, <2>3
<1>7. \A p \in Partitions : \A o \in Offsets : RecordAt(new, p, o) = RecordAt(w, p, o)
  BY <1>2 DEF RecordAt
<1>8. \A p \in Partitions : d.next[p] <= new.next[p]
  BY <1>2
<1>9. ASSUME NEW p \in Partitions, NEW o \in Offsets, RecordAt(new, p, o) # RecordAt(d, p, o)
      PROVE  RecordAt(d, p, o) = None /\ ~Closed(d, RecordAt(new, p, o).request)
  BY <1>7, <1>9 DEF id
<1>10. Closed(new, id)
  BY <1>1, <1>4, <1>5 DEF Closed
<1> QED BY <1>6, <1>8, <1>9, <1>10 DEF Grows, new, id

(* The request being applied and what freshness says of it.                *)
LEMMA FreshFacts ==
    ASSUME IInv, Fresh
    PROVE  /\ Applying /\ Request \in Requests /\ IdOf(Request) \in RequestIds
           /\ staged \in Dbs /\ db \in Dbs
           /\ Request.partition \in Partitions /\ Len(Request.records) \in Nat
           /\ PriorOutcome(IdOf(Request)) = None
           /\ ~Closed(staged, IdOf(Request))
           /\ Request.sequence > SessionOf(staged, IdOf(Request)).highest
<1>1. /\ Applying /\ PriorOutcome(IdOf(Request)) = None
      /\ Request.sequence > SessionOf(staged, IdOf(Request)).highest
  BY DEF Fresh, Unseen
<1>2. Request \in Requests /\ staged \in Dbs /\ db \in Dbs
  BY <1>1, ApplyingTypes DEF IInv, TypeOK
<1>3. /\ IdOf(Request) \in RequestIds /\ Request.partition \in Partitions
      /\ IdOf(Request).sequence = Request.sequence /\ Len(Request.records) \in Nat
  BY <1>2, IdOfType, RequestsAssumption
<1>4. ~Closed(staged, IdOf(Request))
  <2>1. SessionOf(staged, IdOf(Request)).highest \in Int /\ IdOf(Request).sequence \in Int
    BY <1>2, <1>3, StoredTypes, IdSequence
  <2> QED BY <1>1, <1>3, <2>1 DEF Closed
<1> QED BY <1>1, <1>2, <1>3, <1>4

(* A closed session's records are nobody's who is still fresh.             *)
LEMMA FreshIsAbsent ==
    ASSUME NEW d, NEW r \in Requests, Owned(d), ~Closed(d, IdOf(r))
    PROVE  Absent(d, r)
<1> SUFFICES ASSUME NEW o \in Offsets, Mine(d, r, o) PROVE FALSE
  BY DEF Absent
<1>1. r.partition \in Partitions
  BY IdOfType
<1>2. Closed(d, RecordAt(d, r.partition, o).request)
  BY <1>1 DEF Owned, Mine, Closed, Offsets
<1> QED BY <1>2 DEF Mine

(* A rejection stages its receipt and session only.                        *)
LEMMA RejectStored ==
    ASSUME IInv, Fresh, NEW lg, NEW n, NEW result \in Results, Stored(lg, n, staged),
           ~result.ok
    PROVE  /\ Stored(lg, n, Decided(staged, Request, result))
           /\ Grows(staged, Decided(staged, Request, result))
           /\ Holds(lg, Decided(staged, Request, result), Request, result)
<1> DEFINE new == Decided(staged, Request, result)
<1>1. /\ Request \in Requests /\ staged \in Dbs /\ ~Closed(staged, IdOf(Request))
      /\ Owned(staged)
  BY FreshFacts DEF IInv
<1>2. new \in Dbs /\ new.records = staged.records /\ new.next = staged.next
  BY <1>1, DecidedFacts
<1>3. \A p \in Partitions : staged.next[p] <= staged.next[p]
  BY <1>1, ConstantsAssumption DEF Dbs
<1>4. Grows(staged, new) /\ Closed(new, IdOf(Request))
  BY <1>1, <1>3, DecidedGrows
<1> HIDE DEF new
<1>5. Stored(lg, n, new)
  BY <1>2, StoredSame
<1>6. Absent(new, Request)
  BY <1>1, <1>2, FreshIsAbsent DEF Absent, Mine, RecordAt
<1> QED BY <1>4, <1>5, <1>6 DEF Holds, new

(* The slot counter runs along the flat payloads of the entry.             *)
SlotOK == pos > 0 => slot = Len(FlatOf(Entry.requests)[pos - 1])

(* The requests of the entry being applied.                                *)
LEMMA EntryFacts ==
    ASSUME IInv, pos > 0
    PROVE  /\ Entry \in Commands /\ Entry.requests \in Seq(Requests)
           /\ Len(Entry.requests) \in Nat /\ pos \in Nat /\ pos <= Len(Entry.requests) + 1
           /\ applied \in Nat /\ applied + 1 \in 1 .. Len(log) /\ Len(log) \in Nat
           /\ Entry = log[applied + 1] /\ outs \in Seq(Results) /\ Len(outs) = pos - 1
<1>1. /\ applied < Len(log) /\ Entry.type = "PublishMany" /\ pos <= Len(Entry.requests) + 1
      /\ log \in Seq(Commands) /\ applied \in 0 .. Len(log) /\ pos \in Nat
      /\ outs \in Seq(Results) /\ Len(outs) = pos - 1
  BY DEF IInv, TypeOK, TxnOK
<1>2. Len(log) \in Nat /\ applied \in Nat /\ applied + 1 \in 1 .. Len(log)
  BY <1>1
<1>3. Entry \in Commands
  BY <1>1, <1>2 DEF Entry
<1>4. Entry.requests \in Seq(Requests)
  BY <1>1, <1>3, CommandShapes
<1> QED BY <1>1, <1>2, <1>3, <1>4 DEF Entry

(* A publish lies whole behind the old tail, with its own payloads.        *)
LEMMA PublishStored ==
    ASSUME IInv, Fresh, NEW w, NEW result, Staging(w, result),
           Stored(log, applied + 1, staged), SlotOK
    PROVE  /\ Stored(log, applied + 1, Decided(w, Request, result))
           /\ Grows(staged, Decided(w, Request, result))
           /\ Holds(log, Decided(w, Request, result), Request, result)
<1> DEFINE r == Request
           new == Decided(w, r, result)
           first == staged.next[r.partition]
           count == Len(r.records)
           IsNew(p, o) == p = r.partition /\ o \in first .. first + count - 1
<1>1. /\ Applying /\ r \in Requests /\ IdOf(r) \in RequestIds /\ staged \in Dbs
      /\ r.partition \in Partitions /\ count \in Nat /\ ~Closed(staged, IdOf(r))
      /\ Owned(staged)
  BY FreshFacts DEF IInv
<1>2. /\ w \in Dbs /\ result \in Results /\ w.sessions = staged.sessions
      /\ result.ok /\ result.first = first /\ result.count = count
      /\ r.bookmark # None => result.bookmark.offset = result.first + result.count
      /\ \A p \in Partitions : w.next[p] = IF p = r.partition THEN staged.next[p] + count
                                           ELSE staged.next[p]
  BY DEF Staging
<1>3. \A p \in Partitions : \A o \in Offsets :
          RecordAt(w, p, o) =
             IF IsNew(p, o)
               THEN [entry |-> applied + 1, slot |-> slot + (o - first), request |-> IdOf(r)]
               ELSE RecordAt(staged, p, o)
  BY DEF Staging
<1>4. \A p \in Partitions : staged.next[p] \in Nat /\ first \in Nat
  BY <1>1, ConstantsAssumption DEF Dbs
<1>5. applied \in Nat /\ applied + 1 \in Nat /\ slot \in Nat /\ MaxOffset \in Nat
  BY ConstantsAssumption DEF IInv, TypeOK
<1>6. ASSUME NEW p \in Partitions, NEW o \in Offsets
      PROVE  [entry |-> applied + 1, slot |-> slot + (o - first), request |-> IdOf(r)] # None
                \/ ~IsNew(p, o)
  <2> SUFFICES ASSUME IsNew(p, o)
               PROVE  [entry |-> applied + 1, slot |-> slot + (o - first), request |-> IdOf(r)]
                         # None
    OBVIOUS
  <2> HIDE DEF first, count
  <2>1. o - first \in Nat
    BY <1>1, <1>4 DEF Offsets
  <2> DEFINE delta == o - first
  <2>2. slot + delta \in Nat
    BY <1>5, <2>1
  <2>3. applied + 1 \in 1 .. MaxLog
    BY <1>1, ApplyingTypes DEF IInv
  <2>4. [entry |-> applied + 1, slot |-> slot + delta, request |-> IdOf(r)]
          \in [entry : 1 .. MaxLog, slot : Nat, request : RequestIds]
    BY <1>1, <2>2, <2>3
  <2> QED BY <2>4, NoneAssumption
<1>7. ASSUME NEW p \in Partitions, NEW o \in Offsets, IsNew(p, o)
      PROVE  RecordAt(staged, p, o) = None
  <2>1. ~(o < staged.next[p])
    BY <1>1, <1>4, <1>7 DEF Offsets
  <2> QED BY <2>1 DEF Stored, Dense
<1>8. \A p \in Partitions : staged.next[p] <= w.next[p]
  BY <1>1, <1>2, <1>4
<1>9. \A p \in Partitions : \A o \in Offsets :
         RecordAt(w, p, o) # RecordAt(staged, p, o) =>
            RecordAt(staged, p, o) = None /\ RecordAt(w, p, o).request = IdOf(r)
  BY <1>3, <1>7
<1>10. Grows(staged, new) /\ Closed(new, IdOf(r))
  BY <1>1, <1>2, <1>8, <1>9, DecidedGrows
<1>11. new \in Dbs /\ new.records = w.records /\ new.next = w.next
  <2>1. r \in Requests /\ w \in Dbs /\ result \in Results
    BY <1>1, <1>2
  <2> HIDE DEF r
  <2> QED BY <2>1, DecidedFacts
<1> HIDE DEF new
<1>12. \A p \in Partitions : \A o \in Offsets :
          /\ IsNew(p, o) =>
                /\ RecordAt(new, p, o) # None
                /\ RecordAt(new, p, o) =
                     [entry |-> applied + 1, slot |-> slot + (o - first), request |-> IdOf(r)]
          /\ ~IsNew(p, o) => RecordAt(new, p, o) = RecordAt(staged, p, o)
  <2>1. \A p \in Partitions : \A o \in Offsets : RecordAt(new, p, o) = RecordAt(w, p, o)
    BY <1>11 DEF RecordAt
  <2> QED BY <1>3, <1>6, <2>1
<1>13. Dense(new)
  <2> SUFFICES ASSUME NEW p \in Partitions, NEW o \in Offsets
               PROVE  RecordAt(new, p, o) # None <=> o < new.next[p]
    BY DEF Dense
  <2>1. RecordAt(staged, p, o) # None <=> o < staged.next[p]
    BY DEF Stored, Dense
  <2>2. o \in Nat /\ staged.next[p] \in Nat
    BY <1>4 DEF Offsets
  <2>3. CASE IsNew(p, o)
    <3>1. o < new.next[p]
      BY <1>1, <1>2, <1>4, <1>11, <2>2, <2>3
    <3> QED BY <1>12, <2>3, <3>1
  <2>4. CASE ~IsNew(p, o)
    <3>1. o < new.next[p] <=> o < staged.next[p]
      BY <1>1, <1>2, <1>4, <1>11, <2>2, <2>4
    <3> QED BY <1>12, <2>1, <2>4, <3>1
  <2> QED BY <2>3, <2>4
<1>14. EntriesIn(new, applied + 1)
  <2> SUFFICES ASSUME NEW p \in Partitions, NEW o \in Offsets, RecordAt(new, p, o) # None
               PROVE  RecordAt(new, p, o).entry <= applied + 1
    BY DEF EntriesIn
  <2>1. CASE IsNew(p, o)
    <3>1. RecordAt(new, p, o).entry = applied + 1
      BY <1>12, <2>1
    <3> QED BY <1>5, <3>1
  <2>2. CASE ~IsNew(p, o)
    BY <1>12, <2>2 DEF Stored, EntriesIn
  <2> QED BY <2>1, <2>2
<1>15. first + count <= new.next[r.partition] /\ first + count <= MaxOffset
  <2>1. new.next[r.partition] = first + count
    BY <1>1, <1>2, <1>11
  <2>2. new.next[r.partition] \in 0 .. MaxOffset
    BY <1>1, <1>11 DEF Dbs
  <2> QED BY <1>1, <1>4, <1>5, <2>1, <2>2
<1>16. \A o \in Offsets : Mine(new, r, o) <=> o \in first .. first + count - 1
  <2>1. Absent(staged, r)
    BY <1>1, FreshIsAbsent
  <2> SUFFICES ASSUME NEW o \in Offsets
               PROVE  Mine(new, r, o) <=> o \in first .. first + count - 1
    OBVIOUS
  <2>2. CASE IsNew(r.partition, o)
    BY <1>1, <1>12, <2>2 DEF Mine
  <2>3. CASE ~IsNew(r.partition, o)
    BY <1>1, <1>12, <2>1, <2>3 DEF Mine, Absent
  <2> QED BY <2>2, <2>3
<1>17. ASSUME NEW i \in 1 .. count
       PROVE  Payload(log, RecordAt(new, r.partition, first + i - 1)) = r.records[i]
  <2> DEFINE o == first + i - 1
             rs == Entry.requests
  <2>1. pos > 0 /\ pos <= Len(rs) /\ rs \in Seq(Requests) /\ pos \in Nat /\ r = rs[pos]
        /\ rs = log[applied + 1].requests
    BY <1>1, EntryFacts DEF Applying, Request, Entry
  <2>2. o \in Offsets /\ IsNew(r.partition, o) /\ o - first = i - 1
    BY <1>1, <1>4, <1>5, <1>15 DEF Offsets
  <2>3. RecordAt(new, r.partition, o) =
          [entry |-> applied + 1, slot |-> slot + (o - first), request |-> IdOf(r)]
    BY <1>1, <1>12, <2>2
  <2>4. pos \in 1 .. Len(rs) /\ slot = Len(FlatOf(rs)[pos - 1])
    BY <2>1 DEF SlotOK
  <2>5. PayloadsOf(rs)[slot + i] = r.records[i]
    BY <2>1, <2>4, SlotPayload
  <2>6. (slot + (o - first)) + 1 = slot + i
    <3> HIDE DEF o, first
    <3> QED BY <1>5, <2>2
  <2>7. Payload(log, RecordAt(new, r.partition, o)) = PayloadsOf(rs)[(slot + (o - first)) + 1]
    <3> DEFINE rec == RecordAt(new, r.partition, o)
    <3>1. rec.entry = applied + 1 /\ rec.slot = slot + (o - first)
      BY <2>3
    <3> HIDE DEF rec, o, first, rs
    <3>2. Payload(log, rec) = PayloadsOf(rs)[rec.slot + 1]
      BY <2>1, <3>1 DEF Payload
    <3> QED BY <3>1, <3>2 DEF rec
  <2> QED BY <2>5, <2>6, <2>7
<1>18. Lies(log, new, r, first)
  BY <1>1, <1>4, <1>15, <1>16, <1>17 DEF Lies
<1>19. Carried(log, new)
  <2> SUFFICES ASSUME NEW p \in Partitions, NEW o \in Offsets, RecordAt(new, p, o) # None
               PROVE  \E s \in Requests : /\ IdOf(s) = RecordAt(new, p, o).request
                                          /\ \E f \in Nat : Lies(log, new, s, f)
    BY DEF Carried
  <2>1. CASE IsNew(p, o)
    <3>1. IdOf(r) = RecordAt(new, p, o).request
      BY <1>12, <2>1
    <3> QED BY <1>1, <1>4, <1>18, <3>1
  <2>2. CASE ~IsNew(p, o)
    <3>1. RecordAt(staged, p, o) # None /\ RecordAt(new, p, o) = RecordAt(staged, p, o)
      BY <1>12, <2>2
    <3>2. PICK s \in Requests, f \in Nat :
             IdOf(s) = RecordAt(staged, p, o).request /\ Lies(log, staged, s, f)
      BY <3>1 DEF Stored, Carried
    <3>3. Closed(staged, IdOf(s))
      BY <1>1, <3>1, <3>2 DEF Owned, Closed, Offsets
    <3>4. Lies(log, new, s, f)
      BY <1>1, <1>10, <1>11, <3>2, <3>3, LiesGrows
    <3> QED BY <3>1, <3>2, <3>4
  <2> QED BY <2>1, <2>2
<1>20. Holds(log, new, r, result)
  BY <1>2, <1>10, <1>18 DEF Holds
<1> QED BY <1>10, <1>13, <1>14, <1>19, <1>20 DEF Stored, new

-----------------------------------------------------------------------------
(* What clients were told.                                                 *)

(* Receipts are filed under their identity and borne out by the state.     *)
ReceiptsTrue(lg, d, rc) ==
    \A id \in RequestIds : rc[id] # None =>
        /\ IdOf(rc[id].request) = id
        /\ Durable(rc[id].result)
        /\ Holds(lg, d, rc[id].request, rc[id].result)

(* Every durable answer in T is borne out, is the one its receipt would    *)
(* give, and is the only one its request ever got.                         *)
Consistent(lg, d, rc, T) ==
    /\ \A x \in T : Durable(x[2]) =>
          /\ Holds(lg, d, x[1], x[2])
          /\ rc[IdOf(x[1])] # None => rc[IdOf(x[1])] = Outcome(x[1], x[2])
    /\ \A x, y \in T : (x[1] = y[1] /\ Durable(x[2]) /\ Durable(y[2])) => x[2] = y[2]

Receipts == [RequestIds -> Outcomes \cup {None}]

LEMMA OutcomeFields ==
    ASSUME NEW rc \in Receipts, NEW id \in RequestIds, rc[id] # None
    PROVE  /\ rc[id] \in Outcomes /\ rc[id].request \in Requests /\ rc[id].result \in Results
           /\ rc[id] = Outcome(rc[id].request, rc[id].result)
<1>1. rc[id] \in Outcomes
  BY DEF Receipts
<1> QED BY <1>1 DEF Outcomes, Outcome

LEMMA OutcomeIsPresent ==
    ASSUME NEW r \in Requests, NEW result \in Results
    PROVE  /\ Outcome(r, result) \in Outcomes /\ Outcome(r, result) # None
           /\ Outcome(r, result).request = r /\ Outcome(r, result).result = result
<1>1. Outcome(r, result) \in Outcomes
  BY DEF Outcome, Outcomes
<1> QED BY <1>1, NoneAssumption DEF Outcome

(* Answers taken from receipts join what was told.                         *)
LEMMA Tell ==
    ASSUME NEW lg, NEW d, NEW rc, NEW T \in SUBSET (Requests \X Results),
           NEW N \in SUBSET (Requests \X Results),
           ReceiptsTrue(lg, d, rc), Consistent(lg, d, rc, T),
           \A x \in N : Durable(x[2]) => rc[IdOf(x[1])] = Outcome(x[1], x[2])
    PROVE  Consistent(lg, d, rc, T \cup N)
<1>1. ASSUME NEW x \in N, Durable(x[2])
      PROVE  /\ x[1] \in Requests /\ x[2] \in Results
             /\ rc[IdOf(x[1])] = Outcome(x[1], x[2]) /\ rc[IdOf(x[1])] # None
             /\ Holds(lg, d, x[1], x[2])
  <2>1. x[1] \in Requests /\ x[2] \in Results
    OBVIOUS
  <2>2. rc[IdOf(x[1])] = Outcome(x[1], x[2]) /\ IdOf(x[1]) \in RequestIds
    BY <1>1, <2>1, IdOfType
  <2>3. /\ rc[IdOf(x[1])] # None /\ rc[IdOf(x[1])].request = x[1]
        /\ rc[IdOf(x[1])].result = x[2]
    BY <2>1, <2>2, OutcomeIsPresent
  <2>4. Holds(lg, d, rc[IdOf(x[1])].request, rc[IdOf(x[1])].result)
    BY <2>2, <2>3 DEF ReceiptsTrue
  <2> QED BY <2>1, <2>2, <2>3, <2>4
<1>2. ASSUME NEW x \in T \cup N, Durable(x[2])
      PROVE  /\ Holds(lg, d, x[1], x[2])
             /\ rc[IdOf(x[1])] # None => rc[IdOf(x[1])] = Outcome(x[1], x[2])
  <2>1. CASE x \in N
    BY <1>1, <1>2, <2>1
  <2>2. CASE x \in T
    BY <1>2, <2>2 DEF Consistent
  <2> QED BY <2>1, <2>2
<1>3. ASSUME NEW x \in N, NEW y \in T \cup N, x[1] = y[1], Durable(x[2]), Durable(y[2])
      PROVE  x[2] = y[2]
  <2>1. rc[IdOf(x[1])] # None /\ rc[IdOf(x[1])] = Outcome(x[1], x[2])
    BY <1>1, <1>3
  <2>2. rc[IdOf(y[1])] = Outcome(y[1], y[2])
    BY <1>2, <1>3, <2>1
  <2>3. Outcome(x[1], x[2]) = Outcome(y[1], y[2])
    BY <1>3, <2>1, <2>2
  <2>4. Outcome(x[1], x[2]).result = x[2] /\ Outcome(y[1], y[2]).result = y[2]
    BY DEF Outcome
  <2> QED BY <2>3, <2>4
<1>4. ASSUME NEW x \in T \cup N, NEW y \in T \cup N, x[1] = y[1],
             Durable(x[2]), Durable(y[2])
      PROVE  x[2] = y[2]
  <2>1. CASE x \in N
    BY <1>3, <1>4, <2>1
  <2>2. CASE y \in N
    BY <1>3, <1>4, <2>2
  <2>3. CASE x \in T /\ y \in T
    BY <1>4, <2>3 DEF Consistent
  <2> QED BY <2>1, <2>2, <2>3
<1> QED BY <1>2, <1>4 DEF Consistent

(* A decision answers a request nobody was durably answered before.        *)
LEMMA TellDecision ==
    ASSUME NEW lg, NEW d \in Dbs, NEW new \in Dbs, NEW rc \in Receipts, NEW nc \in Receipts,
           NEW T \in SUBSET (Requests \X Results), NEW r \in Requests, NEW result \in Results,
           Durable(result), ReceiptsTrue(lg, d, rc), Consistent(lg, d, rc, T), Grows(d, new),
           ~Closed(d, IdOf(r)), Holds(lg, new, r, result),
           nc[IdOf(r)] = Outcome(r, result),
           \A k \in RequestIds : k # IdOf(r) => (nc[k] = rc[k] \/ nc[k] = None)
    PROVE  /\ ReceiptsTrue(lg, new, nc)
           /\ Consistent(lg, new, nc, T \cup {<<r, result>>})
<1>1. IdOf(r) \in RequestIds
  BY IdOfType
<1>2. ReceiptsTrue(lg, new, nc)
  <2> SUFFICES ASSUME NEW k \in RequestIds, nc[k] # None
               PROVE  /\ IdOf(nc[k].request) = k /\ Durable(nc[k].result)
                      /\ Holds(lg, new, nc[k].request, nc[k].result)
    BY DEF ReceiptsTrue
  <2>1. CASE k = IdOf(r)
    BY <2>1, OutcomeIsPresent
  <2>2. CASE k # IdOf(r)
    <3>1. nc[k] = rc[k] /\ rc[k] # None
      BY <2>2
    <3>2. /\ IdOf(rc[k].request) = k /\ Durable(rc[k].result)
          /\ Holds(lg, d, rc[k].request, rc[k].result)
      BY <3>1 DEF ReceiptsTrue
    <3>3. rc[k].request \in Requests /\ rc[k].result \in Results
      BY <3>1, OutcomeFields
    <3> QED BY <3>1, <3>2, <3>3, HoldsGrows
  <2> QED BY <2>1, <2>2
<1>3. ASSUME NEW x \in T, Durable(x[2])
      PROVE  /\ x[1] \in Requests /\ x[2] \in Results /\ IdOf(x[1]) # IdOf(r)
             /\ Holds(lg, new, x[1], x[2])
  <2>1. x[1] \in Requests /\ x[2] \in Results
    OBVIOUS
  <2>2. Holds(lg, d, x[1], x[2])
    BY <1>3 DEF Consistent
  <2>3. IdOf(x[1]) # IdOf(r)
    BY <2>2 DEF Holds
  <2> QED BY <2>1, <2>2, <2>3, HoldsGrows
<1>4. Consistent(lg, new, nc, T)
  <2>1. ASSUME NEW x \in T, Durable(x[2])
        PROVE  nc[IdOf(x[1])] # None => nc[IdOf(x[1])] = Outcome(x[1], x[2])
    <3>1. /\ IdOf(x[1]) \in RequestIds /\ IdOf(x[1]) # IdOf(r)
      BY <1>3, <2>1, IdOfType
    <3>2. rc[IdOf(x[1])] # None => rc[IdOf(x[1])] = Outcome(x[1], x[2])
      BY <2>1 DEF Consistent
    <3> QED BY <3>1, <3>2
  <2> QED BY <1>3, <2>1 DEF Consistent
<1>5. {<<r, result>>} \in SUBSET (Requests \X Results)
  OBVIOUS
<1>6. \A x \in {<<r, result>>} : Durable(x[2]) => nc[IdOf(x[1])] = Outcome(x[1], x[2])
  OBVIOUS
<1> QED BY <1>2, <1>4, <1>5, <1>6, Tell

(* Fewer receipts promise less.                                            *)
LEMMA FewerReceipts ==
    ASSUME NEW lg, NEW d, NEW rc \in Receipts, NEW nc \in Receipts,
           NEW T \in SUBSET (Requests \X Results),
           ReceiptsTrue(lg, d, rc), Consistent(lg, d, rc, T),
           \A k \in RequestIds : nc[k] # None => nc[k] = rc[k]
    PROVE  ReceiptsTrue(lg, d, nc) /\ Consistent(lg, d, nc, T)
<1>1. \A x \in T : IdOf(x[1]) \in RequestIds
  BY IdOfType
<1>2. ReceiptsTrue(lg, d, nc)
  BY DEF ReceiptsTrue
<1>3. ASSUME NEW x \in T, Durable(x[2])
      PROVE  /\ Holds(lg, d, x[1], x[2])
             /\ nc[IdOf(x[1])] # None => nc[IdOf(x[1])] = Outcome(x[1], x[2])
  <2>1. /\ Holds(lg, d, x[1], x[2])
        /\ rc[IdOf(x[1])] # None => rc[IdOf(x[1])] = Outcome(x[1], x[2])
    BY <1>3 DEF Consistent
  <2>2. nc[IdOf(x[1])] # None => nc[IdOf(x[1])] = rc[IdOf(x[1])]
    BY <1>1
  <2> QED BY <2>1, <2>2
<1>4. \A x, y \in T : (x[1] = y[1] /\ Durable(x[2]) /\ Durable(y[2])) => x[2] = y[2]
  BY DEF Consistent
<1> QED BY <1>2, <1>3, <1>4 DEF Consistent

-----------------------------------------------------------------------------
(* The second inductive invariant: the durable state and the staged one    *)
(* are each in order, with the receipts a retry would see and the answers  *)
(* given so far.                                                           *)

Layer(lg, n, d, rc, T) ==
    /\ WindowIn(d)
    /\ BookmarksIn(d)
    /\ Stored(lg, n, d)
    /\ ReceiptsTrue(lg, d, rc)
    /\ Consistent(lg, d, rc, T)

Prior == [id \in RequestIds |-> PriorOutcome(id)]

(* Answers sent, and answers decided in the entry being applied.           *)
Told == answered \cup {<<Entry.requests[k], outs[k]>> : k \in DOMAIN outs}

(* The transaction's cache adds to the durable receipts, and what it would *)
(* write is among them.                                                    *)
CacheOK ==
    \A id \in RequestIds :
        /\ outcomes[id] # None => db.receipts[id] = None
        /\ staged.receipts[id] # None => staged.receipts[id] = Prior[id]

LInv ==
    /\ Layer(log, applied, db, db.receipts, answered)
    /\ Layer(log, applied + 1, staged, Prior, Told)
    /\ Grows(db, staged)
    /\ SlotOK
    /\ CacheOK

LEMMA PriorTypes ==
    ASSUME IInv
    PROVE  /\ Prior \in Receipts /\ db.receipts \in Receipts /\ staged.receipts \in Receipts
           /\ outcomes \in Receipts
           /\ \A id \in RequestIds :
                 Prior[id] = IF outcomes[id] # None THEN outcomes[id] ELSE db.receipts[id]
<1>1. /\ db.receipts \in Receipts /\ staged.receipts \in Receipts /\ outcomes \in Receipts
  BY DEF IInv, TypeOK, Dbs, Receipts
<1>2. \A id \in RequestIds : Prior[id] = PriorOutcome(id)
  BY DEF Prior
<1>3. \A id \in RequestIds :
         PriorOutcome(id) = IF outcomes[id] # None THEN outcomes[id] ELSE db.receipts[id]
  BY DEF PriorOutcome
<1>4. ASSUME NEW id \in RequestIds PROVE PriorOutcome(id) \in Outcomes \cup {None}
  BY <1>1, <1>3 DEF Receipts
<1>5. Prior \in Receipts
  BY <1>4 DEF Prior, Receipts
<1> QED BY <1>1, <1>2, <1>3, <1>5

(* Entries not yet applied hold no record.                                 *)
LEMMA LayerLater ==
    ASSUME NEW lg, NEW n \in Nat, NEW d \in Dbs, NEW rc, NEW T, Layer(lg, n, d, rc, T)
    PROVE  Layer(lg, n + 1, d, rc, T)
<1>1. EntriesIn(d, n)
  BY DEF Layer, Stored
<1>2. EntriesIn(d, n + 1)
  <2> SUFFICES ASSUME NEW p \in Partitions, NEW o \in Offsets, RecordAt(d, p, o) # None
               PROVE  RecordAt(d, p, o).entry <= n + 1
    BY DEF EntriesIn
  <2>1. RecordAt(d, p, o).entry <= n /\ RecordAt(d, p, o).entry \in 1 .. MaxLog
    BY <1>1, RecordFields DEF EntriesIn
  <2>2. RecordAt(d, p, o).entry \in Int
    BY <2>1, ConstantsAssumption
  <2> QED BY <2>1, <2>2
<1> QED BY <1>2 DEF Layer, Stored

(* A log that grows at its end changes nothing that was told.              *)
LEMMA LayerLonger ==
    ASSUME NEW lg, NEW lh, NEW n \in Nat, NEW d \in Dbs, NEW rc \in Receipts,
           NEW T \in SUBSET (Requests \X Results), SameUpTo(lg, lh, n), Layer(lg, n, d, rc, T)
    PROVE  Layer(lh, n, d, rc, T)
<1>1. EntriesIn(d, n)
  BY DEF Layer, Stored
<1>2. Stored(lh, n, d)
  BY StoredLonger DEF Layer
<1>3. ReceiptsTrue(lh, d, rc)
  <2> SUFFICES ASSUME NEW k \in RequestIds, rc[k] # None
               PROVE  /\ IdOf(rc[k].request) = k /\ Durable(rc[k].result)
                      /\ Holds(lh, d, rc[k].request, rc[k].result)
    BY DEF ReceiptsTrue
  <2>1. /\ IdOf(rc[k].request) = k /\ Durable(rc[k].result)
        /\ Holds(lg, d, rc[k].request, rc[k].result)
    BY DEF Layer, ReceiptsTrue
  <2>2. rc[k].request \in Requests
    BY OutcomeFields
  <2> QED BY <1>1, <2>1, <2>2, HoldsLonger
<1>4. Consistent(lh, d, rc, T)
  <2>1. ASSUME NEW x \in T, Durable(x[2]) PROVE Holds(lh, d, x[1], x[2])
    <3>1. x[1] \in Requests /\ Holds(lg, d, x[1], x[2])
      BY <2>1 DEF Layer, Consistent
    <3> QED BY <1>1, <3>1, HoldsLonger
  <2> QED BY <2>1 DEF Layer, Consistent
<1> QED BY <1>2, <1>3, <1>4 DEF Layer

(* A state that differs in bookmarks or fence only.                        *)
LEMMA LayerSame ==
    ASSUME NEW lg, NEW n, NEW d \in Dbs, NEW e \in Dbs, NEW T,
           e.records = d.records, e.next = d.next, e.sessions = d.sessions,
           e.receipts = d.receipts, BookmarksIn(e), Layer(lg, n, d, d.receipts, T)
    PROVE  Layer(lg, n, e, e.receipts, T)
<1>1. Stored(lg, n, e)
  BY StoredSame DEF Layer
<1>2. WindowIn(e)
  BY DEF Layer, WindowIn, SessionOf
<1>3. ASSUME NEW r, NEW res, Holds(lg, d, r, res) PROVE Holds(lg, e, r, res)
  <2>1. \A p, o : RecordAt(e, p, o) = RecordAt(d, p, o)
    BY DEF RecordAt
  <2>2. Closed(e, IdOf(r))
    BY <1>3 DEF Holds, Closed, SessionOf
  <2>3. Lies(lg, d, r, res.first) => Lies(lg, e, r, res.first)
    BY <2>1 DEF Lies, Mine
  <2>4. Absent(d, r) => Absent(e, r)
    BY <2>1 DEF Absent, Mine
  <2> QED BY <1>3, <2>2, <2>3, <2>4 DEF Holds
<1>4. ReceiptsTrue(lg, e, e.receipts)
  BY <1>3 DEF Layer, ReceiptsTrue
<1>5. Consistent(lg, e, e.receipts, T)
  BY <1>3 DEF Layer, Consistent
<1> QED BY <1>1, <1>2, <1>4, <1>5 DEF Layer

(* An idle transaction is in order when the durable state is.              *)
LEMMA IdleLayer ==
    ASSUME IInv', NEW lg, NEW n, NEW d, NEW T, Layer(lg, n, d, d.receipts, T),
           log' = lg, applied' = n, db' = d, answered' = T, Idle(d)
    PROVE  LInv'
<1>1. /\ pos' = 0 /\ staged' = d /\ outs' = <<>>
      /\ outcomes' = [id \in RequestIds |-> None]
  BY DEF Idle, EmptyOutcomes
<1>2. d \in Dbs /\ n \in Nat
  BY DEF IInv, TypeOK
<1>3. d.receipts \in Receipts
  BY <1>2 DEF Dbs, Receipts
<1>4. Prior' = d.receipts
  <2>1. \A id \in RequestIds : PriorOutcome(id)' = d.receipts[id]
    BY <1>1 DEF PriorOutcome
  <2>2. Prior' = [id \in RequestIds |-> d.receipts[id]]
    BY <2>1 DEF Prior
  <2> QED BY <1>3, <2>2 DEF Receipts
<1>5. Told' = T
  BY <1>1 DEF Told
<1>6. Layer(lg, n + 1, d, d.receipts, T)
  BY <1>2, LayerLater
<1>7. Grows(d, d)
  BY <1>2, GrowsRefl
<1>8. SlotOK'
  BY <1>1 DEF SlotOK
<1>9. CacheOK'
  BY <1>1, <1>4 DEF CacheOK
<1>10. Layer(log, applied, db, db.receipts, answered)'
  BY Zenon DEF Layer
<1>11. Layer(log, applied + 1, staged, Prior, Told)'
  BY <1>1, <1>4, <1>5, <1>6, Zenon
<1>12. Grows(db, staged)'
  BY <1>1, <1>7, Zenon
<1> QED BY <1>8, <1>9, <1>10, <1>11, <1>12 DEF LInv

(* One more answer of the entry being applied.                             *)
LEMMA AnswerTold ==
    ASSUME IInv, Applying, SlotOK, NEW result \in Results, Answer(result)
    PROVE  /\ Told' = Told \cup {<<Request, result>>}
           /\ SlotOK'
           /\ Told \in SUBSET (Requests \X Results)
           /\ UNCHANGED <<log, applied, db, answered>>
<1> DEFINE rs == Entry.requests
<1>1. /\ UNCHANGED <<log, applied, db, answered>> /\ outs' = Append(outs, result)
      /\ pos' = pos + 1 /\ slot' = slot + Len(Request.records)
  BY DEF Answer
<1>2. /\ pos > 0 /\ pos <= Len(rs) /\ pos \in Nat /\ rs \in Seq(Requests) /\ Len(rs) \in Nat
      /\ outs \in Seq(Results) /\ Len(outs) = pos - 1 /\ Request = rs[pos]
  BY EntryFacts DEF Applying, Request
<1>3. Entry' = Entry
  BY <1>1 DEF Entry
<1>4. /\ DOMAIN outs = 1 .. pos - 1 /\ DOMAIN outs' = 1 .. pos
      /\ outs'[pos] = result /\ \A k \in 1 .. pos - 1 : outs'[k] = outs[k]
  <2>1. Len(outs') = pos /\ outs' \in Seq(Results)
    BY <1>1, <1>2
  <2>2. DOMAIN outs = 1 .. Len(outs) /\ DOMAIN outs' = 1 .. Len(outs')
    BY <1>2, <2>1
  <2>3. outs'[Len(outs) + 1] = result /\ \A k \in 1 .. Len(outs) : outs'[k] = outs[k]
    BY <1>1, <1>2
  <2>4. Len(outs) + 1 = pos
    BY <1>2
  <2> QED BY <1>2, <2>1, <2>2, <2>3, <2>4
<1> HIDE DEF rs
<1>5. {<<rs[k], outs'[k]>> : k \in 1 .. pos}
         = {<<rs[k], outs[k]>> : k \in 1 .. pos - 1} \cup {<<rs[pos], result>>}
  <2>1. \A k \in 1 .. pos : k = pos \/ k \in 1 .. pos - 1
    BY <1>2
  <2>2. pos \in 1 .. pos /\ \A k \in 1 .. pos - 1 : k \in 1 .. pos
    BY <1>2
  <2>3. ASSUME NEW x \in {<<rs[k], outs'[k]>> : k \in 1 .. pos}
        PROVE  x \in {<<rs[k], outs[k]>> : k \in 1 .. pos - 1} \cup {<<rs[pos], result>>}
    <3>1. PICK k \in 1 .. pos : x = <<rs[k], outs'[k]>>
      OBVIOUS
    <3>2. CASE k = pos
      BY <1>4, <3>1, <3>2
    <3>3. CASE k \in 1 .. pos - 1
      BY <1>4, <3>1, <3>3
    <3> QED BY <2>1, <3>2, <3>3
  <2>4. ASSUME NEW x \in {<<rs[k], outs[k]>> : k \in 1 .. pos - 1} \cup {<<rs[pos], result>>}
        PROVE  x \in {<<rs[k], outs'[k]>> : k \in 1 .. pos}
    <3>1. CASE x = <<rs[pos], result>>
      BY <1>4, <2>2, <3>1
    <3>2. CASE x \in {<<rs[k], outs[k]>> : k \in 1 .. pos - 1}
      <4>1. PICK k \in 1 .. pos - 1 : x = <<rs[k], outs[k]>>
        BY <3>2
      <4> QED BY <1>4, <2>2, <4>1
    <3> QED BY <3>1, <3>2
  <2> QED BY <2>3, <2>4
<1>6. Told' = answered \cup {<<rs[k], outs'[k]>> : k \in 1 .. pos}
  <2>1. Told' = answered' \cup {<<Entry'.requests[k], outs'[k]>> : k \in DOMAIN outs'}
    BY DEF Told
  <2> QED BY <1>1, <1>3, <1>4, <2>1, Zenon DEF rs
<1>7. Told = answered \cup {<<rs[k], outs[k]>> : k \in 1 .. pos - 1}
  BY <1>4, Zenon DEF Told, rs
<1>8. Told' = Told \cup {<<Request, result>>}
  BY <1>2, <1>5, <1>6, <1>7
<1>9. SlotOK'
  <2>1. slot = Len(FlatOf(rs)[pos - 1]) /\ pos \in 1 .. Len(rs)
    BY <1>2 DEF SlotOK, rs
  <2>2. Len(FlatOf(rs)[pos]) = Len(FlatOf(rs)[pos - 1]) + Len(rs[pos].records)
    BY <1>2, <2>1, SlotPayload
  <2>3. slot' = Len(FlatOf(rs)[pos]) /\ pos' - 1 = pos
    BY <1>1, <1>2, <2>1, <2>2
  <2>4. slot' = Len(FlatOf(Entry'.requests)[pos' - 1])
    BY <1>3, <2>3 DEF rs
  <2> QED BY <2>4 DEF SlotOK
<1>10. Told \in SUBSET (Requests \X Results)
  <2>1. answered \subseteq Requests \X Results
    BY DEF IInv, TypeOK
  <2>2. ASSUME NEW k \in 1 .. pos - 1 PROVE rs[k] \in Requests /\ outs[k] \in Results
    <3>1. k \in 1 .. Len(rs) /\ k \in 1 .. Len(outs)
      BY <1>2
    <3> QED BY <1>2, <3>1
  <2> QED BY <1>7, <2>1, <2>2
<1> QED BY <1>1, <1>8, <1>9, <1>10

(* Returns that write nothing: the answer is a receipt's or not durable.   *)
LEMMA ReturnKeepsLayers ==
    ASSUME IInv, LInv, Applying, NEW result \in Results, ReturnWithoutEffect(result),
           Durable(result) => Prior[IdOf(Request)] = Outcome(Request, result)
    PROVE  LInv'
<1>1. Answer(result) /\ staged' = staged /\ outcomes' = outcomes
  BY DEF ReturnWithoutEffect
<1>2. /\ Told' = Told \cup {<<Request, result>>} /\ SlotOK'
      /\ Told \in SUBSET (Requests \X Results) /\ UNCHANGED <<log, applied, db, answered>>
  BY <1>1, AnswerTold DEF LInv
<1>3. Request \in Requests
  BY ApplyingTypes DEF IInv
<1>4. {<<Request, result>>} \in SUBSET (Requests \X Results)
  BY <1>3
<1>5. \A x \in {<<Request, result>>} : Durable(x[2]) => Prior[IdOf(x[1])] = Outcome(x[1], x[2])
  OBVIOUS
<1>6. Consistent(log, staged, Prior, Told \cup {<<Request, result>>})
  BY <1>2, <1>4, <1>5, Tell DEF LInv, Layer
<1>7. Layer(log, applied + 1, staged, Prior, Told \cup {<<Request, result>>})
  BY <1>6 DEF LInv, Layer
<1>8. Prior' = Prior
  BY <1>1, <1>2 DEF Prior, PriorOutcome
<1>9. Layer(log, applied + 1, staged, Prior, Told)'
  BY <1>1, <1>2, <1>7, <1>8, Zenon
<1>10. Layer(log, applied, db, db.receipts, answered)'
  BY <1>2, Zenon DEF LInv
<1>11. Grows(db, staged)'
  BY <1>1, <1>2, Zenon DEF LInv
<1>12. CacheOK'
  BY <1>1, <1>2, <1>8 DEF LInv, CacheOK
<1> QED BY <1>2, <1>9, <1>10, <1>11, <1>12 DEF LInv

(* A fresh sequence is not the one that leaves the window.                 *)
LEMMA FreshIsKept ==
    ASSUME NEW d \in Dbs, NEW id \in RequestIds, WindowIn(d), ~Closed(d, id)
    PROVE  id \notin Evicted(d, id)
<1> DEFINE old == SessionOf(d, id).retained
           full == Append(old, id.sequence)
<1> SUFFICES ASSUME id \in Evicted(d, id) PROVE FALSE
  OBVIOUS
<1>1. <<id.partition, id.session>> \in Partitions \X Sessions /\ id.sequence \in Sequences_
  BY DEF RequestIds
<1>2. old \in Seq(Sequences_)
  BY <1>1 DEF Dbs, SessionOf
<1>3. WindowOf(old, SessionOf(d, id).highest)
  BY DEF WindowIn
<1>4. Len(full) > ReceiptWindow /\ id = [id EXCEPT !.sequence = Head(full)]
  BY DEF Evicted
<1>5. id.sequence = Head(full)
  <2>1. [id EXCEPT !.sequence = Head(full)].sequence = Head(full)
    BY DEF RequestIds
  <2> QED BY <1>4, <2>1
<1> DEFINE n == Len(old)
<1>6. n \in Nat /\ n > 0 /\ full[1] = old[1] /\ Head(full) = full[1]
  <2>1. ReceiptWindow >= 1 /\ ReceiptWindow \in Nat
    BY ConstantsAssumption
  <2> HIDE DEF old
  <2>2. Len(full) = Len(old) + 1 /\ Len(old) \in Nat /\ full \in Seq(Sequences_)
    BY <1>1, <1>2
  <2>3. Len(old) > 0
    BY <1>4, <2>1, <2>2
  <2> QED BY <1>1, <1>2, <2>2, <2>3
<1>7. old[n] = SessionOf(d, id).highest
  BY <1>3, <1>6 DEF WindowOf
<1>8. 1 \in 1 .. n /\ n \in 1 .. n /\ old[1] \in Nat /\ old[n] \in Nat
  <2>1. 1 \in 1 .. n /\ n \in 1 .. n
    BY <1>6
  <2>2. old[1] \in Sequences_ /\ old[n] \in Sequences_
    BY <1>2, <2>1
  <2> QED BY <2>1, <2>2, ConstantsAssumption
<1>9. old[1] <= old[n]
  <2>1. CASE n = 1
    BY <1>8, <2>1
  <2>2. CASE n # 1
    <3>1. 1 < n
      <4> HIDE DEF n, full, old
      <4> QED BY <1>6, <2>2
    <3>2. old[1] < old[n]
      BY <1>3, <1>8, <3>1 DEF WindowOf, Rising
    <3> QED BY <1>8, <3>2
  <2> QED BY <2>1, <2>2
<1>10. id.sequence <= SessionOf(d, id).highest
  BY <1>5, <1>6, <1>7, <1>9
<1> QED BY <1>10 DEF Closed

(* A decision, be it a publish or a stored rejection.                      *)
LEMMA DecideKeepsLayers ==
    ASSUME IInv, LInv, Fresh, NEW w \in Dbs, NEW result \in Results, Decide(w, result),
           Durable(result), w.sessions = staged.sessions, w.receipts = staged.receipts,
           BookmarksIn(w), Stored(log, applied + 1, Decided(w, Request, result)),
           Grows(staged, Decided(w, Request, result)),
           Holds(log, Decided(w, Request, result), Request, result)
    PROVE  LInv'
<1> DEFINE r == Request
           id == IdOf(r)
           new == Decided(w, r, result)
<1>1. /\ Applying /\ r \in Requests /\ id \in RequestIds /\ staged \in Dbs /\ db \in Dbs
      /\ PriorOutcome(id) = None /\ ~Closed(staged, id)
      /\ r.sequence > SessionOf(staged, id).highest
  BY FreshFacts
<1>2. /\ Answer(result) /\ staged' = new
      /\ outcomes' = [k \in RequestIds |->
                        IF k \in Evicted(w, id) THEN None
                        ELSE IF k = id THEN Outcome(r, result)
                        ELSE outcomes[k]]
  BY DEF Decide, Decided
<1>3. /\ Told' = Told \cup {<<r, result>>} /\ SlotOK'
      /\ Told \in SUBSET (Requests \X Results) /\ UNCHANGED <<log, applied, db, answered>>
  BY <1>1, <1>2, AnswerTold DEF LInv
<1>4. WindowIn(w) /\ SessionOf(w, id) = SessionOf(staged, id)
  BY DEF LInv, Layer, WindowIn, SessionOf
<1>5. /\ new \in Dbs /\ SameBookmarks(w, new)
      /\ new.receipts = [k \in RequestIds |-> IF k \in Evicted(w, id) THEN None
                                              ELSE IF k = id THEN Outcome(r, result)
                                              ELSE w.receipts[k]]
  BY <1>1, DecidedFacts
<1>6. WindowIn(new)
  BY <1>1, <1>4, DecidedKeepsWindow
<1>7. BookmarksIn(new)
  BY <1>5, SameBookmarksIn
<1> HIDE DEF new, id
<1>8. id \notin Evicted(w, id) /\ Outcome(r, result) # None
  <2>1. ~Closed(w, id)
    BY <1>1, <1>4 DEF Closed
  <2> QED BY <1>1, <1>4, <2>1, FreshIsKept, OutcomeIsPresent
<1>9. /\ Prior \in Receipts
      /\ \A k \in RequestIds :
            Prior[k] = IF outcomes[k] # None THEN outcomes[k] ELSE db.receipts[k]
      /\ \A k \in RequestIds : outcomes[k] # None => db.receipts[k] = None
      /\ \A k \in RequestIds : staged.receipts[k] # None => staged.receipts[k] = Prior[k]
  BY PriorTypes DEF LInv, CacheOK
<1>10. /\ outcomes[id] = None /\ db.receipts[id] = None
  BY <1>1 DEF PriorOutcome
<1>11. \A k \in RequestIds :
          Prior'[k] = IF outcomes'[k] # None THEN outcomes'[k] ELSE db.receipts[k]
  BY <1>3 DEF Prior, PriorOutcome
<1>12. /\ Prior'[id] = Outcome(r, result)
       /\ \A k \in RequestIds : k # id => (Prior'[k] = Prior[k] \/ Prior'[k] = None)
  <2>1. Prior'[id] = Outcome(r, result)
    BY <1>1, <1>2, <1>8, <1>11
  <2>2. ASSUME NEW k \in RequestIds, k # id PROVE Prior'[k] = Prior[k] \/ Prior'[k] = None
    <3>1. outcomes'[k] = IF k \in Evicted(w, id) THEN None ELSE outcomes[k]
      BY <1>2, <2>2
    <3> QED BY <1>9, <1>11, <3>1
  <2> QED BY <2>1, <2>2
<1>13. Prior' \in Receipts
  <2>1. \A k \in RequestIds : Prior'[k] \in Outcomes \cup {None}
    <3>1. \A k \in RequestIds : Prior[k] \in Outcomes \cup {None}
      BY <1>9 DEF Receipts
    <3>2. Outcome(r, result) \in Outcomes
      BY <1>1, OutcomeIsPresent
    <3> QED BY <1>12, <3>1, <3>2
  <2>2. Prior' = [k \in RequestIds |-> Prior'[k]]
    BY DEF Prior
  <2> QED BY <2>1, <2>2 DEF Receipts
<1>14. /\ ReceiptsTrue(log, new, Prior')
       /\ Consistent(log, new, Prior', Told \cup {<<r, result>>})
  <2>1. ReceiptsTrue(log, staged, Prior) /\ Consistent(log, staged, Prior, Told)
    BY DEF LInv, Layer
  <2>2. /\ Grows(staged, new) /\ ~Closed(staged, IdOf(r)) /\ Holds(log, new, r, result)
        /\ Prior'[IdOf(r)] = Outcome(r, result)
        /\ \A k \in RequestIds : k # IdOf(r) => (Prior'[k] = Prior[k] \/ Prior'[k] = None)
    BY <1>1, <1>12 DEF id, new
  <2> HIDE DEF r
  <2> QED BY <1>1, <1>3, <1>5, <1>9, <1>13, <2>1, <2>2, TellDecision
<1>15. Layer(log, applied + 1, staged, Prior, Told)'
  <2>1. Stored(log, applied + 1, new)
    BY DEF new
  <2>2. Layer(log, applied + 1, new, Prior', Told \cup {<<r, result>>})
    BY <1>6, <1>7, <1>14, <2>1 DEF Layer
  <2> QED BY <1>2, <1>3, <2>2, Zenon
<1>16. Layer(log, applied, db, db.receipts, answered)'
  BY <1>3, Zenon DEF LInv
<1>17. Grows(db, staged)'
  <2>1. Grows(db, staged) /\ Grows(staged, new)
    BY DEF LInv, new
  <2>2. Grows(db, new)
    BY <1>1, <1>5, <2>1, GrowsTrans
  <2> QED BY <1>2, <1>3, <2>2, Zenon
<1>18. CacheOK'
  <2> SUFFICES ASSUME NEW k \in RequestIds
               PROVE  /\ outcomes'[k] # None => db'.receipts[k] = None
                      /\ staged'.receipts[k] # None => staged'.receipts[k] = Prior'[k]
    BY DEF CacheOK
  <2>1. CASE k = id
    BY <1>2, <1>3, <1>5, <1>8, <1>10, <1>12, <2>1
  <2>2. CASE k # id
    <3>1. outcomes'[k] = IF k \in Evicted(w, id) THEN None ELSE outcomes[k]
      BY <1>2, <2>2
    <3>2. staged'.receipts[k] = IF k \in Evicted(w, id) THEN None ELSE staged.receipts[k]
      BY <1>2, <1>5, <2>2
    <3> QED BY <1>3, <1>9, <1>11, <3>1, <3>2
  <2> QED BY <2>1, <2>2
<1> QED BY <1>3, <1>15, <1>16, <1>17, <1>18 DEF LInv

(* Stored rejections are durable, and no other failure is.                 *)
LEMMA FailedDurable ==
    /\ \A e \in StoredErrors : /\ Failed(e) \in Results /\ Durable(Failed(e))
                               /\ ~Failed(e).ok
    /\ \A e \in {"IdentityMismatch", "ReceiptConflict", "ReceiptExpired", "ExportInProgress",
                 "Storage"} : Failed(e) \in Results /\ ~Durable(Failed(e))
<1>1. \A e \in StoredErrors : Failed(e) \in Results
  BY DEF Failed, Results
<1>2. \A e : Failed(e).error = e /\ Failed(e).ok = FALSE
  BY DEF Failed
<1>3. \A e \in StoredErrors : Durable(Failed(e)) /\ ~Failed(e).ok
  BY <1>2 DEF Durable
<1>4. \A e \in {"IdentityMismatch", "ReceiptConflict", "ReceiptExpired", "ExportInProgress",
                "Storage"} : e \notin StoredErrors
  BY DEF StoredErrors
<1>5. \A e \in {"IdentityMismatch", "ReceiptConflict", "ReceiptExpired", "ExportInProgress",
                "Storage"} : ~Durable(Failed(e))
  BY <1>2, <1>4 DEF Durable
<1> QED BY <1>1, <1>3, <1>5, FailedTypes

(* A receipt answers its own request and refuses any other.                *)
LEMMA ReplayTells ==
    ASSUME NEW rc \in Receipts, NEW r \in Requests, rc[IdOf(r)] # None
    PROVE  /\ Replay(rc[IdOf(r)], r) \in Results
           /\ Durable(Replay(rc[IdOf(r)], r)) =>
                 rc[IdOf(r)] = Outcome(r, Replay(rc[IdOf(r)], r))
<1> DEFINE s == rc[IdOf(r)]
<1>1. s \in Outcomes /\ s = Outcome(s.request, s.result)
  BY IdOfType, OutcomeFields
<1> HIDE DEF s
<1>2. Replay(s, r) \in Results
  BY <1>1, ReplayType
<1>3. CASE s.request = r
  <2>1. Replay(s, r) = s.result
    BY <1>3 DEF Replay
  <2> QED BY <1>1, <1>2, <1>3, <2>1 DEF s
<1>4. CASE s.request # r
  <2>1. Replay(s, r) = Failed("ReceiptConflict")
    BY <1>4 DEF Replay
  <2> QED BY <1>2, <2>1, FailedDurable DEF s
<1> QED BY <1>3, <1>4

(* Every return of apply_one keeps both layers.                            *)
LEMMA ApplyOneKeepsLayers ==
    ASSUME IInv, LInv, ApplyOne
    PROVE  LInv'
<1>1. CASE ForeignCluster
  BY <1>1, FailedDurable, ReturnKeepsLayers DEF ForeignCluster
<1>2. CASE ReplayReceipt
  <2>1. /\ Applying /\ PriorOutcome(IdOf(Request)) # None
        /\ ReturnWithoutEffect(Replay(PriorOutcome(IdOf(Request)), Request))
    BY <1>2 DEF ReplayReceipt
  <2>2. Request \in Requests /\ IdOf(Request) \in RequestIds
    BY <2>1, ApplyingTypes, IdOfType DEF IInv
  <2>3. Prior[IdOf(Request)] = PriorOutcome(IdOf(Request)) /\ Prior \in Receipts
    BY <2>2, PriorTypes DEF Prior
  <2>4. /\ Replay(Prior[IdOf(Request)], Request) \in Results
        /\ Durable(Replay(Prior[IdOf(Request)], Request)) =>
              Prior[IdOf(Request)] = Outcome(Request, Replay(Prior[IdOf(Request)], Request))
    BY <2>1, <2>2, <2>3, ReplayTells
  <2> QED BY <2>1, <2>3, <2>4, ReturnKeepsLayers
<1>3. CASE RejectExpired
  BY <1>3, FailedDurable, ReturnKeepsLayers DEF RejectExpired, Unseen
<1>4. ASSUME NEW e \in StoredErrors, Fresh, Decide(staged, Failed(e))
      PROVE  LInv'
  <2>1. Failed(e) \in Results /\ Durable(Failed(e)) /\ ~Failed(e).ok
    BY FailedDurable
  <2>2. staged \in Dbs /\ BookmarksIn(staged) /\ Stored(log, applied + 1, staged)
    BY DEF IInv, TypeOK, LInv, Layer
  <2>3. /\ Stored(log, applied + 1, Decided(staged, Request, Failed(e)))
        /\ Grows(staged, Decided(staged, Request, Failed(e)))
        /\ Holds(log, Decided(staged, Request, Failed(e)), Request, Failed(e))
    BY <1>4, <2>1, <2>2, RejectStored
  <2> QED BY <1>4, <2>1, <2>2, <2>3, DecideKeepsLayers
<1>5. "BookmarkNameConflict" \in StoredErrors /\ "InvalidRange" \in StoredErrors
      /\ "ByteOverflow" \in StoredErrors
  BY DEF StoredErrors
<1>6. CASE RejectBookmarkName \/ RejectRange \/ RejectBytes \/ RejectBookmarkId
  BY <1>4, <1>5, <1>6 DEF RejectBookmarkName, RejectRange, RejectBytes, RejectBookmarkId
<1>7. CASE Publish
  <2>1. PICK w, result : /\ Staging(w, result) /\ Decide(w, result)
                         /\ BookmarksIn(staged) => BookmarksIn(w)
    BY <1>7, PublishFacts
  <2>2. Fresh
    BY <1>7 DEF Publish
  <2>3. /\ w \in Dbs /\ result \in Results /\ w.sessions = staged.sessions
        /\ w.receipts = staged.receipts /\ Durable(result)
    BY <2>1 DEF Staging, Durable
  <2>4. BookmarksIn(w) /\ Stored(log, applied + 1, staged) /\ SlotOK
    BY <2>1 DEF LInv, Layer
  <2>5. /\ Stored(log, applied + 1, Decided(w, Request, result))
        /\ Grows(staged, Decided(w, Request, result))
        /\ Holds(log, Decided(w, Request, result), Request, result)
    BY <2>1, <2>2, <2>4, PublishStored
  <2> QED BY <2>1, <2>2, <2>3, <2>4, <2>5, DecideKeepsLayers
<1> QED BY <1>1, <1>2, <1>3, <1>6, <1>7 DEF ApplyOne

(* Raft appends behind every entry a record can refer to.                  *)
LEMMA CommitKeepsLayers ==
    ASSUME IInv, IInv', LInv, Commit
    PROVE  LInv'
<1>1. PICK c \in Commands : log' = Append(log, c)
  BY DEF Commit
<1>2. UNCHANGED <<applied, db, pos, slot, staged, outcomes, outs, answered>>
  BY DEF Commit, txn
<1>3. /\ log \in Seq(Commands) /\ applied \in 0 .. Len(log) /\ applied \in Nat /\ db \in Dbs
      /\ staged \in Dbs /\ answered \in SUBSET (Requests \X Results) /\ Len(log) \in Nat
  BY DEF IInv, TypeOK
<1>4. ASSUME NEW n \in 0 .. Len(log) PROVE SameUpTo(log, log', n)
  BY <1>1, <1>3 DEF SameUpTo
<1>5. db.receipts \in Receipts /\ Prior \in Receipts
  BY PriorTypes
<1>6. Layer(log', applied, db, db.receipts, answered)
  BY <1>3, <1>4, <1>5, LayerLonger DEF LInv
<1>7. CASE pos = 0
  <2>1. /\ Idle(db) /\ applied' = applied /\ db' = db /\ answered' = answered
    BY <1>2, <1>7 DEF Idle, IInv, TxnOK
  <2> QED BY <1>6, <2>1, IdleLayer
<1>8. CASE pos # 0
  <2>1. pos > 0
    BY <1>8 DEF IInv, TypeOK
  <2>2. /\ applied + 1 \in 1 .. Len(log) /\ applied + 1 \in 0 .. Len(log) /\ applied + 1 \in Nat
        /\ Entry.requests \in Seq(Requests) /\ pos <= Len(Entry.requests) + 1
        /\ outs \in Seq(Results) /\ Len(outs) = pos - 1 /\ Len(Entry.requests) \in Nat
        /\ pos \in Nat
    BY <2>1, EntryFacts
  <2>3. log'[applied + 1] = log[applied + 1]
    BY <1>4, <2>2 DEF SameUpTo
  <2>4. Entry' = Entry
    BY <1>2, <2>3 DEF Entry
  <2>5. Prior' = Prior
    BY <1>2 DEF Prior, PriorOutcome
  <2>6. Told' = Told
    BY <1>2, <2>4 DEF Told
  <2>7. Told \in SUBSET (Requests \X Results)
    <3>1. ASSUME NEW k \in DOMAIN outs PROVE Entry.requests[k] \in Requests /\ outs[k] \in Results
      <4>1. k \in 1 .. Len(outs) /\ k \in 1 .. Len(Entry.requests)
        BY <2>2
      <4> QED BY <2>2, <4>1
    <3> QED BY <1>3, <3>1 DEF Told
  <2>8. Layer(log', applied + 1, staged, Prior, Told)
    BY <1>3, <1>4, <1>5, <2>2, <2>7, LayerLonger DEF LInv
  <2>9. SlotOK'
    BY <1>2, <2>4 DEF LInv, SlotOK
  <2>10. CacheOK'
    BY <1>2, <2>5 DEF LInv, CacheOK
  <2>11. Layer(log, applied, db, db.receipts, answered)'
    BY <1>2, <1>6, Zenon
  <2>12. Layer(log, applied + 1, staged, Prior, Told)'
    BY <1>2, <2>5, <2>6, <2>8, Zenon
  <2>13. Grows(db, staged)'
    BY <1>2, Zenon DEF LInv
  <2> QED BY <2>9, <2>10, <2>11, <2>12, <2>13 DEF LInv
<1> QED BY <1>7, <1>8

(* A batch starts with the first slot of its entry.                        *)
LEMMA BeginKeepsLayers ==
    ASSUME IInv, LInv, BeginPublishMany
    PROVE  LInv'
<1>1. /\ pos = 0 /\ applied < Len(log) /\ Entry.type = "PublishMany" /\ pos' = 1
      /\ UNCHANGED <<log, applied, db, slot, staged, outcomes, outs, answered>>
  BY DEF BeginPublishMany, Ready
<1>2. /\ slot = 0 /\ Entry \in Commands
  BY <1>1 DEF IInv, TypeOK, TxnOK, Entry
<1>3. Entry.requests \in Seq(Requests)
  BY <1>1, <1>2, CommandShapes
<1>4. Entry' = Entry /\ Prior' = Prior
  BY <1>1 DEF Entry, Prior, PriorOutcome
<1>5. Told' = Told
  BY <1>1, <1>4 DEF Told
<1>6. SlotOK'
  <2>1. FlatOf(Entry.requests)[0] = <<>>
    BY <1>3, FlatIs DEF IsFlat
  <2>2. Len(FlatOf(Entry.requests)[0]) = 0 /\ pos' - 1 = 0
    BY <1>1, <2>1
  <2>3. slot' = Len(FlatOf(Entry'.requests)[pos' - 1])
    BY <1>1, <1>2, <1>4, <2>2
  <2> QED BY <2>3 DEF SlotOK
<1>7. CacheOK'
  BY <1>1, <1>4 DEF LInv, CacheOK
<1>8. Layer(log, applied, db, db.receipts, answered)'
  BY <1>1, Zenon DEF LInv
<1>9. Layer(log, applied + 1, staged, Prior, Told)'
  BY <1>1, <1>4, <1>5, Zenon DEF LInv
<1>10. Grows(db, staged)'
  BY <1>1, Zenon DEF LInv
<1> QED BY <1>6, <1>7, <1>8, <1>9, <1>10 DEF LInv

(* The batch becomes durable and its answers are sent.                     *)
LEMMA CommitPublishManyKeepsLayers ==
    ASSUME IInv, IInv', LInv, CommitPublishMany
    PROVE  LInv'
<1>1. /\ pos > 0 /\ pos > Len(Entry.requests)
      /\ db' = staged /\ applied' = applied + 1 /\ log' = log /\ Idle(staged)
      /\ answered' = answered \cup CompleteResponse(Entry.requests, PublishedMany(outs))
  BY DEF CommitPublishMany
<1>2. /\ Entry.requests \in Seq(Requests) /\ Len(Entry.requests) \in Nat /\ pos \in Nat
      /\ pos <= Len(Entry.requests) + 1 /\ outs \in Seq(Results) /\ Len(outs) = pos - 1
  BY <1>1, EntryFacts
<1>3. DOMAIN outs = DOMAIN Entry.requests
  <2>1. Len(outs) = Len(Entry.requests)
    BY <1>1, <1>2
  <2> QED BY <1>2, <2>1
<1>4. CompleteResponse(Entry.requests, PublishedMany(outs))
        = {<<Entry.requests[k], outs[k]>> : k \in DOMAIN outs}
  BY <1>3 DEF CompleteResponse, PublishedMany
<1>5. answered' = Told
  BY <1>1, <1>4 DEF Told
<1>6. Told \in SUBSET (Requests \X Results)
  BY <1>5 DEF IInv, TypeOK
<1>7. Prior \in Receipts /\ staged.receipts \in Receipts
  BY PriorTypes
<1>8. \A k \in RequestIds : staged.receipts[k] # None => staged.receipts[k] = Prior[k]
  BY DEF LInv, CacheOK
<1>9. Layer(log, applied + 1, staged, Prior, Told)
  BY DEF LInv
<1>10. ReceiptsTrue(log, staged, staged.receipts) /\ Consistent(log, staged, staged.receipts, Told)
  BY <1>6, <1>7, <1>8, <1>9, FewerReceipts DEF Layer
<1>11. Layer(log, applied + 1, staged, staged.receipts, Told)
  BY <1>9, <1>10 DEF Layer
<1> QED BY <1>1, <1>5, <1>11, IdleLayer

(* Under the fence a batch is answered from durable receipts.              *)
LEMMA FencedKeepsLayers ==
    ASSUME IInv, IInv', LInv, FencedPublishMany
    PROVE  LInv'
<1> DEFINE rs == Entry.requests
           N == CompleteResponse(rs, ReplayPublishMany(rs))
           items == [k \in DOMAIN rs |-> FencedOutcome(rs[k])]
<1>1. /\ pos = 0 /\ applied < Len(log) /\ Entry.type = "PublishMany"
      /\ applied' = applied + 1 /\ answered' = answered \cup N
      /\ UNCHANGED <<log, db, pos, slot, staged, outcomes, outs>>
  BY DEF FencedPublishMany, Ready, txn
<1>2. /\ log \in Seq(Commands) /\ applied \in 0 .. Len(log) /\ applied \in Nat /\ db \in Dbs
      /\ answered \in SUBSET (Requests \X Results)
  BY DEF IInv, TypeOK
<1>3. Entry \in Commands
  BY <1>1, <1>2 DEF Entry
<1>4. rs \in Seq(Requests)
  BY <1>1, <1>3, CommandShapes
<1>5. db.receipts \in Receipts
  BY PriorTypes
<1>6. N \in SUBSET (Requests \X Results)
  BY <1>1 DEF IInv, TypeOK
<1>7. ASSUME NEW k \in DOMAIN rs
      PROVE  Durable(FencedOutcome(rs[k])) =>
                db.receipts[IdOf(rs[k])] = Outcome(rs[k], FencedOutcome(rs[k]))
  <2>1. rs[k] \in Requests
    BY <1>4
  <2>2. CASE db.receipts[IdOf(rs[k])] # None
    <3>1. FencedOutcome(rs[k]) = Replay(db.receipts[IdOf(rs[k])], rs[k])
      BY <2>2 DEF FencedOutcome
    <3> HIDE DEF rs
    <3> QED BY <1>5, <2>1, <2>2, <3>1, ReplayTells
  <2>3. CASE db.receipts[IdOf(rs[k])] = None
    <3>1. FencedOutcome(rs[k]) \in {Failed("ReceiptExpired"), Failed("ExportInProgress")}
      BY <2>3 DEF FencedOutcome
    <3>2. ~Durable(Failed("ReceiptExpired")) /\ ~Durable(Failed("ExportInProgress"))
      BY FailedDurable
    <3> QED BY <3>1, <3>2
  <2> QED BY <2>2, <2>3
<1>8. ASSUME NEW x \in N, Durable(x[2]) PROVE db.receipts[IdOf(x[1])] = Outcome(x[1], x[2])
  <2>1. PICK k \in DOMAIN rs :
           x = <<rs[k], IF ReplayPublishMany(rs).kind = "PublishedMany"
                          THEN ReplayPublishMany(rs).items[k] ELSE Failed("Storage")>>
    BY DEF CompleteResponse
  <2>2. CASE \E j \in DOMAIN items : items[j] # Failed("ExportInProgress")
    <3>1. ReplayPublishMany(rs) = PublishedMany(items)
      BY <2>2 DEF ReplayPublishMany
    <3>2. x = <<rs[k], FencedOutcome(rs[k])>>
      <4>1. PublishedMany(items).kind = "PublishedMany" /\ PublishedMany(items).items = items
        BY DEF PublishedMany
      <4>2. items[k] = FencedOutcome(rs[k])
        OBVIOUS
      <4> HIDE DEF items
      <4> QED BY <2>1, <3>1, <4>1, <4>2
    <3> QED BY <1>7, <1>8, <3>2
  <2>3. CASE ~\E j \in DOMAIN items : items[j] # Failed("ExportInProgress")
    <3>1. ReplayPublishMany(rs) = Rejected("ExportInProgress")
      BY <2>3 DEF ReplayPublishMany
    <3>2. Rejected("ExportInProgress").kind # "PublishedMany"
      BY DEF Rejected
    <3>3. x[2] = Failed("Storage")
      BY <2>1, <3>1, <3>2
    <3> QED BY <1>8, <3>3, FailedDurable
  <2> QED BY <2>2, <2>3
<1> HIDE DEF N
<1>9. Layer(log, applied, db, db.receipts, answered)
  BY DEF LInv
<1>10. Consistent(log, db, db.receipts, answered \cup N)
  BY <1>2, <1>6, <1>8, <1>9, Tell DEF Layer
<1>11. Layer(log, applied, db, db.receipts, answered \cup N)
  BY <1>9, <1>10 DEF Layer
<1>12. Layer(log, applied + 1, db, db.receipts, answered \cup N)
  BY <1>2, <1>11, LayerLater
<1>13. Idle(db)
  BY <1>1 DEF Idle, IInv, TxnOK
<1> QED BY <1>1, <1>12, <1>13, IdleLayer

(* Bookmark and fence entries keep the bookmark indexes together and leave *)
(* everything else alone.                                                  *)
LEMMA WriteEntryKeepsLayers ==
    ASSUME IInv, IInv', LInv, NEW w \in Dbs, WriteEntry(w), BookmarksIn(w),
           w.records = db.records, w.next = db.next, w.sessions = db.sessions,
           w.receipts = db.receipts
    PROVE  LInv'
<1>1. /\ db' = w /\ applied' = applied + 1 /\ log' = log /\ Idle(w) /\ answered' = answered
  BY DEF WriteEntry
<1>2. db \in Dbs /\ applied \in Nat
  BY DEF IInv, TypeOK
<1>3. Layer(log, applied, db, db.receipts, answered)
  BY DEF LInv
<1>4. Layer(log, applied, w, w.receipts, answered)
  BY <1>2, <1>3, LayerSame
<1>5. Layer(log, applied + 1, w, w.receipts, answered)
  BY <1>2, <1>4, LayerLater
<1> QED BY <1>1, <1>5, IdleLayer

LEMMA BookmarkAndFenceKeepLayers ==
    ASSUME IInv, IInv', LInv, CreateBookmark \/ DeleteBookmark \/ SetFence
    PROVE  LInv'
<1>1. /\ db \in Dbs /\ log \in Seq(Commands) /\ applied \in 0 .. Len(log) /\ BookmarksIn(db)
  BY DEF IInv, TypeOK, LInv, Layer
<1>2. Ready => Entry \in Commands
  BY <1>1 DEF Ready, Entry
<1>3. WriteEntry(db) => LInv'
  BY <1>1, WriteEntryKeepsLayers
<1>4. CASE CreateBookmark
  <2> DEFINE b == Bookmark(Entry.id, Entry.partition, Entry.name, Entry.offset,
                           db.publication[Entry.partition] + 1)
  <2>1. Ready /\ Entry.type = "CreateBookmark"
    BY <1>4 DEF CreateBookmark
  <2>2. CASE ~db.fence /\ CanCreateBookmark(Entry)
    <3>1. WriteEntry(PutBookmark(db, b))
      BY <1>4, <2>2 DEF CreateBookmark
    <3>2. /\ Entry.id \in AllBookmarkIds /\ Entry.partition \in Partitions
          /\ Entry.name \in Names /\ Entry.offset \in Nat
      BY <1>2, <2>1, CommandShapes DEF AllBookmarkIds
    <3>3. db.publication[Entry.partition] + 1 \in Nat
      BY <1>1, <3>2 DEF Dbs
    <3>4. /\ b \in BookmarkRecords /\ ~b.deleted /\ b.id = Entry.id
          /\ b.partition = Entry.partition /\ b.name = Entry.name
          /\ b.publication = db.publication[b.partition] + 1
      BY <3>2, <3>3 DEF Bookmark, BookmarkRecords
    <3>5. db.bookmarks[b.id] = None /\ db.names[<<b.partition, b.name>>] = None
      BY <2>2, <3>4 DEF CanCreateBookmark
    <3> HIDE DEF b
    <3>6. /\ PutBookmark(db, b) \in Dbs
          /\ PutBookmark(db, b).records = db.records
          /\ PutBookmark(db, b).sessions = db.sessions
          /\ PutBookmark(db, b).next = db.next
      BY <1>1, <3>4, PutBookmarkType
    <3>7. PutBookmark(db, b).receipts = db.receipts
      BY <1>1 DEF PutBookmark, Dbs
    <3>8. BookmarksIn(PutBookmark(db, b))
      BY <1>1, <3>4, <3>5, PutBookmarkKeepsIndexes
    <3> QED BY <3>1, <3>6, <3>7, <3>8, WriteEntryKeepsLayers
  <2>3. CASE ~(~db.fence /\ CanCreateBookmark(Entry))
    <3>1. WriteEntry(db)
      BY <1>4, <2>3 DEF CreateBookmark
    <3> QED BY <1>3, <3>1
  <2> QED BY <2>2, <2>3
<1>5. CASE DeleteBookmark
  <2> DEFINE b == db.bookmarks[Entry.id]
             w == RemoveBookmark(db, b)
  <2>1. Ready /\ Entry.type = "DeleteBookmark"
    BY <1>5 DEF DeleteBookmark
  <2>2. Entry.id \in AllBookmarkIds
    BY <1>2, <2>1, CommandShapes
  <2>3. CASE ~db.fence /\ CanDeleteBookmark(Entry)
    <3>1. WriteEntry(w)
      BY <1>5, <2>3 DEF DeleteBookmark
    <3>2. Live(db, Entry.id)
      BY <2>3 DEF CanDeleteBookmark, Live
    <3>3. b \in BookmarkRecords
      BY <1>1, <2>2, <3>2, BookmarkFields DEF Live
    <3>4. BookmarksIn(w)
      BY <1>1, <2>2, <3>2, RemoveBookmarkKeepsIndexes
    <3> HIDE DEF b
    <3>5. w \in Dbs /\ w.records = db.records /\ w.sessions = db.sessions
      BY <1>1, <3>3, RemoveBookmarkType
    <3>6. w.receipts = db.receipts /\ w.next = db.next
      BY <1>1 DEF RemoveBookmark, Dbs
    <3> HIDE DEF w
    <3> QED BY <3>1, <3>4, <3>5, <3>6, WriteEntryKeepsLayers
  <2>4. CASE ~(~db.fence /\ CanDeleteBookmark(Entry))
    <3>1. WriteEntry(db)
      BY <1>5, <2>4 DEF DeleteBookmark
    <3> QED BY <1>3, <3>1
  <2> QED BY <2>3, <2>4
<1>6. CASE SetFence
  <2> DEFINE w == [db EXCEPT !.fence = (Entry.type = "AcquireFence")]
  <2>1. WriteEntry(w)
    BY <1>6 DEF SetFence
  <2>2. /\ w \in Dbs /\ w.records = db.records /\ w.sessions = db.sessions
        /\ w.receipts = db.receipts /\ w.next = db.next /\ SameBookmarks(db, w)
    BY <1>1 DEF Dbs, SameBookmarks
  <2> HIDE DEF w
  <2>3. BookmarksIn(w)
    BY <1>1, <2>2, SameBookmarksIn
  <2> QED BY <2>1, <2>2, <2>3, WriteEntryKeepsLayers
<1> QED BY <1>4, <1>5, <1>6

LEMMA CrashKeepsLayers ==
    ASSUME IInv, IInv', LInv, Crash
    PROVE  LInv'
<1>1. Idle(db) /\ UNCHANGED <<log, applied, db, answered>>
  BY DEF Crash
<1>2. Layer(log, applied, db, db.receipts, answered)
  BY DEF LInv
<1> QED BY <1>1, <1>2, IdleLayer

(* An empty group is in order.                                             *)
LEMMA InitLayers == Init => LInv
<1> SUFFICES ASSUME Init PROVE LInv
  OBVIOUS
<1>1. IInv
  BY InitInv
<1>2. /\ log = <<>> /\ applied = 0 /\ db = InitialDb /\ pos = 0 /\ slot = 0
      /\ staged = InitialDb /\ outcomes = EmptyOutcomes /\ outs = <<>> /\ answered = {}
  BY DEF Init
<1>3. InitialDb \in Dbs
  BY <1>1, <1>2 DEF IInv, TypeOK
<1>4. \A p \in Partitions : /\ InitialDb.next[p] = 0
                            /\ \A o \in Offsets : RecordAt(InitialDb, p, o) = None
  BY DEF InitialDb, RecordAt, Offsets
<1>5. Stored(<<>>, 0, InitialDb)
  <2>1. \A o \in Offsets : ~(o < 0)
    BY ConstantsAssumption DEF Offsets
  <2>2. Dense(InitialDb)
    BY <1>4, <2>1 DEF Dense
  <2> QED BY <1>4, <2>2 DEF Stored, EntriesIn, Carried
<1>6. WindowIn(InitialDb)
  <2>1. \A x : ~Has(<<>>, x) /\ WindowOf(<<>>, x)
    BY ConstantsAssumption DEF Has, WindowOf, Rising
  <2>2. ASSUME NEW id \in RequestIds
        PROVE  InitialDb.receipts[id] = None /\ SessionOf(InitialDb, id).retained = <<>>
    <3>1. <<id.partition, id.session>> \in Partitions \X Sessions
      BY DEF RequestIds
    <3> QED BY <3>1 DEF InitialDb, EmptyOutcomes, SessionOf, NoSession
  <2> QED BY <2>1, <2>2, Zenon DEF WindowIn
<1>7. BookmarksIn(InitialDb)
  <2>1. /\ \A id \in AllBookmarkIds : InitialDb.bookmarks[id] = None
        /\ \A p \in Partitions, n \in Names : InitialDb.names[<<p, n>>] = None
        /\ \A p \in Partitions : InitialDb.order[p] = {}
    BY DEF InitialDb
  <2>2. \A id \in AllBookmarkIds : id # None
    BY NoneAssumption
  <2> QED BY <2>1, <2>2 DEF BookmarksIn, Numbered, Named, Ordered, Distinct, Live
<1>8. \A id \in RequestIds : InitialDb.receipts[id] = None
  BY DEF InitialDb, EmptyOutcomes
<1>9. Layer(<<>>, 0, InitialDb, InitialDb.receipts, {})
  BY <1>5, <1>6, <1>7, <1>8 DEF Layer, ReceiptsTrue, Consistent
<1>10. Prior = InitialDb.receipts
  BY <1>2 DEF Prior, PriorOutcome, InitialDb, EmptyOutcomes
<1>11. Told = {}
  BY <1>2 DEF Told
<1>12. Layer(<<>>, 0 + 1, InitialDb, InitialDb.receipts, {})
  BY <1>3, <1>9, LayerLater
<1>13. Grows(InitialDb, InitialDb)
  BY <1>3, GrowsRefl
<1>14. SlotOK /\ CacheOK
  BY <1>2, <1>8 DEF SlotOK, CacheOK, EmptyOutcomes
<1> QED BY <1>2, <1>9, <1>10, <1>11, <1>12, <1>13, <1>14, Zenon DEF LInv

(* Together the two invariants are inductive.                              *)
LEMMA NextKeepsLayers == IInv /\ LInv /\ [Next]_vars => LInv'
<1> SUFFICES ASSUME IInv, LInv, [Next]_vars PROVE LInv'
  OBVIOUS
<1>1. IInv'
  BY NextKeepsInv
<1>2. CASE UNCHANGED vars
  <2>1. UNCHANGED <<log, applied, db, pos, slot, staged, outcomes, outs, answered>>
    BY <1>2 DEF vars
  <2>2. Entry' = Entry /\ Prior' = Prior
    BY <2>1 DEF Entry, Prior, PriorOutcome
  <2>3. Told' = Told /\ SlotOK' /\ CacheOK'
    BY <2>1, <2>2 DEF Told, LInv, SlotOK, CacheOK
  <2>4. Layer(log, applied, db, db.receipts, answered)'
    BY <2>1, Zenon DEF LInv
  <2>5. Layer(log, applied + 1, staged, Prior, Told)'
    BY <2>1, <2>2, <2>3, Zenon DEF LInv
  <2>6. Grows(db, staged)'
    BY <2>1, Zenon DEF LInv
  <2> QED BY <2>3, <2>4, <2>5, <2>6 DEF LInv
<1>3. CASE Next
  BY <1>1, <1>3, CommitKeepsLayers, BeginKeepsLayers, ApplyOneKeepsLayers,
     CommitPublishManyKeepsLayers, FencedKeepsLayers, BookmarkAndFenceKeepLayers,
     CrashKeepsLayers DEF Next
<1> QED BY <1>2, <1>3

-----------------------------------------------------------------------------
(* What was told and what is indexed.                                      *)

(* Every durable answer stays the truth, for every request and every       *)
(* receipt window: the same answer however often the request is retried,   *)
(* and the range it names holds exactly its records (store_outcome,        *)
(* apply_one, replay_publish_many, advance_session).                       *)
THEOREM AnswersAlwaysStayTrue == Spec => []AnswersStayTrue
<1>1. IInv /\ LInv => AnswersStayTrue
  <2> SUFFICES ASSUME IInv, LInv PROVE AnswersStayTrue
    OBVIOUS
  <2>1. Consistent(log, db, db.receipts, answered) /\ answered \subseteq Requests \X Results
    BY DEF LInv, Layer, IInv, TypeOK
  <2>2. \A x, y \in answered :
           (x[1] = y[1] /\ Durable(x[2]) /\ Durable(y[2])) => x[2] = y[2]
    BY <2>1 DEF Consistent
  <2>3. ASSUME NEW x \in answered, Durable(x[2]), NEW o \in 0 .. MaxOffset - 1
        PROVE  Mine(db, x[1], o) <=>
                  (x[2].ok /\ o \in x[2].first .. x[2].first + x[2].count - 1)
    <3>1. Holds(log, db, x[1], x[2]) /\ x[2] \in Results
      BY <2>1, <2>3 DEF Consistent
    <3>2. x[2].ok \in BOOLEAN
      BY <3>1 DEF Results
    <3>3. CASE x[2].ok
      BY <3>1, <3>3 DEF Holds, Lies, Offsets
    <3>4. CASE ~x[2].ok
      BY <3>1, <3>4 DEF Holds, Absent, Offsets
    <3> QED BY <3>2, <3>3, <3>4
  <2> QED BY <2>2, <2>3 DEF AnswersStayTrue, Mine
<1> QED
  BY <1>1, InitInv, NextKeepsInv, InitLayers, NextKeepsLayers, PTL DEF Spec

(* The receipts, the producer sessions, the records and the bookmark       *)
(* indexes of the store always agree with each other and with the log      *)
(* (advance_session, apply_one, thin_entry, create_publish_bookmark,       *)
(* create_bookmark_record, apply_delete_bookmark).                         *)
THEOREM IndexesAlwaysAgree == Spec => []IndexesAgree
<1>1. IInv /\ LInv => IndexesAgree
  <2> SUFFICES ASSUME IInv, LInv PROVE IndexesAgree
    OBVIOUS
  <2>1. /\ db \in Dbs /\ WindowIn(db) /\ BookmarksIn(db) /\ Stored(log, applied, db)
        /\ ReceiptsTrue(log, db, db.receipts) /\ db.receipts \in Receipts
    BY PriorTypes DEF LInv, Layer, IInv, TypeOK
  <2>2. WindowHoldsReceipts
    <3> SUFFICES ASSUME NEW id \in RequestIds
                 PROVE  LET s == SessionOf(db, id)
                            n == Len(s.retained)
                        IN  /\ (db.receipts[id] # None)
                                  <=> (\E i \in 1 .. n : s.retained[i] = id.sequence)
                            /\ n <= ReceiptWindow
                            /\ \A i, j \in 1 .. n : i < j => s.retained[i] < s.retained[j]
                            /\ n > 0 => s.retained[n] = s.highest
      BY Zenon DEF WindowHoldsReceipts
    <3> QED BY <2>1 DEF WindowIn, WindowOf, Rising, Has
  <2>3. ReceiptsResolve
    <3> SUFFICES ASSUME NEW id \in RequestIds, db.receipts[id] # None, db.receipts[id].result.ok
                 PROVE  LET stored == db.receipts[id]
                        IN  /\ stored.result.first + stored.result.count <= db.next[id.partition]
                            /\ \A i \in 0 .. stored.result.count - 1 :
                                  LET rec == RecordAt(db, id.partition, stored.result.first + i)
                                  IN  /\ rec # None
                                      /\ PayloadsOf(log[rec.entry].requests)[rec.slot + 1]
                                            = stored.request.records[i + 1]
                            /\ stored.request.bookmark # None =>
                                  stored.result.bookmark.offset
                                      = stored.result.first + stored.result.count
      BY Zenon DEF ReceiptsResolve
    <3> DEFINE r == db.receipts[id].request
               res == db.receipts[id].result
    <3>1. r \in Requests /\ res \in Results /\ IdOf(r) = id /\ Holds(log, db, r, res)
      BY <2>1, OutcomeFields DEF ReceiptsTrue
    <3>2. r.partition = id.partition /\ Len(r.records) \in Nat
      BY <3>1, IdOfType, RequestsAssumption
    <3> HIDE DEF r, res
    <3>3. /\ res.count = Len(r.records) /\ Lies(log, db, r, res.first)
          /\ r.bookmark # None => res.bookmark.offset = res.first + res.count
      BY <3>1 DEF Holds, res
    <3>4. res.first \in Nat /\ res.first + res.count <= db.next[id.partition]
      BY <3>2, <3>3 DEF Lies
    <3>5. ASSUME NEW i \in 0 .. res.count - 1
          PROVE  /\ RecordAt(db, id.partition, res.first + i) # None
                 /\ Payload(log, RecordAt(db, id.partition, res.first + i)) = r.records[i + 1]
      <4>1. i + 1 \in 1 .. Len(r.records) /\ res.first + (i + 1) - 1 = res.first + i
        BY <3>2, <3>3, <3>4
      <4>2. Mine(db, r, res.first + (i + 1) - 1)
        BY <2>1, <3>1, <3>3, <4>1, LiesOffsets
      <4>3. Payload(log, RecordAt(db, r.partition, res.first + (i + 1) - 1)) = r.records[i + 1]
        BY <3>3, <4>1 DEF Lies
      <4> QED BY <3>2, <4>1, <4>2, <4>3 DEF Mine
    <3> QED BY <3>3, <3>4, <3>5 DEF r, res, Payload
  <2>4. BookmarkIndexesAgree
    <3> DEFINE live == {id \in AllBookmarkIds :
                          db.bookmarks[id] # None /\ ~db.bookmarks[id].deleted}
    <3>1. ASSUME NEW p \in Partitions, NEW n \in Names
          PROVE  {id \in live : db.bookmarks[id].partition = p /\ db.bookmarks[id].name = n}
                    = {db.names[<<p, n>>]} \ {None}
      <4>1. \A id \in AllBookmarkIds :
               (db.names[<<p, n>>] = id) <=>
                  (id \in live /\ db.bookmarks[id].partition = p /\ db.bookmarks[id].name = n)
        BY <2>1 DEF BookmarksIn, Named, Live
      <4>2. db.names[<<p, n>>] \in AllBookmarkIds \cup {None}
        BY <2>1 DEF Dbs
      <4>3. None \notin AllBookmarkIds /\ live \subseteq AllBookmarkIds
        BY NoneAssumption
      <4> HIDE DEF live
      <4> QED BY <4>1, <4>2, <4>3
    <3>2. ASSUME NEW p \in Partitions
          PROVE  db.order[p] = {<<db.bookmarks[id].publication, id>> :
                                   id \in {i \in live : db.bookmarks[i].partition = p}}
      <4>1. \A q \in Nat : \A id \in AllBookmarkIds :
               (<<q, id>> \in db.order[p]) <=>
                  (id \in live /\ db.bookmarks[id].partition = p
                    /\ db.bookmarks[id].publication = q)
        <5>1. Ordered(db)
          BY <2>1 DEF BookmarksIn
        <5>2. ASSUME NEW q \in Nat, NEW id \in AllBookmarkIds
              PROVE  (<<q, id>> \in db.order[p]) <=>
                        (Live(db, id) /\ db.bookmarks[id].partition = p
                          /\ db.bookmarks[id].publication = q)
          BY <5>1 DEF Ordered
        <5>3. ASSUME NEW id \in AllBookmarkIds PROVE Live(db, id) <=> id \in live
          BY DEF Live
        <5> HIDE DEF live
        <5> QED BY <5>2, <5>3, Zenon
      <4>2. db.order[p] \subseteq Nat \X AllBookmarkIds
        BY <2>1 DEF Dbs
      <4>3. \A id \in live : id \in AllBookmarkIds /\ db.bookmarks[id].publication \in Nat
        BY <2>1, BookmarkFields
      <4> HIDE DEF live
      <4>4. ASSUME NEW x \in db.order[p]
            PROVE  x \in {<<db.bookmarks[id].publication, id>> :
                            id \in {i \in live : db.bookmarks[i].partition = p}}
        <5>0. x \in Nat \X AllBookmarkIds
          BY <4>2, <4>4
        <5>1. PICK q \in Nat, id \in AllBookmarkIds : x = <<q, id>>
          BY <5>0
        <5>2. id \in live /\ db.bookmarks[id].partition = p /\ db.bookmarks[id].publication = q
          BY <4>1, <5>1
        <5>3. x = <<db.bookmarks[id].publication, id>>
          BY <5>1, <5>2
        <5>4. id \in {i \in live : db.bookmarks[i].partition = p}
          BY <5>2
        <5> QED BY <5>3, <5>4, Zenon
      <4>5. ASSUME NEW id \in live, db.bookmarks[id].partition = p
            PROVE  <<db.bookmarks[id].publication, id>> \in db.order[p]
        BY <4>1, <4>3, <4>5
      <4> QED BY <4>4, <4>5
    <3>3. \A i, j \in AllBookmarkIds :
              ( /\ i # j
                /\ db.bookmarks[i] # None
                /\ db.bookmarks[j] # None
                /\ db.bookmarks[i].partition = db.bookmarks[j].partition )
                  => db.bookmarks[i].publication # db.bookmarks[j].publication
      BY <2>1 DEF BookmarksIn, Distinct
    <3> QED BY <3>1, <3>2, <3>3, Zenon DEF BookmarkIndexesAgree
  <2> QED BY <2>2, <2>3, <2>4 DEF IndexesAgree
<1> QED
  BY <1>1, InitInv, NextKeepsInv, InitLayers, NextKeepsLayers, PTL DEF Spec

-----------------------------------------------------------------------------
(* The group implements the ledger.                                        *)

LedgerIn(lg, d, p) ==
    [i \in 1 .. d.next[p] |->
        [request |-> RecordAt(d, p, i - 1).request,
         payload |-> Payload(lg, RecordAt(d, p, i - 1))]]

(* Between two durable states tails, sessions and records only grow, and   *)
(* the applied part of the log is fixed.                                   *)
LEMMA StepGrows ==
    ASSUME IInv, LInv, [Next]_vars
    PROVE  Grows(db, db') /\ SameUpTo(log, log', applied)
<1>1. /\ db \in Dbs /\ log \in Seq(Commands) /\ applied \in 0 .. Len(log)
      /\ Grows(db, staged) /\ Grows(db, db)
  BY GrowsRefl DEF IInv, TypeOK, LInv
<1>2. log' = log => SameUpTo(log, log', applied)
  BY DEF SameUpTo
<1>3. CASE Commit
  <2>1. PICK c \in Commands : log' = Append(log, c)
    BY <1>3 DEF Commit
  <2>2. db' = db
    BY <1>3 DEF Commit
  <2>3. SameUpTo(log, log', applied)
    BY <1>1, <2>1 DEF SameUpTo
  <2> QED BY <1>1, <2>2, <2>3
<1>4. CASE UNCHANGED vars \/ BeginPublishMany \/ FencedPublishMany \/ Crash
  <2>1. log' = log /\ db' = db
    BY <1>4 DEF vars, BeginPublishMany, FencedPublishMany, Crash
  <2> QED BY <1>1, <1>2, <2>1
<1>5. CASE ApplyOne
  <2>1. log' = log /\ db' = db
    BY <1>5 DEF ApplyOne, ForeignCluster, ReplayReceipt, RejectExpired, RejectBookmarkName,
                RejectRange, RejectBytes, RejectBookmarkId, Publish, ReturnWithoutEffect,
                Decide, Answer
  <2> QED BY <1>1, <1>2, <2>1
<1>6. CASE CommitPublishMany
  <2>1. log' = log /\ db' = staged
    BY <1>6 DEF CommitPublishMany
  <2> QED BY <1>1, <1>2, <2>1
<1>7. ASSUME NEW w, w.records = db.records, w.next = db.next, w.sessions = db.sessions
      PROVE  Grows(db, w)
  BY <1>1, <1>7 DEF Grows, RecordAt, SessionOf
<1>8. CASE CreateBookmark
  <2> DEFINE w == PutBookmark(db, Bookmark(Entry.id, Entry.partition, Entry.name,
                                  Entry.offset, db.publication[Entry.partition] + 1))
  <2>1. log' = log /\ (db' = w \/ db' = db)
    BY <1>8 DEF CreateBookmark, WriteEntry
  <2>2. w.records = db.records /\ w.next = db.next /\ w.sessions = db.sessions
    BY <1>1 DEF PutBookmark, Dbs
  <2> HIDE DEF w
  <2> QED BY <1>1, <1>2, <1>7, <2>1, <2>2
<1>9. CASE DeleteBookmark
  <2> DEFINE w == RemoveBookmark(db, db.bookmarks[Entry.id])
  <2>1. log' = log /\ (db' = w \/ db' = db)
    BY <1>9 DEF DeleteBookmark, WriteEntry
  <2>2. w.records = db.records /\ w.next = db.next /\ w.sessions = db.sessions
    BY <1>1 DEF RemoveBookmark, Dbs
  <2> HIDE DEF w
  <2> QED BY <1>1, <1>2, <1>7, <2>1, <2>2
<1>10. CASE SetFence
  <2> DEFINE w == [db EXCEPT !.fence = (Entry.type = "AcquireFence")]
  <2>1. log' = log /\ db' = w
    BY <1>10 DEF SetFence, WriteEntry
  <2>2. w.records = db.records /\ w.next = db.next /\ w.sessions = db.sessions
    BY <1>1 DEF Dbs
  <2> HIDE DEF w
  <2> QED BY <1>1, <1>2, <1>7, <2>1, <2>2
<1> QED BY <1>3, <1>4, <1>5, <1>6, <1>8, <1>9, <1>10 DEF Next

LEMMA LedgerShape ==
    ASSUME NEW lg, NEW d \in Dbs, NEW p \in Partitions
    PROVE  /\ Len(LedgerIn(lg, d, p)) = d.next[p] /\ d.next[p] \in Nat
           /\ DOMAIN LedgerIn(lg, d, p) = 1 .. d.next[p]
           /\ \A i \in 1 .. d.next[p] :
                 /\ i - 1 \in Offsets
                 /\ LedgerIn(lg, d, p)[i].request = RecordAt(d, p, i - 1).request
                 /\ LedgerIn(lg, d, p)[i].payload = Payload(lg, RecordAt(d, p, i - 1))
                 /\ LedgerIn(lg, d, p)[i] = [request |-> RecordAt(d, p, i - 1).request,
                                             payload |-> Payload(lg, RecordAt(d, p, i - 1))]
<1> DEFINE n == d.next[p]
           e(i) == [request |-> RecordAt(d, p, i - 1).request,
                    payload |-> Payload(lg, RecordAt(d, p, i - 1))]
           l == [i \in 1 .. n |-> e(i)]
<1>1. n \in 0 .. MaxOffset /\ n \in Nat /\ MaxOffset \in Nat
  BY ConstantsAssumption DEF Dbs
<1>2. LedgerIn(lg, d, p) = l
  BY DEF LedgerIn
<1>3. \A i \in 1 .. n : e(i).request = RecordAt(d, p, i - 1).request
                     /\ e(i).payload = Payload(lg, RecordAt(d, p, i - 1))
  OBVIOUS
<1>4. \A i \in 1 .. n : i - 1 \in Offsets
  BY <1>1 DEF Offsets
<1>5. \A i \in 1 .. n : e(i) = [request |-> RecordAt(d, p, i - 1).request,
                                payload |-> Payload(lg, RecordAt(d, p, i - 1))]
  OBVIOUS
<1> HIDE DEF e, n
<1>6. DOMAIN l = 1 .. n /\ \A i \in 1 .. n : l[i] = e(i)
  OBVIOUS
<1>7. l \in Seq({e(i) : i \in 1 .. n}) /\ Len(l) = n
  BY <1>1
<1> QED BY <1>1, <1>2, <1>3, <1>4, <1>5, <1>6, <1>7 DEF n

(* The ledger of a partition is append-only.                               *)
LEMMA LedgerPrefix ==
    ASSUME NEW lg, NEW lh, NEW n \in Nat, NEW d \in Dbs, NEW e \in Dbs, NEW p \in Partitions,
           Stored(lg, n, d), Grows(d, e), SameUpTo(lg, lh, n)
    PROVE  /\ d.next[p] <= e.next[p]
           /\ \A i \in 1 .. d.next[p] : LedgerIn(lh, e, p)[i] = LedgerIn(lg, d, p)[i]
<1>1. d.next[p] <= e.next[p] /\ d.next[p] \in Nat /\ e.next[p] \in Nat
  BY LedgerShape DEF Grows
<1>2. ASSUME NEW i \in 1 .. d.next[p] PROVE LedgerIn(lh, e, p)[i] = LedgerIn(lg, d, p)[i]
  <2> DEFINE rec == RecordAt(d, p, i - 1)
  <2>1. i \in 1 .. e.next[p] /\ i - 1 \in Offsets /\ i - 1 < d.next[p]
    <3>1. i - 1 \in Offsets
      BY LedgerShape, Zenon
    <3> DEFINE a == d.next[p]
               b == e.next[p]
    <3>2. a \in Nat /\ b \in Nat /\ a <= b /\ i \in 1 .. a
      BY <1>1
    <3> HIDE DEF a, b
    <3>3. i \in 1 .. b /\ i - 1 < a
      BY <3>2
    <3> QED BY <3>1, <3>3 DEF a, b
  <2>2. rec # None
    BY <2>1 DEF Stored, Dense
  <2>3. RecordAt(e, p, i - 1) = rec
    BY <2>1, <2>2 DEF Grows
  <2>4. rec.entry \in 1 .. MaxLog /\ rec.entry <= n
    BY <2>1, <2>2, RecordFields DEF Stored, EntriesIn
  <2>5. rec.entry \in 1 .. n
    BY <2>4, ConstantsAssumption
  <2> HIDE DEF rec
  <2>6. Payload(lh, rec) = Payload(lg, rec)
    <3>1. lh[rec.entry] = lg[rec.entry]
      BY <2>5 DEF SameUpTo
    <3> QED BY <3>1, Zenon DEF Payload
  <2>7. LedgerIn(lg, d, p)[i] = [request |-> rec.request, payload |-> Payload(lg, rec)]
    BY LedgerShape, Zenon DEF rec
  <2>8. LedgerIn(lh, e, p)[i] = [request |-> rec.request, payload |-> Payload(lh, rec)]
    <3>1. LedgerIn(lh, e, p)[i] = [request |-> RecordAt(e, p, i - 1).request,
                                   payload |-> Payload(lh, RecordAt(e, p, i - 1))]
      BY <2>1, LedgerShape, Zenon
    <3> QED BY <2>3, <3>1, Zenon
  <2> QED BY <2>6, <2>7, <2>8, Zenon
<1> QED BY <1>1, <1>2

(* A request that lies in the records lies in the ledger.                  *)
LEMMA LedgerCarries ==
    ASSUME NEW lg, NEW d \in Dbs, NEW r \in Requests, NEW f, Lies(lg, d, r, f), Dense(d)
    PROVE  Ledger!Carries(LedgerIn(lg, d, r.partition), r)
<1> DEFINE p == r.partition
           l == LedgerIn(lg, d, p)
           n == Len(r.records)
<1>0. p \in Partitions
  BY IdOfType
<1>1. p \in Partitions /\ n \in Nat /\ n > 0 /\ f \in Nat /\ f + n <= d.next[p]
      /\ d.next[p] \in Nat
  <2>1. n \in Nat /\ n > 0
    BY RequestsAssumption
  <2>2. f \in Nat /\ f + n <= d.next[p]
    BY DEF Lies
  <2>3. d.next[p] \in Nat
    BY <1>0, LedgerShape, Zenon
  <2> QED BY <1>0, <2>1, <2>2, <2>3
<1>2. /\ DOMAIN l = 1 .. d.next[p]
      /\ \A i \in 1 .. d.next[p] : /\ i - 1 \in Offsets
                                   /\ l[i].request = RecordAt(d, p, i - 1).request
                                   /\ l[i].payload = Payload(lg, RecordAt(d, p, i - 1))
  <2> HIDE DEF p
  <2> QED BY <1>0, LedgerShape, Zenon DEF l
<1> HIDE DEF l
<1>3. f + 1 \in DOMAIN l
  <2> HIDE DEF n, p
  <2> QED BY <1>1, <1>2
<1>4. ASSUME NEW i \in 1 .. d.next[p]
      PROVE  l[i].request = IdOf(r) <=> i \in f + 1 .. f + 1 + n - 1
  <2>1. i - 1 \in Offsets /\ i - 1 < d.next[p]
    BY <1>1, <1>2
  <2>2. RecordAt(d, p, i - 1) # None
    BY <1>1, <2>1 DEF Dense
  <2>3. l[i].request = IdOf(r) <=> Mine(d, r, i - 1)
    BY <1>2, <2>2 DEF Mine
  <2>4. Mine(d, r, i - 1) <=> i - 1 \in f .. f + n - 1
    BY <2>1 DEF Lies
  <2>5. i - 1 \in f .. f + n - 1 <=> i \in f + 1 .. f + 1 + n - 1
    <3> HIDE DEF n, p
    <3> QED BY <1>1
  <2> QED BY <2>3, <2>4, <2>5
<1>5. \A i \in f + 1 .. f + 1 + n - 1 : i \in 1 .. d.next[p]
  <2> HIDE DEF n, p
  <2> QED BY <1>1
<1>6. {i \in DOMAIN l : l[i].request = Ledger!IdOf(r)} = f + 1 .. f + 1 + n - 1
  <2>1. Ledger!IdOf(r) = IdOf(r)
    BY DEF Ledger!IdOf, IdOf
  <2> HIDE DEF n, p
  <2> QED BY <1>2, <1>4, <1>5, <2>1
<1>7. ASSUME NEW k \in DOMAIN r.records PROVE l[f + 1 + k - 1].payload = r.records[k]
  <2>1. k \in 1 .. n
    BY RequestsAssumption
  <2>2. f + 1 + k - 1 \in 1 .. d.next[p] /\ (f + 1 + k - 1) - 1 = f + k - 1
    <3> HIDE DEF n, p
    <3> QED BY <1>1, <2>1
  <2>3. Payload(lg, RecordAt(d, p, f + k - 1)) = r.records[k]
    BY <2>1 DEF Lies
  <2> QED BY <1>2, <2>2, <2>3
<1> HIDE DEF n
<1>8. \E first \in DOMAIN l :
        /\ {i \in DOMAIN l : l[i].request = Ledger!IdOf(r)} = first .. first + Len(r.records) - 1
        /\ \A k \in DOMAIN r.records : l[first + k - 1].payload = r.records[k]
  <2>1. {i \in DOMAIN l : l[i].request = Ledger!IdOf(r)} = f + 1 .. f + 1 + Len(r.records) - 1
    BY <1>6 DEF n
  <2> WITNESS f + 1 \in DOMAIN l
  <2> QED BY <1>7, <2>1
<1> QED BY <1>8 DEF Ledger!Carries, l

LEMMA LedgerOfIs ==
    ASSUME NEW p \in Partitions
    PROVE  LedgerOf(p) = LedgerIn(log, db, p)
BY Zenon DEF LedgerOf, LedgerIn, Payload

(* What a step may do to the ledger of p, in terms of the durable states   *)
(* before and after it.                                                    *)
Enters(d, e, l, p, id) ==
    /\ id \in RequestIds
    /\ id.partition = p
    /\ SessionOf(d, id).highest < id.sequence
    /\ id.sequence <= SessionOf(e, id).highest
    /\ \E r \in Requests : Ledger!IdOf(r) = id /\ Ledger!Carries(l, r)

Extends_(d, e, s, t, p) ==
    /\ Ledger!IsPrefixOf(s, t)
    /\ \A i \in Len(s) + 1 .. Len(t) : Enters(d, e, t, p, t[i].request)

LEMMA LedgerStep ==
    ASSUME NEW lg, NEW lh, NEW n \in Nat, NEW m \in Nat, NEW d \in Dbs, NEW e \in Dbs,
           Stored(lg, n, d), Stored(lh, m, e), Owned(e), Grows(d, e), SameUpTo(lg, lh, n),
           NEW p \in Partitions
    PROVE  Extends_(d, e, LedgerIn(lg, d, p), LedgerIn(lh, e, p), p)
<1> DEFINE s == LedgerIn(lg, d, p)
           t == LedgerIn(lh, e, p)
<1>1. /\ Len(s) = d.next[p] /\ DOMAIN s = 1 .. d.next[p] /\ d.next[p] \in Nat
      /\ Len(t) = e.next[p] /\ e.next[p] \in Nat
      /\ \A i \in 1 .. e.next[p] : /\ i - 1 \in Offsets
                                   /\ t[i].request = RecordAt(e, p, i - 1).request
  <2>1. Len(s) = d.next[p] /\ DOMAIN s = 1 .. d.next[p] /\ d.next[p] \in Nat
    BY LedgerShape, Zenon
  <2>2. /\ Len(t) = e.next[p] /\ e.next[p] \in Nat
        /\ \A i \in 1 .. e.next[p] : /\ i - 1 \in Offsets
                                     /\ t[i].request = RecordAt(e, p, i - 1).request
    BY LedgerShape, Zenon
  <2> QED BY <2>1, <2>2, Zenon
<1>2. /\ d.next[p] <= e.next[p]
      /\ \A i \in 1 .. d.next[p] : t[i] = s[i]
  BY LedgerPrefix
<1> HIDE DEF s, t
<1>3. Ledger!IsPrefixOf(s, t)
  BY <1>1, <1>2 DEF Ledger!IsPrefixOf
<1>4. ASSUME NEW i \in Len(s) + 1 .. Len(t)
      PROVE  Enters(d, e, t, p, t[i].request)
  <2> DEFINE o == i - 1
             rec == RecordAt(e, p, o)
  <2>1. i \in 1 .. e.next[p] /\ ~(o < d.next[p]) /\ o < e.next[p]
    <3> DEFINE a == d.next[p]
               b == e.next[p]
    <3>1. a \in Nat /\ b \in Nat /\ i \in a + 1 .. b
      BY <1>1
    <3> HIDE DEF a, b
    <3>2. i \in 1 .. b /\ ~(o < a) /\ o < b
      BY <3>1
    <3> QED BY <3>2 DEF a, b
  <2>2. o \in Offsets /\ t[i].request = rec.request
    BY <1>1, <2>1
  <2>3. rec # None /\ RecordAt(d, p, o) = None
    BY <2>1, <2>2 DEF Stored, Dense
  <2>4. ~Closed(d, rec.request)
    BY <2>2, <2>3 DEF Grows
  <2>5. rec.request \in RequestIds
    BY <2>2, <2>3, RecordFields
  <2>6. rec.request.partition = p /\ rec.request.sequence <= SessionOf(e, rec.request).highest
    BY <2>2, <2>3 DEF Owned, Offsets
  <2>7. PICK r \in Requests : /\ IdOf(r) = rec.request
                              /\ \E first \in Nat : Lies(lh, e, r, first)
    BY <2>2, <2>3 DEF Stored, Carried
  <2>8. PICK first \in Nat : Lies(lh, e, r, first)
    BY <2>7
  <2>9. r.partition = p /\ Ledger!IdOf(r) = rec.request
    <3>1. IdOf(r).partition = r.partition
      BY IdOfType
    <3>2. Ledger!IdOf(r) = IdOf(r)
      BY DEF Ledger!IdOf, IdOf
    <3> QED BY <2>6, <2>7, <3>1, <3>2
  <2>10. Ledger!Carries(t, r)
    <3>1. Ledger!Carries(LedgerIn(lh, e, r.partition), r)
      BY <2>8, LedgerCarries DEF Stored
    <3> QED BY <2>9, <3>1, Zenon DEF t
  <2>11. SessionOf(d, rec.request).highest < rec.request.sequence
    <3>1. SessionOf(d, rec.request).highest \in Int /\ rec.request.sequence \in Int
      BY <2>5, StoredTypes, SequencesAreInts DEF RequestIds
    <3> QED BY <2>4, <3>1 DEF Closed
  <2> HIDE DEF rec
  <2> QED BY <2>2, <2>5, <2>6, <2>9, <2>10, <2>11, Zenon DEF Enters
<1> QED BY <1>3, <1>4, Zenon DEF Extends_, s, t

(* A session's highest sequence never falls.                               *)
LEMMA ClosedRises ==
    ASSUME NEW d \in Dbs, NEW e \in Dbs, Grows(d, e), NEW ps \in Partitions \X Sessions
    PROVE  d.sessions[ps].highest <= e.sessions[ps].highest
<1>1. /\ d.sessions[ps].highest \in Sequences_ \cup {-1}
      /\ e.sessions[ps].highest \in Sequences_ \cup {-1}
  BY DEF Dbs
<1>2. CASE Sequences_ = {}
  BY <1>1, <1>2
<1>3. CASE Sequences_ # {}
  <2>1. PICK q \in Sequences_ : TRUE
    BY <1>3
  <2> DEFINE k == [partition |-> ps[1], session |-> ps[2], sequence |-> q]
  <2>2. k \in RequestIds /\ <<k.partition, k.session>> = ps
    BY <2>1 DEF RequestIds
  <2> HIDE DEF k
  <2> QED BY <2>2 DEF Grows, SessionOf
<1> QED BY <1>2, <1>3

LEMMA InitialLedger == Init => Ledger!Init
<1> SUFFICES ASSUME Init PROVE Ledger!Init
  OBVIOUS
<1>1. /\ \A p \in Partitions : db.next[p] = 0
      /\ \A ps \in Partitions \X Sessions : db.sessions[ps].highest = -1
  <2>1. db = InitialDb
    BY DEF Init
  <2>2. \A p \in Partitions : InitialDb.next[p] = 0
    BY DEF InitialDb
  <2>3. \A ps \in Partitions \X Sessions : InitialDb.sessions[ps].highest = -1
    BY DEF InitialDb, NoSession
  <2> QED BY <2>1, <2>2, <2>3, Zenon
<1>2. ASSUME NEW p \in Partitions PROVE LedgerOf(p) = <<>>
  <2>1. 1 .. db.next[p] = {}
    BY <1>1
  <2> QED BY <2>1 DEF LedgerOf
<1> QED BY <1>1, <1>2 DEF Ledger!Init

(* Every step of the group is a step of the ledger.                        *)
LEMMA NextAppends ==
    ASSUME IInv, LInv, IInv', LInv', [Next]_vars
    PROVE  Ledger!Append_
<1> DEFINE lg == log
           lh == log'
           d == db
           e == db'
           n == applied
           m == applied'
<1>1. /\ d \in Dbs /\ e \in Dbs /\ n \in Nat /\ m \in Nat /\ Owned(e)
      /\ Stored(lg, n, d) /\ Stored(lh, m, e)
  <2>1. db \in Dbs /\ applied \in Nat /\ Stored(log, applied, db)
    BY DEF IInv, TypeOK, LInv, Layer
  <2>2. db' \in Dbs /\ applied' \in Nat
    BY DEF IInv, TypeOK, Dbs
  <2>3. Stored(log, applied, db)'
    BY Zenon DEF LInv, Layer
  <2>4. Owned(db)'
    BY Zenon DEF IInv
  <2>5. Stored(lh, m, e) /\ Owned(e)
    BY <2>3, <2>4 DEF Stored, Dense, EntriesIn, Carried, Owned
  <2> QED BY <2>1, <2>2, <2>5
<1>2. Grows(d, e) /\ SameUpTo(lg, lh, n)
  BY StepGrows
<1>3. ASSUME NEW p \in Partitions
      PROVE  /\ LedgerOf(p) = LedgerIn(lg, d, p)
             /\ LedgerOf(p)' = LedgerIn(lh, e, p)
  <2>1. LedgerOf(p) = LedgerIn(lg, d, p)
    BY LedgerOfIs
  <2>2. LedgerOf(p)' = LedgerIn(lh, e, p)
    BY Zenon DEF LedgerOf, LedgerIn, Payload
  <2> QED BY <2>1, <2>2
<1>4. ASSUME NEW p \in Partitions
      PROVE  Extends_(d, e, LedgerIn(lg, d, p), LedgerIn(lh, e, p), p)
  <2> HIDE DEF lg, lh, d, e, n, m
  <2> QED BY <1>1, <1>2, LedgerStep
<1>5. ASSUME NEW ps \in Partitions \X Sessions
      PROVE  d.sessions[ps].highest <= e.sessions[ps].highest
  <2> HIDE DEF d, e
  <2> QED BY <1>1, <1>2, ClosedRises
<1> DEFINE New(c, cc, l, p, id) ==
             LET ps == <<id.partition, id.session>>
             IN  /\ id.partition = p
                 /\ c[ps] < id.sequence
                 /\ id.sequence <= cc[ps]
                 /\ \E r \in Requests : Ledger!IdOf(r) = id /\ Ledger!Carries(l, r)
           L == [p \in Partitions |-> LedgerOf(p)]
           C == [ps \in Partitions \X Sessions |-> db.sessions[ps].highest]
           M == [p \in Partitions |-> LedgerIn(lh, e, p)]
           D == [ps \in Partitions \X Sessions |-> e.sessions[ps].highest]
<1>6. \A p \in Partitions : Ledger!IsPrefixOf(L[p], M[p])
  <2> SUFFICES ASSUME NEW p \in Partitions PROVE Ledger!IsPrefixOf(L[p], M[p])
    OBVIOUS
  <2>1. L[p] = LedgerIn(lg, d, p) /\ M[p] = LedgerIn(lh, e, p)
    BY <1>3
  <2>2. Ledger!IsPrefixOf(LedgerIn(lg, d, p), LedgerIn(lh, e, p))
    BY <1>4, Zenon DEF Extends_
  <2> HIDE DEF L, M
  <2> QED BY <2>1, <2>2, Zenon
<1>7. \A ps \in Partitions \X Sessions : C[ps] <= D[ps]
  BY <1>5
<1>8. ASSUME NEW p \in Partitions, NEW i \in Len(L[p]) + 1 .. Len(M[p])
      PROVE  New(C, D, M[p], p, M[p][i].request)
  <2> DEFINE t == LedgerIn(lh, e, p)
             id == t[i].request
             ps == <<id.partition, id.session>>
  <2>1. L[p] = LedgerIn(lg, d, p) /\ M[p] = t
    BY <1>3
  <2>2. i \in Len(LedgerIn(lg, d, p)) + 1 .. Len(t)
    BY <2>1, Zenon
  <2>3. /\ id \in RequestIds
        /\ id.partition = p
        /\ SessionOf(d, id).highest < id.sequence
        /\ id.sequence <= SessionOf(e, id).highest
        /\ \E r \in Requests : Ledger!IdOf(r) = id /\ Ledger!Carries(t, r)
    BY <1>4, <2>2, Zenon DEF Extends_, Enters
  <2> HIDE DEF t
  <2>4. ps \in Partitions \X Sessions
    BY <2>3 DEF RequestIds
  <2>5. C[ps] = SessionOf(d, id).highest /\ D[ps] = SessionOf(e, id).highest
    <3> HIDE DEF id
    <3> QED BY <2>4 DEF SessionOf
  <2> HIDE DEF M, L, C, D
  <2> QED BY <2>1, <2>3, <2>5, Zenon DEF New
<1>9. M = L' /\ D = C'
  BY <1>3
<1> HIDE DEF M, D, L, C, New, lg, lh, d, e
<1>10. \A p \in Partitions : Ledger!IsPrefixOf(L[p], (L')[p])
  BY <1>6, <1>9, Zenon
<1>11. \A ps \in Partitions \X Sessions : C[ps] <= (C')[ps]
  BY <1>7, <1>9, Zenon
<1>12. \A p \in Partitions : \A i \in Len(L[p]) + 1 .. Len((L')[p]) :
          New(C, C', (L')[p], p, (L')[p][i].request)
  BY <1>8, <1>9, Zenon
<1> QED BY <1>10, <1>11, <1>12, Zenon DEF Ledger!Append_, L, C, New

(* The group implements the exactly-once ledger: whatever is batched,      *)
(* fenced, retried or lost in a crash, each step of apply_entry appends to *)
(* the ledgers whole requests whose sequence was still open (apply_one,    *)
(* publish_many).                                                          *)
THEOREM GroupImplementsLedger == Spec => ImplementsLedger
<1>1. IInv /\ LInv /\ IInv' /\ LInv' /\ [Next]_vars
        => [Ledger!Append_]_<<[p \in Partitions |-> LedgerOf(p)],
              [ps \in Partitions \X Sessions |-> db.sessions[ps].highest]>>
  BY NextAppends
<1> QED
  BY <1>1, InitialLedger, InitInv, NextKeepsInv, InitLayers, NextKeepsLayers, PTL
     DEF Spec, ImplementsLedger, Ledger!Spec
=============================================================================
