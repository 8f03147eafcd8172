------------------------------ MODULE Retention ------------------------------
(***************************************************************************)
(* Retention and replay leases of one data group (light-stream-storage,    *)
(* lib.rs and retention.rs): the logical floor below which fetch answers   *)
(* cursor_expired, the reclaim cursor that follows it and deletes records, *)
(* the leases that keep a range readable below the floor until a deadline, *)
(* and the export fence that defers reclamation.                           *)
(*                                                                         *)
(* Every action is the application of one committed command, written by    *)
(* one synced batch, or a step of the environment.  Commands carry the     *)
(* clock observation their leader made before proposing them, which may be *)
(* old by the time they are applied; `now` is true time.                   *)
(***************************************************************************)
EXTENDS Integers, Sequences, FiniteSets, FiniteSetsExt

CONSTANTS
    Partitions,        \* partitions of the group
    Sessions,          \* mutation sessions (principal and session id)
    Mutations,         \* retention and lease commands clients may submit
    Sizes,             \* record sizes in bytes
    ReceiptWindow,     \* mutation receipts kept per session
    MaxLeaseBytes, MaxGroupBytes, MaxActiveLeases,     \* RetentionLimits
    MaxLeaseDuration, MaxLeaseLifetime,
    MaintainRecords, MaintainBytes,   \* limits of one MaintainRetention
    Skew,              \* LEASE_CLOCK_SKEW
    None,              \* an absent value
    MaxTail,           \* bound: records per partition
    MaxTime            \* bound: true time

Offsets == 0 .. MaxTail
MutationIds == {m.id : m \in Mutations}

ASSUME RetentionAssumption ==
    /\ Sizes \subseteq Nat
    /\ ReceiptWindow \in Nat \ {0} /\ Skew \in Nat /\ MaxTail \in Nat /\ MaxTime \in Nat
    /\ MaxLeaseBytes \in Nat /\ MaxGroupBytes \in Nat /\ MaxActiveLeases \in Nat
    /\ MaxLeaseDuration \in Nat /\ MaxLeaseLifetime \in Nat
    /\ MaintainRecords \in Nat \ {0} /\ MaintainBytes \in Nat \ {0}

(* Ranges are half open and not empty; durations are at least one.         *)
ASSUME MutationsAssumption ==
    \A m \in Mutations :
        /\ m.id.session \in Sessions /\ m.id.sequence \in Nat /\ m.partition \in Partitions
        /\ \/ m.type = "advance" /\ m.target \in Offsets
           \/ /\ m.type = "admit" /\ m.start \in Offsets /\ m.end \in Offsets
              /\ m.start < m.end /\ m.bytes \in Nat /\ m.duration \in Nat \ {0}
           \/ m.type = "renew" /\ m.lease \in MutationIds /\ m.duration \in Nat \ {0}
           \/ m.type = "release" /\ m.lease \in MutationIds

Leases ==
    [partition : Partitions, start : Offsets, end : Offsets, bytes : Nat,
     expires : Nat, hard : Nat, lifecycle : {"active", "expired", "released"}]
Clocks == [lower : Nat, upper : Nat]
Reasons ==
    {"receipt_expired", "conflict", "past_tail", "clock", "cursor_expired", "boundary",
     "duration", "lease_bytes", "active_leases", "group_bytes", "not_found",
     "range_violation", "inactive", "invalid_range"}
Results ==
    [type : {"rejected"}, why : Reasons] \cup [type : {"lease"}, lease : Leases]
      \cup [type : {"retention"}, before : Offsets, after : Offsets]

(* An absent value is none of the values that may be there.                *)
ASSUME NoneAssumption ==
    /\ None \notin Reasons /\ None \notin Nat
    /\ None \notin Leases \cup Clocks \cup Results

VARIABLES
    tail,       \* next offset of each partition
    ends,       \* history: end byte position of every record ever stored
    records,    \* offsets whose StoredRecord exists
    ret,        \* PartitionRetentionState
    hint,       \* deferred reclaim hint of each partition
    leases,     \* replay leases by the mutation that admitted them
    budget,     \* KEY_LEASE_BUDGET
    clock,      \* KEY_LEASE_CLOCK
    fence,      \* whether the mutation fence is held
    receipts,   \* mutation receipts
    sessions,   \* MutationSessionState
    now         \* true time

logs == <<tail, ends>>
mutationState == <<receipts, sessions>>
vars == <<tail, ends, records, ret, hint, leases, budget, clock, fence, receipts, sessions, now>>

-----------------------------------------------------------------------------
(* Clocks and leases.                                                      *)

Larger(x, y) == IF x < y THEN y ELSE x
Smaller(x, y) == IF x < y THEN x ELSE y
Monus(x, y) == IF x < y THEN 0 ELSE x - y

(* lease_clock_observation, made when true time was t.                     *)
Observation(t) == [lower |-> Monus(t, Skew), upper |-> t + Skew]

(* SafeLeaseClock::advance refuses an observation wholly behind the clock. *)
ClockAccepts(o) == clock # None => clock.lower <= o.upper

AdvanceClock(o) ==
    IF clock = None THEN o
    ELSE [lower |-> Larger(clock.lower, o.lower), upper |-> Larger(clock.upper, o.upper)]

(* A bug that ends leases by the upper bound of the clock.                 *)
EffectivelyActive_UpperBound(l, c) ==
    l.lifecycle = "active" /\ c.upper < l.expires /\ c.upper < l.hard

EffectivelyActive(l, c) == l.lifecycle = "active" /\ c.lower < l.expires /\ c.lower < l.hard

Active(ls) == {i \in MutationIds : ls[i] # None /\ ls[i].lifecycle = "active"}
Bytes(ls, is) == MapThenSumSet(LAMBDA i : ls[i].bytes, is)
Covers(l, p, o) == l.partition = p /\ l.start <= o /\ o < l.end

(* The lowest start, below the floor, among the leases is of partition p.  *)
LowestStart(is, p, none) ==
    LET starts == {leases[i].start : i \in {j \in is :
                      leases[j].partition = p /\ leases[j].start < ret[p].floor}} IN
    IF starts = {} THEN none ELSE CHOOSE s \in starts : \A u \in starts : s <= u

(* Bytes up to offset o of partition p, from the record before it.         *)
EndBefore(p, o) == IF o = 0 THEN 0 ELSE ends[p][o]

TypeOK ==
    /\ tail \in [Partitions -> Offsets]
    /\ ends \in [Partitions -> Seq(Nat)]
    /\ records \in [Partitions -> SUBSET Offsets]
    /\ ret \in [Partitions -> [floor : Offsets, cursor : Offsets, floorBytes : Nat, expired : Nat]]
    /\ hint \in [Partitions -> Offsets \cup {None}]
    /\ leases \in [MutationIds -> Leases \cup {None}]
    /\ budget \in [active : Nat, reserved : Nat]
    /\ clock \in Clocks \cup {None}
    /\ fence \in BOOLEAN
    /\ receipts \in [MutationIds -> [mutation : Mutations, result : Results] \cup {None}]
    /\ sessions \in [Sessions -> [highest : Int, retained : Seq(Nat)]]
    /\ now \in 0 .. MaxTime

Init ==
    /\ tail = [p \in Partitions |-> 0] /\ ends = [p \in Partitions |-> <<>>]
    /\ records = [p \in Partitions |-> {}]
    /\ ret = [p \in Partitions |-> [floor |-> 0, cursor |-> 0, floorBytes |-> 0, expired |-> 0]]
    /\ hint = [p \in Partitions |-> None]
    /\ leases = [i \in MutationIds |-> None]
    /\ budget = [active |-> 0, reserved |-> 0] /\ clock = None /\ fence = FALSE
    /\ receipts = [i \in MutationIds |-> None]
    /\ sessions = [s \in Sessions |-> [highest |-> -1, retained |-> <<>>]]
    /\ now = 0

-----------------------------------------------------------------------------
(* Mutation receipts.                                                      *)

Rejected(why) == [type |-> "rejected", why |-> why]
Leased(l) == [type |-> "lease", lease |-> l]
Floors(before, after) == [type |-> "retention", before |-> before, after |-> after]

(* A bug that answers only from the receipt and forgets the session.       *)
Prior_IgnoresHighest(m) ==
    IF receipts[m.id] = None THEN None
    ELSE IF receipts[m.id].mutation = m THEN receipts[m.id].result
    ELSE Rejected("conflict")

(* prior_mutation_result: what a mutation seen before is answered.         *)
Prior(m) ==
    IF receipts[m.id] = None
    THEN IF m.id.sequence <= sessions[m.id.session].highest
         THEN Rejected("receipt_expired") ELSE None
    ELSE IF receipts[m.id].mutation = m THEN receipts[m.id].result
    ELSE Rejected("conflict")

(* store_mutation_result: the receipt, the session's highest sequence and  *)
(* the eviction of its oldest receipt.                                     *)
StoreResult(m, result) ==
    LET s == m.id.session
        kept == Append(sessions[s].retained, m.id.sequence)
        full == Len(kept) > ReceiptWindow
        evicted == IF full THEN {[session |-> s, sequence |-> Head(kept)]} ELSE {} IN
    /\ receipts' = [i \in MutationIds |->
                      IF i \in evicted THEN None
                      ELSE IF i = m.id THEN [mutation |-> m, result |-> result]
                      ELSE receipts[i]]
    /\ sessions' = [sessions EXCEPT ![s] =
                      [highest |-> m.id.sequence, retained |-> IF full THEN Tail(kept) ELSE kept]]

-----------------------------------------------------------------------------
(* expire_due_leases: what applying a command under clock c makes of the   *)
(* leases that ran out, the budget, the cursors and the hints.             *)

IsDue(i, c) ==
    leases[i] # None /\ leases[i].lifecycle = "active" /\ ~EffectivelyActive(leases[i], c)
Due(c) == {i \in MutationIds : IsDue(i, c)}

ExpiredLeases(c) ==
    [i \in MutationIds |-> IF IsDue(i, c) THEN [leases[i] EXCEPT !.lifecycle = "expired"]
                                         ELSE leases[i]]

(* A bug that counts one expired lease, whatever their number.             *)
ExpiredBudget_OneLease(c) ==
    [active |-> IF Due(c) = {} THEN budget.active ELSE Monus(budget.active, 1),
     reserved |-> Monus(budget.reserved, Bytes(leases, Due(c)))]

ExpiredBudget(c) ==
    [active |-> Monus(budget.active, Cardinality(Due(c))),
     reserved |-> Monus(budget.reserved, Bytes(leases, Due(c)))]

(* A bug that leaves the cursor beyond the range that lost its lease.      *)
Rewind_KeepsCursor(is) == ret

(* Without the fence the cursor returns to the lowest freed offset.        *)
Rewind(is) ==
    IF fence THEN ret
    ELSE [p \in Partitions |->
            [ret[p] EXCEPT !.cursor = Smaller(@, LowestStart(is, p, @))]]

(* A bug that drops what a range freed under the fence should remember.    *)
Remember_Forgets(is) == hint

(* Under the fence the lowest freed offset is remembered.                  *)
Remember(is) ==
    IF ~fence THEN hint
    ELSE [p \in Partitions |->
            LET lowest == LowestStart(is, p, None) IN
            IF hint[p] = None \/ lowest = None
            THEN IF hint[p] = None THEN lowest ELSE hint[p]
            ELSE Smaller(hint[p], lowest)]

(* What every lease command writes for the leases that are due.            *)
WriteExpiry(c) ==
    /\ leases' = ExpiredLeases(c) /\ budget' = ExpiredBudget(c)
    /\ ret' = Rewind(Due(c)) /\ hint' = Remember(Due(c))

-----------------------------------------------------------------------------
(* Retention commands.                                                     *)

(* Appending one record: PublishApply, seen from here.                     *)
Publish(p, size) ==
    /\ ~fence /\ tail[p] < MaxTail
    /\ tail' = [tail EXCEPT ![p] = @ + 1]
    /\ records' = [records EXCEPT ![p] = @ \cup {tail[p]}]
    /\ ends' = [ends EXCEPT ![p] = Append(@, EndBefore(p, tail[p]) + size)]
    /\ UNCHANGED <<ret, hint, leases, budget, clock, fence, mutationState, now>>

(* The byte position of floor f: from the record before it, or the stored  *)
(* one when the floor does not move; otherwise unavailable.                *)
FloorBytes(p, f) ==
    IF f = 0 THEN 0
    ELSE IF f - 1 \in records[p] THEN ends[p][f]
    ELSE IF f = ret[p].floor THEN ret[p].floorBytes
    ELSE None

AdvanceFloor(p, target) == Larger(ret[p].floor, target)

(* apply_advance_retention, outside the fence.                             *)
AdvanceRetention(m, o) ==
    LET p == m.partition
        f == AdvanceFloor(p, m.target)
        rejection == IF m.target > tail[p] THEN Rejected("past_tail")
                     ELSE Rejected("clock") IN
    /\ m.type = "advance" /\ ~fence /\ Prior(m) = None
    /\ IF m.target <= tail[p] /\ ClockAccepts(o)
       THEN /\ FloorBytes(p, f) # None   \* otherwise nothing is written
            /\ ret' = [ret EXCEPT ![p].floor = f, ![p].floorBytes = FloorBytes(p, f)]
            /\ clock' = AdvanceClock(o)
            /\ StoreResult(m, Floors(ret[p].floor, f))
       ELSE StoreResult(m, rejection) /\ UNCHANGED <<ret, clock>>
    /\ UNCHANGED <<logs, records, hint, leases, budget, fence, now>>

(* admit: the checks, in order; None when the lease is granted.            *)
AdmissionError(m, bytes, b) ==
    IF m.end > tail[m.partition] THEN "boundary"
    ELSE IF m.duration > MaxLeaseDuration THEN "duration"
    ELSE IF bytes > m.bytes \/ bytes > MaxLeaseBytes THEN "lease_bytes"
    ELSE IF b.active >= MaxActiveLeases THEN "active_leases"
    ELSE IF b.reserved + bytes > MaxGroupBytes THEN "group_bytes"
    ELSE None

(* A bug that takes every range to start at the floor.                     *)
RangeBytes_FromFloor(p, start, end) == ends[p][end] - ret[p].floorBytes

(* replay_range_bytes.                                                     *)
RangeBytes(p, start, end) ==
    ends[p][end] - (IF start = ret[p].floor THEN ret[p].floorBytes ELSE EndBefore(p, start))

StartsBelowFloor(m) == m.start < ret[m.partition].floor

AdmitReplayLease(m, o) ==
    LET p == m.partition
        c == AdvanceClock(o)
        bytes == IF m.end > tail[p] THEN 0 ELSE RangeBytes(p, m.start, m.end)
        error == AdmissionError(m, bytes, ExpiredBudget(c))
        lease == [partition |-> p, start |-> m.start, end |-> m.end, bytes |-> bytes,
                  expires |-> c.upper + m.duration, hard |-> c.upper + MaxLeaseLifetime,
                  lifecycle |-> "active"] IN
    /\ m.type = "admit" /\ Prior(m) = None
    /\ IF ~ClockAccepts(o)
       THEN StoreResult(m, Rejected("clock")) /\ UNCHANGED <<ret, hint, leases, budget, clock>>
       ELSE IF StartsBelowFloor(m) \/ error # None
       THEN /\ WriteExpiry(c) /\ UNCHANGED clock
            /\ StoreResult(m, Rejected(IF StartsBelowFloor(m) THEN "cursor_expired" ELSE error))
       ELSE /\ leases' = [ExpiredLeases(c) EXCEPT ![m.id] = lease]
            /\ budget' = [active |-> ExpiredBudget(c).active + 1,
                          reserved |-> ExpiredBudget(c).reserved + bytes]
            /\ ret' = Rewind(Due(c)) /\ hint' = Remember(Due(c))
            /\ clock' = c
            /\ StoreResult(m, Leased(lease))
    /\ UNCHANGED <<logs, records, fence, now>>

(* What renewal and release answer for a lease that is not theirs to use.  *)
LeaseError(m, c) ==
    IF leases[m.lease] = None THEN "not_found"
    ELSE IF leases[m.lease].partition # m.partition THEN "range_violation"
    ELSE IF ~EffectivelyActive(leases[m.lease], c) THEN "inactive"
    ELSE None

RenewalError(m, c) ==
    IF LeaseError(m, c) # None THEN LeaseError(m, c)
    ELSE IF \/ c.upper + m.duration <= leases[m.lease].expires
            \/ c.upper + m.duration > leases[m.lease].hard
    THEN "invalid_range" ELSE None

RenewReplayLease(m, o) ==
    LET c == AdvanceClock(o)
        renewed == [leases[m.lease] EXCEPT !.expires = c.upper + m.duration] IN
    /\ m.type = "renew" /\ Prior(m) = None
    /\ IF ~ClockAccepts(o)
       THEN StoreResult(m, Rejected("clock")) /\ UNCHANGED <<ret, hint, leases, budget, clock>>
       ELSE IF RenewalError(m, c) # None
       THEN WriteExpiry(c) /\ StoreResult(m, Rejected(RenewalError(m, c))) /\ UNCHANGED clock
       ELSE /\ leases' = [ExpiredLeases(c) EXCEPT ![m.lease] = renewed]
            /\ budget' = ExpiredBudget(c)
            /\ ret' = Rewind(Due(c)) /\ hint' = Remember(Due(c))
            /\ clock' = c
            /\ StoreResult(m, Leased(renewed))
    /\ UNCHANGED <<logs, records, fence, now>>

ReleasedBudget(m, c) ==
    [active |-> Monus(ExpiredBudget(c).active, 1),
     reserved |-> Monus(ExpiredBudget(c).reserved, leases[m.lease].bytes)]

ReleaseReplayLease(m, o) ==
    LET c == AdvanceClock(o)
        released == [leases[m.lease] EXCEPT !.lifecycle = "released"] IN
    /\ m.type = "release" /\ Prior(m) = None
    /\ IF ~ClockAccepts(o)
       THEN StoreResult(m, Rejected("clock")) /\ UNCHANGED <<ret, hint, leases, budget, clock>>
       ELSE IF LeaseError(m, c) # None
       THEN WriteExpiry(c) /\ StoreResult(m, Rejected(LeaseError(m, c))) /\ UNCHANGED clock
       ELSE /\ leases' = [ExpiredLeases(c) EXCEPT ![m.lease] = released]
            /\ budget' = ReleasedBudget(m, c)
            /\ ret' = Rewind(Due(c) \cup {m.lease}) /\ hint' = Remember(Due(c) \cup {m.lease})
            /\ clock' = c
            /\ StoreResult(m, Leased(released))
    /\ UNCHANGED <<logs, records, fence, now>>

-----------------------------------------------------------------------------
(* apply_maintain_retention: delete records from the cursor on.            *)

SizeAt(p, o) == ends[p][o + 1] - EndBefore(p, o)

(* The end of an active lease range that covers the cursor.                *)
SkipTo(p, ls, cursor) ==
    LET covering == {i \in Active(ls) : Covers(ls[i], p, cursor)} IN
    IF covering = {} THEN None
    ELSE Smaller(ls[CHOOSE i \in covering : TRUE].end, ret[p].floor)

(* One turn of the loop on [cursor, examined, bytes, gone].                *)
Turn(p, ls, x) ==
    LET o == x.cursor IN
    IF SkipTo(p, ls, o) # None THEN [x EXCEPT !.cursor = SkipTo(p, ls, o)]
    ELSE IF o \notin records[p] THEN [x EXCEPT !.cursor = o + 1, !.examined = @ + 1]
    ELSE [cursor |-> o + 1, examined |-> x.examined + 1,
          bytes |-> x.bytes + SizeAt(p, o), gone |-> x.gone \cup {o}]

Stops(p, ls, x) ==
    \/ x.cursor >= ret[p].floor \/ x.examined >= MaintainRecords
    \/ /\ SkipTo(p, ls, x.cursor) = None /\ x.cursor \in records[p]
       /\ x.examined > 0 /\ x.bytes + SizeAt(p, x.cursor) > MaintainBytes

(* The loop: every turn moves the cursor, so MaxTail turns are enough.     *)
Reclaim(p, ls, cursor) ==
    LET run[n \in 0 .. MaxTail] ==
          IF n = 0 THEN [cursor |-> cursor, examined |-> 0, bytes |-> 0, gone |-> {}]
          ELSE LET x == run[n - 1] IN IF Stops(p, ls, x) THEN x ELSE Turn(p, ls, x)
    IN run[MaxTail]

(* A stale expected cursor, the fence and a refused clock write nothing.   *)
MaintainRetention(p, expected, o) ==
    /\ ~fence /\ ret[p].cursor = expected /\ ClockAccepts(o)
    /\ UNCHANGED <<logs, hint, fence, mutationState, now>>
    /\ clock' = AdvanceClock(o)
    /\ leases' = ExpiredLeases(clock') /\ budget' = ExpiredBudget(clock')
    /\ \E freed \in {Rewind(Due(clock'))} :
       \E result \in {Reclaim(p, leases', freed[p].cursor)} :
           /\ ret' = [freed EXCEPT ![p].cursor = result.cursor, ![p].expired = @ + result.bytes]
           /\ records' = [records EXCEPT ![p] = @ \ result.gone]

-----------------------------------------------------------------------------
(* The export fence of this group, and time.                               *)

AcquireFence ==
    /\ ~fence /\ fence' = TRUE
    /\ UNCHANGED <<logs, records, ret, hint, leases, budget, clock, mutationState, now>>

(* Release resumes the deferred reclamation.                               *)
ReleaseFence ==
    /\ fence /\ fence' = FALSE
    /\ ret' = [p \in Partitions |->
                 IF hint[p] = None THEN ret[p]
                 ELSE [ret[p] EXCEPT !.cursor = Smaller(@, hint[p])]]
    /\ hint' = [p \in Partitions |-> None]
    /\ UNCHANGED <<logs, records, leases, budget, clock, mutationState, now>>

Tick ==
    /\ now < MaxTime /\ now' = now + 1
    /\ UNCHANGED <<logs, records, ret, hint, leases, budget, clock, fence, mutationState>>

Next ==
    \/ \E p \in Partitions, size \in Sizes : Publish(p, size)
    \/ \E m \in Mutations, t \in 0 .. now : AdvanceRetention(m, Observation(t))
    \/ \E m \in Mutations, t \in 0 .. now : AdmitReplayLease(m, Observation(t))
    \/ \E m \in Mutations, t \in 0 .. now : RenewReplayLease(m, Observation(t))
    \/ \E m \in Mutations, t \in 0 .. now : ReleaseReplayLease(m, Observation(t))
    \/ \E p \in Partitions, t \in 0 .. now :
           MaintainRetention(p, ret[p].cursor, Observation(t))
    \/ AcquireFence
    \/ ReleaseFence
    \/ Tick

Spec == Init /\ [][Next]_vars

(* The leader's maintenance loop runs every 250 ms with a fresh clock.     *)
BackgroundMaintenance(p) == MaintainRetention(p, ret[p].cursor, Observation(now))

FairSpec == Spec /\ \A p \in Partitions : WF_vars(BackgroundMaintenance(p))

-----------------------------------------------------------------------------
(* Properties.                                                             *)

(* What a reader may count on: every record at or above the floor is       *)
(* there, and until true time reaches its deadline, or it is released, a   *)
(* lease stays active and every record of its range stays readable,        *)
(* however far the floor moves and however stale the clock observations of *)
(* the commands are.                                                       *)
PromisedRecordsStay ==
    /\ \A p \in Partitions : ret[p].floor .. tail[p] - 1 \subseteq records[p]
    /\ \A i \in MutationIds :
        /\ leases[i] # None
        /\ leases[i].lifecycle # "released"
        /\ now < leases[i].expires /\ now < leases[i].hard
        => /\ leases[i].lifecycle = "active"
           /\ leases[i].start .. leases[i].end - 1 \subseteq records[leases[i].partition]

(* Reclamation forgets nothing: a record the cursor has passed is deleted, *)
(* or an active lease still protects it, or a hint will bring the cursor   *)
(* back when the fence is released.                                        *)
NothingLeaks ==
    \A p \in Partitions : \A o \in records[p] :
        o < ret[p].cursor =>
            \/ \E i \in Active(leases) : Covers(leases[i], p, o)
            \/ fence /\ hint[p] # None /\ hint[p] <= o

(* Reclamation is exact: it takes nothing a reader may count on, and       *)
(* leaves nothing behind that it will not come back for.                   *)
ReclamationIsExact == PromisedRecordsStay /\ NothingLeaks

(* The lease accounts are exact.  The budget counts the active leases and  *)
(* their bytes, within the group's limits: it neither leaks nor is given   *)
(* back twice.  A lease is charged the bytes of its range, and the byte    *)
(* position of the floor is right though the record before it is gone.     *)
BudgetMatchesLeases ==
    /\ budget.active = Cardinality(Active(leases)) /\ budget.active <= MaxActiveLeases
    /\ budget.reserved = Bytes(leases, Active(leases))
    /\ budget.reserved <= MaxGroupBytes
    /\ \A p \in Partitions : ret[p].floorBytes = EndBefore(p, ret[p].floor)
    /\ \A i \in MutationIds : leases[i] # None =>
           LET p == leases[i].partition IN
           leases[i].bytes = EndBefore(p, leases[i].end) - EndBefore(p, leases[i].start)

(* A lease that ended stays ended: neither a retried admission whose       *)
(* receipt is gone nor a late renewal brings it back to life.              *)
LeasesEndForGood ==
    [][\A i \in MutationIds :
          leases[i] # None /\ leases[i].lifecycle # "active" => leases'[i] = leases[i]]_vars

(* Maintenance does its work: again and again every record below the floor *)
(* is deleted or under a lease, unless a fence holds reclamation back.     *)
ExpiredRecordsAreReclaimed ==
    []<>(\/ fence
         \/ \A p \in Partitions : \A o \in records[p] :
                o < ret[p].floor => \E i \in Active(leases) : Covers(leases[i], p, o))
=============================================================================
