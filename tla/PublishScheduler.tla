-------------------------- MODULE PublishScheduler --------------------------
(***************************************************************************)
(* The publish path of one data group on its leader, between the RPC       *)
(* handlers and Raft: the mutation gate (lifecycle.rs), the admission      *)
(* counters, the bounded channel, the worker that coalesces requests into  *)
(* one replicated batch at a time (publish_scheduler.rs), and the shutdown *)
(* of the node (lib.rs, runtime.rs).                                       *)
(*                                                                         *)
(* The handlers and the worker are tasks of a multi-threaded runtime, so   *)
(* every lock, channel operation and await point is a step of its own.     *)
(* Raft is external: client_write may return late, never, or with an error *)
(* for a batch that still commits.                                         *)
(***************************************************************************)
EXTENDS Integers, Sequences, FiniteSets, FiniteSetsExt

CONSTANTS
    Requests,       \* publish calls, each a number
    Records,        \* the records of each, its admission charge
    QueueRequests,  \* queue_requests: also the capacity of the channel
    QueueRecords,   \* queue_records
    BatchRequests,  \* batch_requests
    BatchRecords,   \* batch_records
    None

(* PublishSchedulerConfig::try_new.                                        *)
ASSUME SchedulerAssumption ==
    /\ IsFiniteSet(Requests) /\ Requests \subseteq Nat
    /\ Records \in [Requests -> Nat \ {0}]
    /\ BatchRequests \in Nat \ {0} /\ BatchRecords \in Nat \ {0}
    /\ QueueRequests \in Nat /\ QueueRequests >= BatchRequests
    /\ QueueRecords \in Nat /\ QueueRecords >= BatchRecords
    /\ \A r \in Requests : Records[r] <= BatchRecords

VARIABLES
    gate,      \* MutationAdmission
    permits,   \* requests whose MutationPermit is alive: in_flight
    phase,     \* how far the node's shutdown is
    caller,    \* where each publish call is
    answer,    \* what it was answered
    usage,     \* AdmissionUsage
    channel,   \* the mpsc queue
    pending,   \* the worker's queue
    selected,  \* the batch being submitted
    pc,        \* the worker
    shutdown,  \* the shutdown watch
    sent,      \* history: the requests in the order they were queued
    batches,   \* history: the batches given to client_write
    inRaft,    \* those whose client_write has not returned
    committed  \* those the group committed

callers == <<gate, permits, phase, caller, answer>>
worker == <<channel, pending, selected, pc, shutdown>>
raft == <<sent, batches, inRaft, committed>>
vars == <<callers, usage, worker, raft>>

-----------------------------------------------------------------------------
Elements(s) == {s[i] : i \in DOMAIN s}

(* The records of the first n requests of a queue.                         *)
RecordsOf(s) ==
    LET sum[n \in 0 .. Len(s)] == IF n = 0 THEN 0 ELSE sum[n - 1] + Records[s[n]]
    IN  sum

Total(s) == RecordsOf(s)[Len(s)]
Charge(rs) == MapThenSumSet(LAMBDA r : Records[r], rs)
Monus(x, y) == IF x < y THEN 0 ELSE x - y

(* reply.is_closed: the caller has gone.  LiveOf keeps the others of the   *)
(* first n requests of a queue, in their order.                            *)
LiveOf(s) ==
    LET kept[n \in 0 .. Len(s)] ==
            IF n = 0 THEN <<>>
            ELSE IF caller[s[n]] # "cancelled" THEN Append(kept[n - 1], s[n]) ELSE kept[n - 1]
    IN  kept

Live(s) == LiveOf(s)[Len(s)]
Cancelled(s) == {r \in Elements(s) : caller[r] = "cancelled"}

(* The work that holds an admission charge.                                *)
Queued == Elements(channel) \cup Elements(pending)
Held == {r \in Requests : caller[r] = "reserved"} \cup Queued \cup Elements(selected)

Callers == {"idle", "permitted", "reserved", "waiting", "answered", "cancelled"}
Definite == {"ShuttingDown", "ClusterForming", "Overloaded", "Refused"}
Answers == Definite \cup {"Decided", "NotLeader", "Ambiguous", "Stopped"}
Phases == {"running", "draining", "drained", "deadline", "stopping"}
Steps == {"loop", "iterate", "submit", "write", "expired", "closing", "exiting", "done"}

ASSUME NoneAssumption == None \notin Answers

TypeOK ==
    /\ gate \in {"open", "closed"} /\ permits \subseteq Requests /\ phase \in Phases
    /\ caller \in [Requests -> Callers] /\ answer \in [Requests -> Answers \cup {None}]
    /\ usage \in [accepting : BOOLEAN, requests : Nat, records : Nat]
    /\ channel \in Seq(Requests) /\ pending \in Seq(Requests) /\ selected \in Seq(Requests)
    /\ pc \in Steps /\ shutdown \in BOOLEAN
    /\ sent \in Seq(Requests) /\ batches \in Seq(Seq(Requests))
    /\ inRaft \subseteq DOMAIN batches /\ committed \subseteq DOMAIN batches
    /\ selected # <<>> <=> pc \in {"submit", "write", "expired"}
    /\ \A r \in Requests : caller[r] = "answered" <=> answer[r] # None

Init ==
    /\ gate = "open" /\ permits = {} /\ phase = "running"
    /\ caller = [r \in Requests |-> "idle"] /\ answer = [r \in Requests |-> None]
    /\ usage = [accepting |-> TRUE, requests |-> 0, records |-> 0]
    /\ channel = <<>> /\ pending = <<>> /\ selected = <<>>
    /\ pc = "loop" /\ shutdown = FALSE
    /\ sent = <<>> /\ batches = <<>> /\ inRaft = {} /\ committed = {}

(* Admission::release.                                                     *)
Released(rs) ==
    [usage EXCEPT !.requests = Monus(@, Cardinality(rs)), !.records = Monus(@, Charge(rs))]

(* reply.send to the callers that still wait.                              *)
Reply(rs, a) ==
    LET waiting == {r \in rs : caller[r] = "waiting"} IN
    /\ caller' = [r \in Requests |-> IF r \in waiting THEN "answered" ELSE caller[r]]
    /\ answer' = [r \in Requests |-> IF r \in waiting THEN a ELSE answer[r]]

(* The call of r returns a before it waits; its permit is dropped.         *)
Return(r, a) ==
    /\ caller' = [caller EXCEPT ![r] = "answered"]
    /\ answer' = [answer EXCEPT ![r] = a]
    /\ permits' = permits \ {r}

-----------------------------------------------------------------------------
(* The publish handler.                                                    *)

(* MutationGate::try_admit.                                                *)
TryAdmitMutation(r) ==
    /\ caller[r] = "idle"
    /\ IF gate = "closed" THEN Return(r, "ShuttingDown")
       ELSE /\ caller' = [caller EXCEPT ![r] = "permitted"]
            /\ permits' = permits \cup {r} /\ UNCHANGED answer
    /\ UNCHANGED <<gate, phase, usage, worker, raft>>

(* publish: the route or the leadership check fails.                       *)
Refuse(r) ==
    /\ caller[r] = "permitted" /\ Return(r, "Refused")
    /\ UNCHANGED <<gate, phase, usage, worker, raft>>

(* Admission::reserve.                                                     *)
Reserve(r) ==
    /\ caller[r] = "permitted"
    /\ IF ~usage.accepting THEN Return(r, "ClusterForming") /\ UNCHANGED usage
       ELSE IF usage.requests + 1 > QueueRequests \/ usage.records + Records[r] > QueueRecords
       THEN Return(r, "Overloaded") /\ UNCHANGED usage
       ELSE /\ caller' = [caller EXCEPT ![r] = "reserved"]
            /\ usage' = [usage EXCEPT !.requests = @ + 1, !.records = @ + Records[r]]
            /\ UNCHANGED <<answer, permits>>
    /\ UNCHANGED <<gate, phase, worker, raft>>

(* try_send: into the channel, or back when it is full or closed.          *)
Send(r) ==
    /\ caller[r] = "reserved"
    /\ IF pc = "done" \/ Len(channel) = QueueRequests
       THEN /\ Return(r, "Overloaded") /\ usage' = Released({r})
            /\ UNCHANGED <<channel, sent>>
       ELSE /\ caller' = [caller EXCEPT ![r] = "waiting"]
            /\ channel' = Append(channel, r) /\ sent' = Append(sent, r)
            /\ UNCHANGED <<answer, permits, usage>>
    /\ UNCHANGED <<gate, phase, pending, selected, pc, shutdown, batches, inRaft, committed>>

(* The client disconnects: the handler is dropped at an await.  A queued   *)
(* request keeps the permit it was given.                                  *)
Cancel(r) ==
    /\ caller[r] \in {"permitted", "waiting"}
    /\ caller' = [caller EXCEPT ![r] = "cancelled"]
    /\ permits' = IF caller[r] = "permitted" THEN permits \ {r} ELSE permits
    /\ UNCHANGED <<gate, phase, answer, usage, worker, raft>>

-----------------------------------------------------------------------------
(* run_worker.                                                             *)

(* The top of the loop reads the shutdown flag.                            *)
BeginIteration ==
    /\ pc = "loop"
    /\ pc' = IF shutdown THEN "closing" ELSE "iterate"
    /\ UNCHANGED <<callers, usage, channel, pending, selected, shutdown, raft>>

(* discard_cancelled: dropping a queued request drops its permit.          *)
Discard(s) == usage' = Released(Cancelled(s)) /\ permits' = permits \ Cancelled(s)

(* Nothing pending: wait for a request, or for the shutdown.               *)
ReceiveFirst ==
    LET got == <<Head(channel)>> IN
    /\ pc = "iterate" /\ pending = <<>> /\ ~shutdown /\ channel # <<>>
    /\ channel' = Tail(channel) /\ pending' = Live(got) /\ Discard(got)
    /\ pc' = IF Live(got) = <<>> THEN "loop" ELSE "iterate"
    /\ UNCHANGED <<gate, phase, caller, answer, selected, shutdown, raft>>

ObserveShutdown ==
    /\ pc = "iterate" /\ shutdown /\ pending = <<>>
    /\ pc' = "closing"
    /\ UNCHANGED <<callers, usage, channel, pending, selected, shutdown, raft>>

(* Everything pending was cancelled.                                       *)
DiscardAll ==
    /\ pc = "iterate" /\ pending # <<>> /\ Live(pending) = <<>>
    /\ pending' = <<>> /\ Discard(pending) /\ pc' = "loop"
    /\ UNCHANGED <<gate, phase, caller, answer, channel, selected, shutdown, raft>>

(* batch_usage: the batch is full, or the next request does not fit.       *)
FlushNow(s) == Len(s) >= BatchRequests \/ Total(s) >= BatchRecords

(* Before the flush time of the oldest request: take one more, stop, or    *)
(* sleep until that time.                                                  *)
Coalesce ==
    LET kept == Live(pending) IN
    /\ pc = "iterate" /\ kept # <<>> /\ ~FlushNow(kept)
    /\ \/ /\ ~shutdown /\ channel # <<>>
          /\ pending' = Append(kept, Head(channel)) /\ channel' = Tail(channel)
          /\ pc' = "loop"
       \/ shutdown /\ pending' = kept /\ pc' = "closing" /\ UNCHANGED channel
    /\ Discard(pending)
    /\ UNCHANGED <<gate, phase, caller, answer, selected, shutdown, raft>>

(* take_batch: the longest prefix within the limits, at least one request. *)
BatchLength(s) ==
    Max({k \in DOMAIN s : k = 1 \/ (k <= BatchRequests /\ RecordsOf(s)[k] <= BatchRecords)})

(* Bugs: one waits for a full batch, one serves the newest request first.  *)
TakeBatch_OnlyFull ==
    LET kept == Live(pending)
        n == BatchLength(kept) IN
    /\ pc = "iterate" /\ kept # <<>> /\ FlushNow(kept)
    /\ selected' = SubSeq(kept, 1, n) /\ pending' = SubSeq(kept, n + 1, Len(kept))
    /\ pc' = "submit" /\ Discard(pending)
    /\ UNCHANGED <<gate, phase, caller, answer, channel, shutdown, raft>>
TakeBatch_LastFirst ==
    LET kept == Live(pending) IN
    /\ pc = "iterate" /\ kept # <<>>
    /\ selected' = <<kept[Len(kept)]>> /\ pending' = SubSeq(kept, 1, Len(kept) - 1)
    /\ pc' = "submit" /\ Discard(pending)
    /\ UNCHANGED <<gate, phase, caller, answer, channel, shutdown, raft>>

(* The batch is full, or the flush time of the oldest request has come.    *)
TakeBatch ==
    LET kept == Live(pending)
        n == BatchLength(kept) IN
    /\ pc = "iterate" /\ kept # <<>>
    /\ selected' = SubSeq(kept, 1, n) /\ pending' = SubSeq(kept, n + 1, Len(kept))
    /\ pc' = "submit" /\ Discard(pending)
    /\ UNCHANGED <<gate, phase, caller, answer, channel, shutdown, raft>>

(* submit_batch: the last check for cancelled callers, then client_write.  *)
Submit ==
    LET kept == Live(selected) IN
    /\ pc = "submit" /\ selected' = kept /\ Discard(selected)
    /\ IF kept = <<>>
       THEN pc' = "loop" /\ UNCHANGED <<batches, inRaft>>
       ELSE /\ pc' = "write" /\ batches' = Append(batches, kept)
            /\ inRaft' = inRaft \cup {Len(batches) + 1}
    /\ UNCHANGED <<gate, phase, caller, answer, channel, pending, shutdown, sent, committed>>

(* The batch is finished with: charges and permits are given back.         *)
FinishBatch ==
    /\ usage' = Released(Elements(selected)) /\ permits' = permits \ Elements(selected)
    /\ selected' = <<>> /\ pc' = "loop"

(* client_write returns: complete_response with the committed outcomes, or *)
(* complete_all with the error.                                            *)
WriteReturned ==
    /\ pc = "write" /\ inRaft' = inRaft \ {Len(batches)}
    /\ \/ Len(batches) \in committed /\ Reply(Elements(selected), "Decided")
       \/ Reply(Elements(selected), "NotLeader")
    /\ FinishBatch
    /\ UNCHANGED <<gate, phase, channel, pending, shutdown, sent, batches, committed>>

(* A bug that gives the charges back while the write is still out.         *)
Expire_ReleasesCharges ==
    /\ pc = "write" /\ Reply(Elements(selected), "Ambiguous") /\ pc' = "expired"
    /\ usage' = Released(Elements(selected))
    /\ UNCHANGED <<gate, permits, phase, channel, pending, selected, shutdown, raft>>

(* OPERATION_TIMEOUT: the callers are answered, the write is still out.    *)
Expire ==
    /\ pc = "write" /\ Reply(Elements(selected), "Ambiguous") /\ pc' = "expired"
    /\ UNCHANGED <<gate, permits, phase, usage, channel, pending, selected, shutdown, raft>>

ExpiredWriteReturned ==
    /\ pc = "expired" /\ inRaft' = inRaft \ {Len(batches)}
    /\ FinishBatch
    /\ UNCHANGED <<gate, phase, caller, answer, channel, pending, shutdown, sent, batches, committed>>

(* A bug that tells the callers of a submitted batch it was not.           *)
AbandonWrite_ClusterForming ==
    /\ pc \in {"write", "expired"} /\ shutdown
    /\ Reply(Elements(selected), "ClusterForming")
    /\ FinishBatch
    /\ UNCHANGED <<gate, phase, channel, pending, shutdown, raft>>

(* The shutdown is seen while a write is out.                              *)
AbandonWrite ==
    /\ pc \in {"write", "expired"} /\ shutdown
    /\ Reply(Elements(selected), "Ambiguous")
    /\ FinishBatch
    /\ UNCHANGED <<gate, phase, channel, pending, shutdown, raft>>

(* After the loop: close the admission, answer what is queued, one by one  *)
(* for the channel, into which handlers may still send.                    *)
ClosePending ==
    /\ pc = "closing" /\ pending # <<>>
    /\ Reply(Elements(pending), "ClusterForming")
    /\ usage' = [Released(Elements(pending)) EXCEPT !.accepting = FALSE]
    /\ permits' = permits \ Elements(pending) /\ pending' = <<>>
    /\ UNCHANGED <<gate, phase, channel, selected, pc, shutdown, raft>>

CloseChannel ==
    /\ pc = "closing" /\ pending = <<>>
    /\ IF channel # <<>>
       THEN /\ Reply({Head(channel)}, "ClusterForming")
            /\ usage' = [Released({Head(channel)}) EXCEPT !.accepting = FALSE]
            /\ permits' = permits \ {Head(channel)}
            /\ channel' = Tail(channel) /\ UNCHANGED pc
       ELSE /\ pc' = "exiting" /\ usage' = [usage EXCEPT !.accepting = FALSE]
            /\ UNCHANGED <<channel, permits, caller, answer>>
    /\ UNCHANGED <<gate, phase, pending, selected, shutdown, raft>>

(* The task ends: the receiver is dropped, and with it what was sent since *)
(* the channel was last seen empty.  Those charges stay in the counters.   *)
DropReceiver ==
    /\ pc = "exiting" /\ pc' = "done"
    /\ Reply(Elements(channel), "Stopped")
    /\ permits' = permits \ Elements(channel) /\ channel' = <<>>
    /\ UNCHANGED <<gate, phase, usage, pending, selected, shutdown, raft>>

-----------------------------------------------------------------------------
(* The group and the node.                                                 *)

(* A batch given to client_write commits, whether or not anyone waits.     *)
Commit(b) ==
    /\ b \in DOMAIN batches \ committed
    /\ committed' = committed \cup {b}
    /\ UNCHANGED <<callers, usage, worker, sent, batches, inRaft>>

(* start_drain.                                                            *)
StartDrain ==
    /\ phase = "running"
    /\ phase' = "draining" /\ gate' = "closed"
    /\ UNCHANGED <<permits, caller, answer, usage, worker, raft>>

(* finish_drain: no permit is left, or the deadline has passed.            *)
FinishDrain ==
    /\ phase = "draining"
    /\ phase' = IF permits = {} THEN "drained" ELSE "deadline"
    /\ UNCHANGED <<gate, permits, caller, answer, usage, worker, raft>>

(* ActiveCluster::shutdown stops the publisher.  run calls it only after a *)
(* completed drain; a caller of ClusterManager::shutdown need not drain.   *)
StopPublisher ==
    /\ phase \in {"running", "drained"}
    /\ phase' = "stopping" /\ shutdown' = TRUE /\ usage' = [usage EXCEPT !.accepting = FALSE]
    /\ UNCHANGED <<gate, permits, caller, answer, channel, pending, selected, pc, raft>>

WriteReturns == WriteReturned \/ ExpiredWriteReturned

WorkerSteps ==
    \/ BeginIteration \/ ReceiveFirst \/ ObserveShutdown \/ DiscardAll \/ Coalesce
    \/ TakeBatch \/ Submit \/ Expire \/ AbandonWrite
    \/ ClosePending \/ CloseChannel \/ DropReceiver

Next ==
    \/ \E r \in Requests : TryAdmitMutation(r)
    \/ \E r \in Requests : Refuse(r)
    \/ \E r \in Requests : Reserve(r)
    \/ \E r \in Requests : Send(r)
    \/ \E r \in Requests : Cancel(r)
    \/ WorkerSteps
    \/ WriteReturns
    \/ \E b \in DOMAIN batches : Commit(b)
    \/ StartDrain
    \/ FinishDrain
    \/ StopPublisher

Spec == Init /\ [][Next]_vars

(* The tasks of the node make progress: the runtime polls what is ready,   *)
(* and the flush and operation timers fire.                                *)
TaskFairness ==
    /\ WF_vars(WorkerSteps)
    /\ \A r \in Requests : WF_vars(Refuse(r) \/ Reserve(r) \/ Send(r))

(* The group answers every client_write in the end.                        *)
FairSpec == Spec /\ TaskFairness /\ WF_vars(WriteReturns)

-----------------------------------------------------------------------------
(* The admission counters are exactly the work between reserve and         *)
(* release, wherever it is: with a handler, in the channel, pending, or in *)
(* a write whose caller was answered long ago.  Only what the final drop   *)
(* of the receiver throws away stays charged.  The work stays within the   *)
(* configured limits, a reserved handler finds room in the channel, and a  *)
(* completed drain finds no work at all, so that the stop that follows     *)
(* cannot cut a write short.                                               *)
AdmissionMatchesWork ==
    /\ pc # "done" => /\ usage.requests = Cardinality(Held)
                      /\ usage.records = Charge(Held)
    /\ Cardinality(Held) <= QueueRequests /\ Charge(Held) <= QueueRecords
    /\ \A r \in Requests : caller[r] = "reserved" => Len(channel) < QueueRequests
    /\ phase = "drained" =>
          /\ inRaft = {} /\ Held = {}
          /\ \A r \in Requests : caller[r] \in {"idle", "answered", "cancelled"}

(* Requests reach Raft in the order in which they were queued, whatever    *)
(* was cancelled, coalesced or left for a later batch in between.          *)
FifoSubmission ==
    LET position(r) == CHOOSE i \in DOMAIN sent : sent[i] = r IN
    \A a, b \in DOMAIN batches : \A i \in DOMAIN batches[a], j \in DOMAIN batches[b] :
        (a < b \/ (a = b /\ i < j)) => position(batches[a][i]) < position(batches[b][j])

(* A definite refusal is only given for a request Raft never saw, and a    *)
(* durable result only for a request that committed.                       *)
AnswersAreTrue ==
    \A r \in Requests :
        /\ answer[r] \in Definite => \A b \in DOMAIN batches : r \notin Elements(batches[b])
        /\ answer[r] = "Decided" => \E b \in committed : r \in Elements(batches[b])

(* No caller waits for ever: the worker, its timeout, the shutdown or the  *)
(* dropped channel answers it, or it goes away.  And once the gate is      *)
(* closed every permit comes back, so that a drain given time completes.   *)
NobodyWaitsForEver ==
    /\ \A r \in Requests : caller[r] = "waiting" ~> caller[r] # "waiting"
    /\ gate = "closed" ~> permits = {}
=============================================================================
