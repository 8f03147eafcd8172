------------------------- MODULE SnapshotTransfer -------------------------
(***************************************************************************)
(* A leader sends its current snapshot to a follower of the same Raft      *)
(* group: peer.rs (TonicRaftNetwork::full_snapshot on the leader, the      *)
(* begin_snapshot, put_snapshot_chunk and finish_snapshot handlers of      *)
(* PeerApi on the follower) and the artifact catalog of snapshot.rs.       *)
(*                                                                         *)
(* A transfer is the pair <<vote, artifact>>: its id is a digest of the    *)
(* cluster, the group, both nodes, the vote, the metadata and the          *)
(* artifact's digest, so one id has one descriptor.  On the follower it    *)
(* owns three files, <id>.intent, <id>.part and <id>.progress; a chunk is  *)
(* one cell of the part file, and Torn is a cell a crash left half         *)
(* written.  A handler runs under the group's transfer lock, so it is one  *)
(* action; the file operations inside it matter when the process dies      *)
(* between two of them, which is Crash.  finish_snapshot alone gives up    *)
(* control, while Openraft (external) installs the artifact.               *)
(*                                                                         *)
(* Left out: authentication and the membership check of the sender, the    *)
(* test-only chunk delay, and validate_snapshot_history, which refuses     *)
(* only descriptors no leader of the group can send.                       *)
(***************************************************************************)
EXTENDS Integers, Sequences, FiniteSets

CONSTANTS
    Chunks,      \* chunks of SNAPSHOT_CHUNK_BYTES in an artifact
    MaxBuilds,   \* bound: snapshots the leader builds
    MaxVotes,    \* bound: terms in which this leader sends
    MaxFaults,   \* bound: requests that time out, are lost or arrive late
    MaxCrashes   \* bound: restarts of the follower

ASSUME BoundsAssumption ==
    /\ Chunks \in Nat \ {0} /\ MaxBuilds \in Nat \ {0} /\ MaxVotes \in Nat \ {0}
    /\ MaxFaults \in Nat /\ MaxCrashes \in Nat

VARIABLES
    \* --- the leader
    latest,    \* the artifact KEY_CURRENT_SNAPSHOT describes, 0 before the first
    objects,   \* artifact files in snapshots/objects
    vote,      \* the leader's vote
    snd,       \* the attempt in progress: [phase, t, off, desc]
    \* --- the network
    net,       \* requests that did not reach a handler: [t, op, off, live]
    \* --- the follower's disk
    stage,     \* incoming files of each transfer
    applied,   \* last snapshot the state machine holds
    \* --- the follower's memory
    rx,        \* the finish_snapshot handler that waits for Openraft
    installs,  \* artifacts handed to the state machine, oldest first
    \* --- history and bounds
    damaged,   \* an installation read a file that was not the artifact
    faults, crashes

leaderVars == <<latest, objects, vote>>
diskVars == <<stage, applied>>
transferVars == <<latest, objects, vote, snd, net, stage, applied, rx, installs,
                  damaged, faults, crashes>>

Transfers == (1 .. MaxVotes) \X (1 .. MaxBuilds)
NoTransfer == <<0, 0>>
Torn == <<0, 0>>
Whole(t) == [i \in 1 .. Chunks |-> <<t[2], i>>]
Files == {"intent", "part", "progress"}
NoStage == [files |-> {}, torn |-> FALSE, old |-> FALSE, part |-> <<>>, progress |-> 0]
Idle == [phase |-> "idle", t |-> NoTransfer, off |-> 0, desc |-> 0]
NoHandler == [t |-> NoTransfer, live |-> FALSE, done |-> FALSE]
Waiting == {"begin", "chunk", "finish"}

TransferTypeOK ==
    /\ latest \in 0 .. MaxBuilds /\ objects \subseteq 1 .. MaxBuilds
    /\ vote \in 1 .. MaxVotes
    /\ snd \in [phase : {"idle", "opening", "done"} \cup Waiting,
                t : Transfers \cup {NoTransfer}, off : 0 .. Chunks, desc : 0 .. MaxBuilds]
    /\ \A m \in net : m \in [t : Transfers, op : Waiting, off : 0 .. Chunks, live : BOOLEAN]
    /\ \A t \in Transfers :
          /\ stage[t].files \subseteq Files
          /\ stage[t].torn \in BOOLEAN /\ stage[t].old \in BOOLEAN
          /\ stage[t].progress \in 0 .. Chunks
    /\ applied \in 0 .. MaxBuilds
    /\ rx.t \in Transfers \cup {NoTransfer}
    /\ damaged \in BOOLEAN
    /\ faults \in 0 .. MaxFaults /\ crashes \in 0 .. MaxCrashes

InitTransfer ==
    /\ latest = 0 /\ objects = {} /\ vote = 1 /\ snd = Idle
    /\ net = {}
    /\ stage = [t \in Transfers |-> NoStage] /\ applied = 0
    /\ rx = NoHandler /\ installs = <<>>
    /\ damaged = FALSE /\ faults = 0 /\ crashes = 0

(***************************************************************************)
(* The leader.                                                             *)
(***************************************************************************)

\* build_snapshot under the write lane: seal the artifact file, then make it
\* current.  The files it replaces go in CollectObjects.
BuildSnapshot ==
    /\ latest < MaxBuilds
    /\ objects \subseteq {latest}
    /\ latest' = latest + 1
    /\ objects' = objects \cup {latest + 1}
    /\ UNCHANGED <<vote, snd, net, diskVars, rx, installs, damaged, faults, crashes>>

\* collect_except, the last step of build_snapshot.
CollectObjects ==
    /\ objects # {} /\ objects # {latest}
    /\ objects' = {latest}
    /\ UNCHANGED <<latest, vote, snd, net, diskVars, rx, installs, damaged, faults, crashes>>

\* current_snapshot_artifact reads the descriptor without the write lane ...
ReadDescriptor ==
    /\ snd.phase = "idle" \/ (snd.phase = "done" /\ snd.desc # latest)
    /\ latest # 0
    /\ snd' = [Idle EXCEPT !.phase = "opening", !.desc = latest]
    /\ UNCHANGED <<leaderVars, net, diskVars, rx, installs, damaged, faults, crashes>>

Request(t, op, off) == [t |-> t, op |-> op, off |-> off, live |-> TRUE]

\* ... and open_descriptor opens the file it names; the open handle keeps the
\* bytes when the file is collected later.  full_snapshot then sends the
\* begin request.
OpenDescriptor ==
    /\ snd.phase = "opening"
    /\ IF snd.desc \in objects
       THEN LET t == <<vote, snd.desc>> IN
            /\ snd' = [phase |-> "begin", t |-> t, off |-> 0, desc |-> snd.desc]
            /\ net' = net \cup {Request(t, "begin", 0)}
       ELSE /\ snd' = Idle
            /\ UNCHANGED net
    /\ UNCHANGED <<latest, objects, vote, diskVars, rx, installs, damaged, faults, crashes>>

\* full_snapshot after an answer that says the follower holds `off` chunks.
Continue(off) ==
    LET op == IF off < Chunks THEN "chunk" ELSE "finish" IN
    /\ snd' = [snd EXCEPT !.phase = op, !.off = off]
    /\ net' = {m \in net : ~m.live} \cup {Request(snd.t, op, off)}

\* The answer reaches the attempt that asked; nobody waits for a late one.
Answer(m, off) ==
    IF m.live THEN Continue(off)
    ELSE /\ net' = net \ {m} /\ UNCHANGED snd

\* An error ends the attempt; Openraft starts another one later.
Refuse(m) ==
    /\ net' = net \ {m}
    /\ snd' = IF m.live THEN Idle ELSE snd

\* A request outlives its attempt: it is lost, or it stays on its way.  A
\* handler that waits for Openraft is dropped, or runs on for nobody.
Abandon ==
    LET live == {m \in net : m.live} IN
    /\ \/ net' = net \ live
       \/ net' = (net \ live) \cup {[m EXCEPT !.live = FALSE] : m \in live}
    /\ \/ rx.live /\ rx' = NoHandler
       \/ rx' = [rx EXCEPT !.live = FALSE]
    /\ snd' = Idle

\* The deadline of the attempt (soft_ttl) expires, or replication is closed.
GiveUp ==
    /\ snd.phase \in Waiting /\ faults < MaxFaults
    /\ Abandon
    /\ faults' = faults + 1
    /\ UNCHANGED <<leaderVars, diskVars, installs, damaged, crashes>>

\* The leader is elected again: transfers of the old vote are cancelled.
NewVote ==
    /\ vote < MaxVotes
    /\ snd.phase # "done"
    /\ vote' = vote + 1
    /\ Abandon
    /\ UNCHANGED <<latest, objects, diskVars, installs, damaged, faults, crashes>>

(***************************************************************************)
(* The follower's files.                                                   *)
(***************************************************************************)

\* remove_snapshot_stage.
Remove(s, gone) ==
    [s EXCEPT !.files = @ \ gone,
              !.torn = @ /\ "intent" \notin gone, !.old = @ /\ "intent" \notin gone,
              !.part = IF "part" \in gone THEN <<>> ELSE @,
              !.progress = IF "progress" \in gone THEN 0 ELSE @]

\* Mutant: stages are never abandoned.
DropAbandoned_Never(st) == st

\* remove_abandoned_snapshot_stages: every stage whose intent is a day old.
DropAbandoned(st) ==
    [t \in Transfers |-> IF st[t].old THEN Remove(st[t], Files) ELSE st[t]]

\* Mutant: a transfer that begins again starts from an empty part file.
Recover_Restart(s) ==
    [s EXCEPT !.files = @ \cup {"part", "progress"}, !.progress = 0, !.part = <<>>]

\* recover_snapshot_stage: keep the part file up to the durable progress.
Recover(s) ==
    LET p == IF s.progress > Len(s.part) THEN 0 ELSE s.progress IN
    [s EXCEPT !.files = @ \cup {"part", "progress"}, !.progress = p,
              !.part = SubSeq(@, 1, p)]

\* begin_snapshot writes the intent file of a transfer it does not know yet.
WithIntent(s) == [s EXCEPT !.files = @ \cup {"intent"}]

\* remove_superseded_snapshot_stages: the same artifact under another vote.
DropSuperseded(st, t) ==
    [u \in Transfers |->
        IF u # t /\ u[2] = t[2] /\ "intent" \in st[u].files /\ ~st[u].torn
        THEN Remove(st[u], Files) ELSE st[u]]

\* Installations that still read a part file see what becomes of it; an
\* unlinked file keeps its bytes for those that have it open.
Seen(ins, st) ==
    [i \in DOMAIN ins |->
        LET x == ins[i] IN
        CASE x.linked /\ "part" \in st[x.t].files -> [x EXCEPT !.data = st[x.t].part]
          [] OTHER -> [x EXCEPT !.linked = FALSE]]

(***************************************************************************)
(* The follower's handlers.                                                *)
(***************************************************************************)
LockFree == rx = NoHandler

\* begin_snapshot.
BeginSnapshot(m) ==
    LET kept == DropAbandoned(stage)
        s == kept[m.t]
        begun == [kept EXCEPT ![m.t] = Recover(WithIntent(s))] IN
    /\ m \in net /\ m.op = "begin" /\ LockFree
    /\ IF s.torn
       THEN /\ stage' = kept /\ Refuse(m)
       ELSE /\ stage' = begun /\ Answer(m, begun[m.t].progress)
    /\ installs' = Seen(Seen(installs, kept), stage')
    /\ UNCHANGED <<leaderVars, applied, rx, damaged, faults, crashes>>


\* What put_snapshot_chunk asks of the stage before it writes.
ChunkFits(s, m) ==
    /\ Files \subseteq s.files /\ ~s.torn
    /\ m.off = s.progress /\ Len(s.part) = s.progress
    /\ s.progress + 1 <= Chunks

WriteChunk(s, m) == [s EXCEPT !.part = Append(@, <<m.t[2], m.off + 1>>)]

\* put_snapshot_chunk: append and sync the chunk, then the progress.
PutSnapshotChunk(m) ==
    LET s == stage[m.t] IN
    /\ m \in net /\ m.op = "chunk" /\ LockFree
    /\ IF ChunkFits(s, m)
       THEN /\ stage' = [stage EXCEPT ![m.t] = [WriteChunk(s, m) EXCEPT !.progress = s.progress + 1]]
            /\ Answer(m, s.progress + 1)
       ELSE /\ UNCHANGED stage
            /\ Refuse(m)
    /\ installs' = Seen(installs, stage')
    /\ UNCHANGED <<leaderVars, applied, rx, damaged, faults, crashes>>

\* reset_snapshot_stage.
Reset(s) == [s EXCEPT !.files = @ \cup {"part", "progress"}, !.part = <<>>, !.progress = 0]

StageComplete(s, t) == s.progress = Chunks /\ s.part = Whole(t)

\* finish_snapshot up to the installation: check length and digest, and hand
\* the open file to Openraft.
FinishSnapshot(m) ==
    LET s == stage[m.t] IN
    /\ m \in net /\ m.op = "finish" /\ LockFree
    /\ \/ /\ Files \subseteq s.files /\ ~s.torn /\ StageComplete(s, m.t)
          /\ rx' = [t |-> m.t, live |-> m.live, done |-> FALSE]
          /\ installs' = Append(installs, [t |-> m.t, data |-> s.part, linked |-> TRUE])
          /\ net' = net \ {m}
          /\ UNCHANGED <<snd, stage>>
       \/ /\ Files \subseteq s.files /\ ~s.torn /\ ~StageComplete(s, m.t)
          /\ stage' = [stage EXCEPT ![m.t] = Reset(s)]
          /\ installs' = Seen(installs, stage')
          /\ Refuse(m)
          /\ UNCHANGED rx
       \/ /\ ~(Files \subseteq s.files) \/ s.torn
          /\ Refuse(m)
          /\ UNCHANGED <<stage, installs, rx>>
    /\ UNCHANGED <<leaderVars, applied, damaged, faults, crashes>>

\* External: the state machine worker installs the oldest artifact it was
\* given; one at or below what it applied changes nothing.  The artifact of
\* the handler that waits is the last in the queue: it holds the lock.
CompleteInstall ==
    /\ installs # <<>>
    /\ LET x == Head(installs) IN
       /\ damaged' = (damaged \/ x.data # Whole(x.t))
       /\ applied' = IF x.t[2] > applied THEN x.t[2] ELSE applied
       /\ rx' = [rx EXCEPT !.done = rx # NoHandler /\ Len(installs) = 1]
    /\ installs' = Tail(installs)
    /\ UNCHANGED <<leaderVars, snd, net, stage, faults, crashes>>


\* finish_snapshot after the installation: drop the superseded stages, then
\* this one, and answer.
EndFinish ==
    /\ rx.done
    /\ stage' = [DropSuperseded(stage, rx.t) EXCEPT ![rx.t] = Remove(stage[rx.t], Files)]
    /\ installs' = Seen(installs, stage')
    /\ snd' = IF rx.live THEN [snd EXCEPT !.phase = "done"] ELSE snd
    /\ rx' = NoHandler
    /\ UNCHANGED <<leaderVars, net, applied, damaged, faults, crashes>>

(***************************************************************************)
(* A restart of the follower.                                              *)
(***************************************************************************)

\* What the stage of m.t may look like when the process dies inside the
\* handler of m: after some of its file operations, the last one torn.
TornStages(m) ==
    LET s == stage[m.t] IN
    CASE m.op = "begin" ->
            IF "intent" \notin s.files
            THEN {[s EXCEPT !.files = @ \cup {"intent"}, !.torn = TRUE],
                  [s EXCEPT !.files = @ \cup {"intent"}],
                  [s EXCEPT !.files = @ \cup {"intent", "part"}]}
            ELSE IF s.old THEN {Remove(s, gone) : gone \in SUBSET Files} ELSE {s}
      [] m.op = "chunk" ->
            IF ChunkFits(s, m)
            THEN {[s EXCEPT !.part = Append(@, Torn)], WriteChunk(s, m)}
            ELSE {s}
      [] m.op = "finish" ->
            IF Files \subseteq s.files /\ ~s.torn /\ ~StageComplete(s, m.t)
            THEN {[s EXCEPT !.part = <<>>]}
            ELSE {s}

\* The process dies: in a handler that runs to its end under the lock, in the
\* removals that close finish_snapshot, or between two requests.
Crash ==
    /\ crashes < MaxCrashes
    /\ \/ \E m \in net : LockFree /\ \E s \in TornStages(m) : stage' = [stage EXCEPT ![m.t] = s]
       \/ /\ rx.done
          /\ \E gone \in SUBSET Files :
                stage' = [DropSuperseded(stage, rx.t) EXCEPT ![rx.t] = Remove(stage[rx.t], gone)]
       \/ UNCHANGED stage
    /\ net' = {} /\ rx' = NoHandler /\ installs' = <<>>
    /\ snd' = IF snd.phase \in Waiting THEN Idle ELSE snd
    /\ crashes' = crashes + 1
    /\ UNCHANGED <<leaderVars, applied, damaged, faults>>

\* An intent file becomes ABANDONED_SNAPSHOT_AGE old.
GrowOld(t) ==
    /\ "intent" \in stage[t].files /\ ~stage[t].old
    /\ stage' = [stage EXCEPT ![t].old = TRUE]
    /\ UNCHANGED <<leaderVars, snd, net, applied, rx, installs, damaged, faults, crashes>>

NextTransfer ==
    \/ BuildSnapshot \/ CollectObjects \/ ReadDescriptor \/ OpenDescriptor
    \/ GiveUp \/ NewVote
    \/ \E m \in net : BeginSnapshot(m) \/ PutSnapshotChunk(m) \/ FinishSnapshot(m)
    \/ CompleteInstall \/ EndFinish \/ Crash
    \/ \E t \in Transfers : GrowOld(t)

TransferSpec == InitTransfer /\ [][NextTransfer]_transferVars

\* Openraft retries a follower that lags, the runtime runs every handler and
\* every task that is ready, and time passes.
Fairness ==
    /\ WF_transferVars(ReadDescriptor \/ OpenDescriptor)
    /\ WF_transferVars(\E m \in net : m.live /\ (BeginSnapshot(m) \/ PutSnapshotChunk(m) \/ FinishSnapshot(m)))
    /\ WF_transferVars(CompleteInstall \/ EndFinish)
    /\ WF_transferVars(\E t \in Transfers : stage[t].torn /\ GrowOld(t))

LiveSpec == TransferSpec /\ Fairness

-----------------------------------------------------------------------------

\* What the progress file promises is on disk: the first `progress` chunks of
\* the part file are those of the artifact, whatever was torn, late or
\* repeated (put_snapshot_chunk syncs the data before the progress, and
\* recover_snapshot_stage cuts what lies beyond it).
StageIsPrefix ==
    \A t \in Transfers :
        LET s == stage[t] IN
        s.progress <= Len(s.part) =>
            SubSeq(s.part, 1, s.progress) = SubSeq(Whole(t), 1, s.progress)

\* An artifact that finish_snapshot verified and handed to Openraft stays
\* whole until it is installed, although the handler that holds the lock may
\* be dropped and the same transfer begun, resumed, finished, superseded or
\* abandoned meanwhile.
InstallReadsWholeArtifact ==
    ~damaged /\ \A i \in DOMAIN installs : installs[i].data = Whole(installs[i].t)

\* A transfer the leader saw succeed is installed.
SuccessMeansInstalled ==
    snd.phase = "done" => applied >= snd.t[2]

\* What the three ends of a transfer believe is true: the progress the follower
\* stored, the artifact Openraft installs, and the success the leader saw.
TransfersAreTrue == StageIsPrefix /\ InstallReadsWholeArtifact /\ SuccessMeansInstalled

\* A follower that keeps being offered the snapshot ends up with the newest
\* one, after any bounded number of losses and crashes: an intent file a
\* crash tore is in the way only until it is abandoned.
FollowerCatchesUp == <>[](applied = latest)

=============================================================================
