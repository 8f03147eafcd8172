------------------------------- MODULE Serving -------------------------------
(***************************************************************************)
(* One secured node while it serves: the admission of public calls         *)
(* (service.rs), the policy lease they are decided by (security.rs), the   *)
(* policy mutations of the control group (storage lib.rs), the mutation    *)
(* gate and the readiness of the node (lifecycle.rs), and its shutdown     *)
(* (lib.rs, runtime.rs, tasks.rs).                                         *)
(*                                                                         *)
(* The rest of the cluster is the environment: it elects this node or      *)
(* another one, replicates to it, and commits mutations other nodes were   *)
(* given.  Time is the age of the lease: within maximum_policy_staleness   *)
(* of its confirmation it is "fresh", within one more interval "stale",    *)
(* later "lost".                                                           *)
(***************************************************************************)
EXTENDS Integers, Sequences, PublicApi, SecurityPolicy

CONSTANTS
    Tasks,           \* what the node does at the same time: calls, refreshes, appends
    Offered,         \* the public calls that clients make
    Mutations,       \* id -> the security mutation the request carries
    Bootstrap,       \* the policy the cluster was formed with
    Credentials,     \* the tokens clients present
    Principals,      \* and the principals they claim to be
    Stream,          \* the stream calls are about
    Own, Peer,       \* the certificates of this node and of the other one
    None

(* SecuredServerSecurity::load: a bootstrap policy with an administrator   *)
(* and a binding of this node's certificate.                               *)
ASSUME BootstrapAssumption ==
    /\ Bootstrap.revision = 1 /\ Validate(Bootstrap)
    /\ AuthenticatePeer(Bootstrap, Own)
    /\ IsPolicy(Bootstrap)
    /\ Offered \subseteq DOMAIN PublicRpcs

ASSUME NoneAssumption == None \notin {"call", "refresh", "append", "policy", "again"}

ASSUME MutationsAssumption ==
    \A m \in DOMAIN Mutations :
        /\ Mutations[m].change.kind \in ChangeKinds
        /\ Mutations[m].change.kind = "AddTokenGeneration" => IsToken(Mutations[m].change.token)

VARIABLES
    policies,   \* the policies the control group committed, by revision
    receipts,   \* the stored mutation results: the revision, Rejected, or 0
    applied,    \* the revision in this node's state machine
    leading,    \* this node leads the control group
    lease,      \* PolicyLease: the revision, and the age of confirmed_at
    acked,      \* history: the latest policy this node acknowledged
    tasks,      \* what each task is at
    permits,    \* tasks with a live MutationPermit
    gate,       \* MutationAdmission
    phase,      \* NodePhase
    ready,      \* WriteReadiness::Ready
    sample,     \* the readiness refresher: idle, begun, or the sample it took
    current,    \* no generation passed since its ticket
    stop,       \* how far run() is with the shutdown
    safe        \* teardown_safe

policy == <<policies, receipts, applied, leading>>
node == <<gate, phase, ready, sample, current, stop, safe>>
vars == <<policy, lease, acked, tasks, permits, node>>

-----------------------------------------------------------------------------
Idle == [pc |-> "idle", kind |-> None, rev |-> 0, rpc |-> None, cred |-> None, mutation |-> None]
Rejected == -1
Ages == {"fresh", "stale", "lost"}
Phases == {"Running", "Draining", "Stopping", "Exited"}
Stops == {"serving", "draining", "prepared", "stopping", "joined", "quiet", "down"}

(* A write the node has submitted, whoever still waits for it.             *)
Writing == {"writing", "abandoned"}

TypeOK ==
    /\ Len(policies) \in Nat \ {0} /\ applied \in DOMAIN policies /\ lease.rev \in 1 .. applied
    /\ receipts \in [DOMAIN Mutations -> {Rejected} \cup 0 .. Len(policies)]
    /\ leading \in BOOLEAN /\ lease.age \in Ages /\ acked \in 1 .. lease.rev
    /\ permits \subseteq Tasks /\ gate \in {"open", "closed"} /\ phase \in Phases
    /\ ready \in BOOLEAN /\ sample \in {"idle", "begun", "yes", "no"} /\ current \in BOOLEAN
    /\ stop \in Stops /\ safe \in BOOLEAN

Init ==
    /\ policies = <<Bootstrap>> /\ receipts = [m \in DOMAIN Mutations |-> 0]
    /\ applied = 1 /\ leading = FALSE
    /\ lease = [rev |-> 1, age |-> "fresh"] /\ acked = 1
    /\ tasks = [t \in Tasks |-> Idle] /\ permits = {}
    /\ gate = "open" /\ phase = "Running" /\ ready = FALSE
    /\ sample = "idle" /\ current = FALSE /\ stop = "serving" /\ safe = TRUE

Latest == Len(policies)
LeasePolicy == policies[lease.rev]
Move(t, pc) == tasks' = [tasks EXCEPT ![t].pc = pc]
End(t) == tasks' = [tasks EXCEPT ![t] = Idle]

(* The public, peer and operations servers run until they are joined.      *)
ServersUp == stop \notin {"joined", "quiet", "down"}
RefreshersUp == stop \notin {"quiet", "down"}

-----------------------------------------------------------------------------
(* The policy lease.                                                       *)

(* A bug: an older policy replaces a newer one.                            *)
Renewed_Unordered(rev) == [rev |-> rev, age |-> "fresh"]

(* PolicyLease::renew, of a revision that is not older.                    *)
Renewed(rev) == IF rev < lease.rev THEN lease ELSE [rev |-> rev, age |-> "fresh"]
Conflicts(rev) == rev < lease.rev

(* PolicyLease::current and for_peer, the latter for the control group's   *)
(* append, vote and snapshot traffic.                                      *)
FreshEnough == lease.age = "fresh"
PeerEnough == lease.age # "lost"
PeerAdmitted == PeerEnough /\ AuthenticatePeer(LeasePolicy, Peer)

(* A task between the read of a policy and its renewal does not wait.      *)
Tick ==
    /\ lease.age # "lost" /\ phase # "Exited"
    /\ \A t \in Tasks : tasks[t].pc \notin {"read", "renewing"}
    /\ lease' = [lease EXCEPT !.age = IF @ = "fresh" THEN "stale" ELSE "lost"]
    /\ UNCHANGED <<policy, acked, tasks, permits, node>>

-----------------------------------------------------------------------------
(* confirmed_security_policy, in a call, in GetSecurityPolicy and in the   *)
(* refresher: prove leadership, read the applied policy, renew the lease.  *)

Begin(t, kind) ==
    /\ tasks[t] = Idle
    /\ IF kind = "refresh" THEN RefreshersUp ELSE ServersUp
    /\ tasks' = [tasks EXCEPT ![t] = [Idle EXCEPT !.pc = "asking", !.kind = kind]]
    /\ UNCHANGED <<policy, lease, acked, permits, node>>

(* prove_linearizable: the read index, or a probe through the log; either  *)
(* returns when this node has applied all that was committed, and the read *)
(* of the policy follows without an await.                                 *)
ConfirmPolicy(t) ==
    /\ tasks[t].pc = "asking" /\ leading /\ applied = Latest
    /\ tasks' = [tasks EXCEPT ![t].pc = "read", ![t].rev = applied]
    /\ UNCHANGED <<policy, lease, acked, permits, node>>

(* It is not the leader, or the proof failed: policy_for_request goes on   *)
(* with the lease, the others give up.                                     *)
NotProved(t) ==
    /\ tasks[t].pc = "asking"
    /\ IF tasks[t].kind \in {"call", "again"} THEN Move(t, "deciding") ELSE End(t)
    /\ UNCHANGED <<policy, lease, acked, permits, node>>

(* renew_policy; a call that read an older policy answers Unavailable.     *)
RenewPolicy(t) ==
    /\ tasks[t].pc = "read" /\ lease' = Renewed(tasks[t].rev)
    /\ IF Conflicts(tasks[t].rev) \/ tasks[t].kind \in {"refresh", "append", "policy"} THEN End(t)
       ELSE Move(t, "deciding")
    /\ acked' = IF tasks[t].kind = "policy" /\ ~Conflicts(tasks[t].rev)
                THEN Max({acked, tasks[t].rev}) ELSE acked
    /\ UNCHANGED <<policy, permits, node>>

-----------------------------------------------------------------------------
(* The decision, and what follows it.                                      *)

Scope(rpc) == IF PublicRpcs[rpc].scope = "stream" THEN Stream ELSE PublicRpcs[rpc].scope

(* RuntimeSecurityConfig::authorize.                                       *)
Allowed(rpc, cred, claimed) ==
    \E principal \in Authenticate(LeasePolicy, cred) :
        /\ Authorize(LeasePolicy, principal, PublicRpcs[rpc].permission, Scope(rpc))
        /\ PublicRpcs[rpc].claims = "request" => claimed = principal

(* The lease is stale, or admit refuses the caller.                        *)
Refuse(t) ==
    /\ tasks[t].pc = "deciding" /\ End(t)
    /\ UNCHANGED <<policy, lease, acked, permits, node>>

Start(t, pc, m) == tasks' = [tasks EXCEPT ![t] = [Idle EXCEPT !.pc = pc, !.mutation = m]]

(* A lookup proves and decides a second time, for the stream it found.     *)
LookUp(t, rpc, cred) ==
    tasks' = [tasks EXCEPT ![t] = [Idle EXCEPT !.pc = "asking", !.kind = "again", !.rpc = rpc,
                                              !.cred = cred]]

(* try_admit_mutation, then the proposal in a task of its own that keeps a *)
(* clone of the permit; it is made by the leader or comes back at once.    *)
Propose(t, m) ==
    IF gate = "closed" \/ ~leading THEN End(t) /\ UNCHANGED permits
    ELSE Start(t, "writing", m) /\ permits' = permits \cup {t}

(* ExportCoordinator::start_proposal: one at a time, none once it stops.   *)
ProposeExport(t) ==
    IF stop \in {"serving", "draining"} /\ leading
       /\ \A u \in Tasks : tasks[u].pc # "proposing"
    THEN Start(t, "proposing", None) ELSE End(t)

(* authorize, then the operation of the call.                              *)
Decide(t, rpc, cred, claimed) ==
    /\ tasks[t].pc = "deciding" /\ tasks[t].kind = "call"
    /\ FreshEnough /\ Allowed(rpc, cred, claimed)
    /\ CASE Operations[rpc] \in {"local", "read"} -> End(t) /\ UNCHANGED permits
         [] Operations[rpc] = "lookup" -> LookUp(t, rpc, cred) /\ UNCHANGED permits
         [] Operations[rpc] = "policy" ->
                /\ tasks' = [tasks EXCEPT ![t] = [Idle EXCEPT !.pc = "asking", !.kind = "policy"]]
                /\ UNCHANGED permits
         [] Operations[rpc] = "export" -> ProposeExport(t) /\ UNCHANGED permits
         [] Operations[rpc] = "write" -> Propose(t, None)
         [] Operations[rpc] = "security" -> \E m \in DOMAIN Mutations : Propose(t, m)
    /\ UNCHANGED <<policy, lease, acked, node>>

(* reauthorize: the credential is still bound, the grant is there.         *)
Reauthorize(t) ==
    /\ tasks[t].pc = "deciding" /\ tasks[t].kind = "again" /\ FreshEnough
    /\ \E principal \in Principals :
        /\ StillBound(LeasePolicy, tasks[t].cred, principal)
        /\ Authorize(LeasePolicy, principal, AfterLookup[tasks[t].rpc], Stream)
    /\ End(t)
    /\ UNCHANGED <<policy, lease, acked, permits, node>>

-----------------------------------------------------------------------------
(* Writes.                                                                 *)

(* apply_security_mutation: a stored result, or the policy's own apply.    *)
Outcome(m) ==
    IF receipts[m] # 0 THEN receipts[m]
    ELSE IF Accepts(policies[Latest], Mutations[m]) THEN Latest + 1 ELSE Rejected

Commits(m) ==
    /\ receipts' = [receipts EXCEPT ![m] = Outcome(m)]
    /\ policies' = IF Outcome(m) = Latest + 1
                   THEN Append(policies, Succeeding(policies[Latest], Mutations[m].change))
                   ELSE policies

(* The entry of a spawned write commits while this node leads, and is      *)
(* applied here before client_write returns; the handler goes on.          *)
WriteEnds(t) ==
    /\ tasks[t].pc \in Writing /\ permits' = permits \ {t}
    /\ IF tasks[t].mutation # None /\ leading /\ applied = Latest
       THEN /\ Commits(tasks[t].mutation) /\ applied' = Len(policies')
            /\ IF tasks[t].pc = "writing" /\ Outcome(tasks[t].mutation) # Rejected
               THEN tasks' = [tasks EXCEPT ![t] = [Idle EXCEPT !.pc = "renewing",
                                                    !.rev = Outcome(tasks[t].mutation)]]
               ELSE End(t)
       ELSE End(t) /\ UNCHANGED <<policies, receipts, applied>>
    /\ UNCHANGED <<leading, lease, acked, node>>

(* A bug: the handler's permit is the only one, so the drain does not see   *)
(* the write that outlives it.                                             *)
WriteTimesOut_DropsPermit(t) ==
    /\ tasks[t].pc = "writing" /\ Move(t, "abandoned") /\ permits' = permits \ {t}
    /\ UNCHANGED <<policy, lease, acked, node>>

(* OPERATION_TIMEOUT, or the client has gone: the write keeps its permit.  *)
WriteTimesOut(t) ==
    /\ tasks[t].pc = "writing" /\ Move(t, "abandoned")
    /\ UNCHANGED <<policy, lease, acked, permits, node>>

(* A bug: the mutation is acknowledged, the lease left as it was.          *)
AcknowledgeMutation_NoRenewal(t) ==
    /\ tasks[t].pc = "renewing" /\ End(t)
    /\ acked' = Max({acked, tasks[t].rev})
    /\ UNCHANGED <<policy, lease, permits, node>>

(* The result of ApplySecurityMutation renews the lease before the caller  *)
(* is told; an older result is answered Unavailable.                       *)
AcknowledgeMutation(t) ==
    /\ tasks[t].pc = "renewing" /\ lease' = Renewed(tasks[t].rev) /\ End(t)
    /\ acked' = IF Conflicts(tasks[t].rev) THEN acked ELSE Max({acked, tasks[t].rev})
    /\ UNCHANGED <<policy, permits, node>>

ExportEnds(t) ==
    /\ tasks[t].pc = "proposing" /\ End(t)
    /\ UNCHANGED <<policy, lease, acked, permits, node>>

-----------------------------------------------------------------------------
(* The control group, as this node sees it.                                *)

(* append_entries of the leader: authenticated by the lease, then appended *)
(* and some of it applied; the reply renews the lease.                     *)
AppendEntries(t) ==
    /\ tasks[t] = Idle /\ ~leading /\ ServersUp
    /\ PeerAdmitted
    /\ applied' \in applied .. Latest
    /\ tasks' = [tasks EXCEPT ![t] = [Idle EXCEPT !.pc = "read", !.kind = "append",
                                              !.rev = applied']]
    /\ UNCHANGED <<policies, receipts, leading, lease, acked, permits, node>>

(* What the state machine has not applied yet.                             *)
ApplyCommitted ==
    /\ leading /\ applied < Latest /\ applied' = Latest
    /\ UNCHANGED <<policies, receipts, leading, lease, acked, tasks, permits, node>>

(* The peer's certificate is verified on connections to it.                *)
BecomeLeader ==
    /\ ~leading /\ phase # "Exited" /\ PeerAdmitted
    /\ leading' = TRUE
    /\ UNCHANGED <<policies, receipts, applied, lease, acked, tasks, permits, node>>

StepDown ==
    /\ leading /\ leading' = FALSE
    /\ UNCHANGED <<policies, receipts, applied, lease, acked, tasks, permits, node>>

(* Another leader commits a mutation, one submitted here included.         *)
CommitElsewhere(m) ==
    /\ ~leading /\ receipts[m] = 0 /\ Commits(m)
    /\ UNCHANGED <<applied, leading, lease, acked, tasks, permits, node>>

-----------------------------------------------------------------------------
(* Readiness.                                                              *)

BeginSample ==
    /\ sample = "idle" /\ phase = "Running" /\ RefreshersUp
    /\ sample' = "begun" /\ current' = TRUE
    /\ UNCHANGED <<policy, lease, acked, tasks, permits, gate, phase, ready, stop, safe>>

(* calculate_write_readiness: no export, a fresh policy, and an authority  *)
(* for every group; all but the policy may be missing at any time.         *)
TakeSample ==
    /\ sample = "begun"
    /\ \/ FreshEnough /\ sample' = "yes"
       \/ sample' = "no"
    /\ UNCHANGED <<policy, lease, acked, tasks, permits, gate, phase, ready, current, stop, safe>>

(* A bug: a sample is committed whatever happened since its ticket.        *)
CommitReadiness_Late ==
    /\ sample \in {"yes", "no"} /\ ready' = (sample = "yes")
    /\ sample' = "idle" /\ current' = FALSE
    /\ UNCHANGED <<policy, lease, acked, tasks, permits, gate, phase, stop, safe>>

CommitReadiness ==
    /\ sample \in {"yes", "no"}
    /\ ready' = IF phase = "Running" /\ current THEN sample = "yes" ELSE ready
    /\ sample' = "idle" /\ current' = FALSE
    /\ UNCHANGED <<policy, lease, acked, tasks, permits, gate, phase, stop, safe>>

-----------------------------------------------------------------------------
(* The shutdown: a signal, or a server that ended.                         *)
Shut(from, to) == stop = from /\ stop' = to

(* start_drain: the gate is closed, then the phase and the generation move *)
(* on; nothing looks at both.                                              *)
StartDrain ==
    /\ Shut("serving", "draining") /\ gate' = "closed"
    /\ phase' = "Draining" /\ ready' = FALSE /\ current' = FALSE
    /\ UNCHANGED <<policy, lease, acked, tasks, permits, sample, safe>>

(* begin_shutdown waits for the bootstrap lock and stops the maintenance   *)
(* tasks and the export coordinator; a task that outlives its abort, or a  *)
(* bootstrap that does not end, makes the teardown unsafe.                 *)
StopMaintenance ==
    /\ Shut("draining", "prepared")
    /\ \/ safe' = FALSE /\ UNCHANGED tasks
       \/ /\ UNCHANGED safe
          /\ tasks' = [t \in Tasks |-> IF tasks[t].pc = "proposing" THEN Idle ELSE tasks[t]]
    /\ UNCHANGED <<policy, lease, acked, permits, gate, phase, ready, sample, current>>

(* finish_drain: no permit is left, or the deadline has passed; then       *)
(* mark_stopping, and the servers are told.                                *)
FinishDrain ==
    /\ Shut("prepared", "stopping") /\ safe' = (safe /\ permits = {})
    /\ phase' = "Stopping" /\ current' = FALSE
    /\ UNCHANGED <<policy, lease, acked, tasks, permits, gate, ready, sample>>

(* join_server_tasks: the handlers end or are aborted; spawned writes and  *)
(* the refresher stay.                                                     *)
JoinServers ==
    /\ Shut("stopping", "joined")
    /\ tasks' = [t \in Tasks |->
                    IF tasks[t].pc = "writing" THEN [tasks[t] EXCEPT !.pc = "abandoned"]
                    ELSE IF tasks[t].pc \in {"abandoned", "proposing"} \/ tasks[t].kind = "refresh"
                    THEN tasks[t] ELSE Idle]
    /\ UNCHANGED <<policy, lease, acked, permits, gate, phase, ready, sample, current, safe>>

(* RefreshTasks::stop_and_join: both are at an await, and are joined.      *)
JoinRefreshers ==
    /\ Shut("joined", "quiet") /\ sample' = "idle" /\ current' = FALSE
    /\ tasks' = [t \in Tasks |-> IF tasks[t].kind = "refresh" THEN Idle ELSE tasks[t]]
    /\ UNCHANGED <<policy, lease, acked, permits, gate, phase, ready, safe>>

(* cluster.shutdown, skipped when the teardown is not safe; run returns.   *)
Exit ==
    /\ Shut("quiet", "down") /\ phase' = "Exited" /\ leading' = FALSE
    /\ tasks' = [t \in Tasks |-> Idle] /\ permits' = {}
    /\ UNCHANGED <<policies, receipts, applied, lease, acked, gate, ready, sample, current, safe>>

(* A new process, after an exit or a crash: open_v2 reads the applied      *)
(* policy, which must hold this node's certificate, and renews the lease.  *)
Restart ==
    /\ AuthenticatePeer(policies[applied], Own)
    /\ lease' = [rev |-> applied, age |-> "fresh"] /\ leading' = FALSE
    /\ tasks' = [t \in Tasks |-> Idle] /\ permits' = {} /\ gate' = "open" /\ phase' = "Running"
    /\ ready' \in BOOLEAN /\ sample' = "idle" /\ current' = FALSE /\ stop' = "serving"
    /\ safe' = TRUE
    /\ UNCHANGED <<policies, receipts, applied, acked>>

-----------------------------------------------------------------------------
Confirming(t) == ConfirmPolicy(t) \/ NotProved(t) \/ RenewPolicy(t)
Sampling == BeginSample \/ TakeSample \/ CommitReadiness
ShuttingDown ==
    \/ StopMaintenance \/ FinishDrain \/ JoinServers \/ JoinRefreshers \/ Exit

Next ==
    \/ \E t \in Tasks :
        \/ \E kind \in {"call", "refresh"} : Begin(t, kind)
        \/ Confirming(t)
        \/ Refuse(t)
        \/ \E rpc \in Offered, cred \in Credentials, claimed \in Principals :
              Decide(t, rpc, cred, claimed)
        \/ Reauthorize(t)
        \/ WriteEnds(t)
        \/ WriteTimesOut(t)
        \/ AcknowledgeMutation(t)
        \/ ExportEnds(t)
        \/ AppendEntries(t)
    \/ ApplyCommitted
    \/ BecomeLeader
    \/ StepDown
    \/ \E m \in DOMAIN Mutations : CommitElsewhere(m)
    \/ Tick
    \/ Sampling
    \/ StartDrain
    \/ ShuttingDown
    \/ Restart

Spec == Init /\ [][Next]_vars

-----------------------------------------------------------------------------
Revoked(p, cred) == \E t \in p.tokens : SameToken(t, cred) /\ t.status = "revoked"

(* Once this node has acknowledged a policy that revokes a credential it   *)
(* accepts no call made with it; and a call that proved leadership is not  *)
(* accepted with one that was revoked, by whichever node, before its       *)
(* proof.  The second decision of a lookup is held to the same.            *)
RevokedMeansRefused ==
    [][\A t \in {u \in Tasks : tasks[u].pc = "deciding" /\ tasks'[u].pc # "deciding"} :
        LET known == policies[Max({acked, tasks[t].rev})] IN
        /\ Reauthorize(t) => ~Revoked(known, tasks[t].cred)
        /\ \A rpc \in Offered, cred \in Credentials, claimed \in Principals :
              Decide(t, rpc, cred, claimed) => ~Revoked(known, cred)]_vars

(* The policy decisions are made by never gets older, whichever of the     *)
(* concurrent confirmations, mutation results and replies to the leader    *)
(* reaches the lease last, and across a restart.                           *)
LeaseNeverGoesBack == [][lease'.rev >= lease.rev]_vars

(* A node that has begun to drain is never reported ready again, not by a  *)
(* sample that was begun before.                                           *)
NotReadyOnceDraining == phase # "Running" => ~ready

(* When the node goes on to shut its groups down, nothing uses them: no    *)
(* call, no refresh, and no write or export proposal whose caller was      *)
(* answered long ago.                                                      *)
TeardownIsQuiet == stop = "quiet" /\ safe => sample = "idle" /\ \A t \in Tasks : tasks[t] = Idle
=============================================================================
