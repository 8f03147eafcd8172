----------------------------- MODULE Membership -----------------------------
(***************************************************************************)
(* Formation of a three-voter cluster and administration of its voters:    *)
(* runtime.rs (bootstrap, form_cluster, the lifecycle calls, the           *)
(* administration reconciler, topology_sync_loop, the node manifest), the  *)
(* control commands of light-stream-storage/src/lib.rs and the topology    *)
(* of light-stream-core/src/recovery.rs.                                   *)
(*                                                                         *)
(* ctl is the history of the control group's administration state, one     *)
(* element per command that changed it; conf[g] is the history of group    *)
(* g's membership.  A node knows a prefix of each: a reconciler, an abort  *)
(* request and a manifest all act on what their own node has seen, and the *)
(* order in which these prefixes grow is what makes administration hard.   *)
(*                                                                         *)
(* Openraft is external: an entry commits when a quorum of every voter set *)
(* accepts its leader, an elected leader knows every committed entry, and  *)
(* a membership change goes through a joint configuration.                 *)
(*                                                                         *)
(* Left out: endpoints and their validation, the security profile of a     *)
(* manifest, standalone clusters, which have nothing to administer, and    *)
(* the export that excludes administration (ExportFence).                  *)
(***************************************************************************)
EXTENDS Integers, Sequences, FiniteSets, FiniteSetsExt

CONSTANTS
    Nodes,         \* the ids of all nodes, members of the formation or not
    Members,       \* FormationSpec::members
    Seed,          \* FormationSpec::seed_node_id
    Control,       \* the control group
    Data,          \* the data groups
    Requests,      \* administration request ids
    Intent,        \* the operation an operator asks for with each id
    NoRequest,     \* an empty slot
    NoNode,        \* no leader
    Fragile,       \* bound: nodes whose process may die
    MaxCrashes     \* bound: how often one of them dies

Groups == {Control} \union Data

ASSUME MembershipAssumption ==
    /\ Nodes \subseteq Nat /\ Members \subseteq Nodes /\ IsFiniteSet(Members) /\ Seed \in Members
    /\ NoNode \notin Nodes
    /\ NoRequest \notin Requests /\ Control \notin Data
    /\ Intent \in [Requests -> [kind : {"replace"}, remove : Nodes, add : Nodes, rev : Nat]
                                 \union [kind : {"transfer"}, group : Groups, target : Nodes]]
    /\ MaxCrashes \in Nat /\ Fragile \subseteq Nodes

VARIABLES
    ctl,       \* history of the control state: [topo, op, slot]
    conf,      \* per group, history of its membership: [sets, learners, booted]
    applied,   \* per node, the prefix of ctl its control replica applied
    seen,      \* per node and group, the prefix of conf[g] it knows
    leader,    \* per group, its leader
    up,        \* nodes whose process runs
    mem,       \* per node, the manifest in memory
    disk,      \* per node, cluster.json
    form,      \* the step the seed's form_cluster is at
    pass,      \* per node, the reconciler pass in progress
    abort,     \* the abort request that passed its check, and its node
    crashes

raftVars == <<conf, seen, leader>>
nodeVars == <<mem, disk>>
taskVars == <<form, pass, abort>>
membershipVars == <<ctl, conf, applied, seen, leader, up, mem, disk,
                    form, pass, abort, crashes>>

-----------------------------------------------------------------------------
(* Topology (core/recovery.rs)                                             *)

Topology == [rev : Nat, auth : SUBSET Nodes, desired : SUBSET Nodes]

\* topology_from_formation
Founding == [rev |-> 1, auth |-> Members, desired |-> Members]

\* ClusterTopology::replacement_transition, its checks and its result
CanReplace(t, i) ==
    /\ t.rev = i.rev /\ i.remove \in t.desired
    /\ i.add # i.remove /\ i.add \notin t.auth

Transition(t, i) ==
    [rev |-> t.rev + 1, auth |-> t.auth \union {i.add},
     desired |-> (t.desired \ {i.remove}) \union {i.add}]

\* replacement_complete and replacement_abort accept the same topologies
IsTransitional(t, i) ==
    /\ t.rev = i.rev + 1 /\ {i.add, i.remove} \subseteq t.auth
    /\ i.remove \notin t.desired /\ i.add \in t.desired

Completion(t, i) ==
    [rev |-> t.rev + 1, auth |-> t.auth \ {i.remove}, desired |-> t.desired]

Restoration(t, i) ==
    [rev |-> t.rev + 1, auth |-> t.auth \ {i.add},
     desired |-> (t.desired \ {i.add}) \union {i.remove}]

-----------------------------------------------------------------------------
(* The control commands (storage/lib.rs)                                   *)

NoOperations == [topo |-> Founding, op |-> [r \in Requests |-> "none"], slot |-> NoRequest]

Lifecycle == {"none", "pending", "complete", "aborted"}

\* An id that is known is answered from its record and changes nothing
CanBegin(s, r) ==
    /\ s.op[r] = "none" /\ s.slot = NoRequest
    /\ IF Intent[r].kind = "replace" THEN CanReplace(s.topo, Intent[r])
       ELSE Intent[r].target \in s.topo.desired

BeginAdministration(s, r) ==
    [topo |-> IF Intent[r].kind = "replace" THEN Transition(s.topo, Intent[r]) ELSE s.topo,
     op |-> [s.op EXCEPT ![r] = "pending"], slot |-> r]

\* Both ends of an operation ask for it to be pending and in the slot
CanEnd(s, r) ==
    /\ s.op[r] = "pending" /\ s.slot = r
    /\ Intent[r].kind = "replace" => IsTransitional(s.topo, Intent[r])

CompleteAdministration(s, r) ==
    [topo |-> IF Intent[r].kind = "replace" THEN Completion(s.topo, Intent[r]) ELSE s.topo,
     op |-> [s.op EXCEPT ![r] = "complete"], slot |-> NoRequest]

\* The slot stays taken until FinishAdministrationAbort
AbortAdministration(s, r) ==
    [topo |-> IF Intent[r].kind = "replace" THEN Restoration(s.topo, Intent[r]) ELSE s.topo,
     op |-> [s.op EXCEPT ![r] = "aborted"], slot |-> r]

CanFinishAbort(s, r) == s.op[r] = "aborted" /\ s.slot = r

FinishAdministrationAbort(s, r) == [s EXCEPT !.slot = NoRequest]

-----------------------------------------------------------------------------
(* Openraft, as runtime.rs uses it                                         *)

NoManifest == [state |-> "none", topo |-> Founding]

Last(s) == s[Len(s)]
Voters(c) == UNION c.sets
Known(c) == Voters(c) \union c.learners

Initialized(g) == conf[g] # <<>>

\* peer_cluster: a node takes Raft traffic from nodes its manifest authorizes
Accepts(n, from) ==
    /\ n \in up /\ mem[n].state # "none"
    /\ n = from \/ from \in mem[n].topo.auth

Majority(S, set) == 2 * Cardinality(S \intersect set) > Cardinality(set)

HasQuorum(g, n) ==
    \A set \in Last(conf[g]).sets : Majority({m \in Nodes : Accepts(m, n)}, set)

CanLead(g, n) ==
    /\ Initialized(g) /\ n \in up /\ mem[n].state # "none"
    /\ n \in Voters(Last(conf[g])) /\ HasQuorum(g, n)

\* A new leader knows every committed entry of its group
Lead(g, n) ==
    /\ leader' = [leader EXCEPT ![g] = n]
    /\ seen' = [seen EXCEPT ![n][g] = Len(conf[g])]
    /\ applied' = IF g = Control THEN [applied EXCEPT ![n] = Len(ctl)] ELSE applied

\* The leader's process died; a leader that runs keeps its lead until the
\* reconciler transfers it
Elect(g, n) ==
    /\ leader[g] = NoNode /\ CanLead(g, n)
    /\ Lead(g, n)
    /\ UNCHANGED <<ctl, conf, up, nodeVars, taskVars, crashes>>

\* Members that learn an entry with its leader n.  A node is behind while it
\* restarts, catches up as a new member, or refuses the leader.
Prompt(n, c) == {n} \union {m \in Known(c) : Accepts(m, n)}

\* The leader n commits a membership or bootstrap entry of g
AppendConf(n, g, c) ==
    /\ conf' = [conf EXCEPT ![g] = Append(@, c)]
    /\ seen' = [m \in Nodes |-> IF m \in Prompt(n, c)
                                 THEN [seen[m] EXCEPT ![g] = Len(conf[g]) + 1] ELSE seen[m]]

CanAppend(n, g) == leader[g] = n /\ HasQuorum(g, n)

Learn(n, g) ==
    /\ leader[g] # NoNode /\ leader[g] # n /\ Accepts(n, leader[g])
    /\ n \in Known(Last(conf[g])) /\ seen[n][g] < Len(conf[g])
    /\ seen' = [seen EXCEPT ![n][g] = Len(conf[g])]
    /\ UNCHANGED <<ctl, conf, applied, leader, up, nodeVars, taskVars, crashes>>

LearnControl(n) ==
    /\ leader[Control] # NoNode /\ Accepts(n, leader[Control])
    /\ n \in Known(Last(conf[Control])) /\ applied[n] < Len(ctl)
    /\ applied' = [applied EXCEPT ![n] = @ + 1]
    /\ UNCHANGED <<ctl, raftVars, up, nodeVars, taskVars, crashes>>

\* What a node's metrics report; only called once the group is known there
View(n, g) == conf[g][seen[n][g]]

\* membership_is_exact, on the metrics of node n
IsExact(n, g, voters) ==
    /\ seen[n][g] > 0
    /\ View(n, g).sets = {voters} /\ View(n, g).learners = {}

\* Mutant: the data groups are not asked
AllExact_ControlOnly(n, voters) == IsExact(n, Control, voters)

\* all_groups_have_membership
AllExact(n, voters) == \A g \in Groups : IsExact(n, g, voters)

AddLearner(c, n) == [c EXCEPT !.learners = @ \union {n}]

\* change_membership: the voters must be nodes of the group; a uniform
\* configuration is left through a joint one, a joint one for one of its sets.
\* runtime.rs relies on it to drop every node that does not end as a voter.
CanChange(c, voters) == voters \subseteq Known(c)

Change(c, voters) ==
    IF voters \in c.sets THEN [c EXCEPT !.sets = {voters}, !.learners = {}]
    ELSE [c EXCEPT !.sets = @ \union {voters}, !.learners = @ \ voters]

-----------------------------------------------------------------------------
(* The node manifest and the lifecycle calls (runtime.rs, manifest.rs)     *)

States == {"none", "joining", "forming", "active", "retired"}
Manifests == [state : States, topo : Topology]

\* write_manifest: the file is replaced by a rename, so memory and disk agree
Persist(n, m) ==
    /\ mem' = [mem EXCEPT ![n] = m]
    /\ disk' = [disk EXCEPT ![n] = m]

\* validate_local, the part a change of topology can break: a node opens a
\* manifest whose topology names it, or a retired one that it was formed with
CanOpen(n) ==
    \/ disk[n].state = "none" \/ n \in disk[n].topo.auth
    \/ disk[n].state = "retired" /\ n \in Members

\* The topology of the local control replica, once it has one
LocalTopo(n) == ctl[applied[n]].topo

Booted(n, g) == seen[n][g] > 0 /\ View(n, g).booted

\* prove_active: the bootstrap record in every group, the expected topology in
\* the control group, and the membership the slot allows
ProveActive(n, topo) ==
    /\ \A g \in Groups : Booted(n, g)
    /\ applied[n] > 0 /\ LocalTopo(n) = topo
    /\ LET s == ctl[applied[n]]
       IN  IF s.slot # NoRequest /\ s.op[s.slot] = "pending"
             THEN \A g \in Groups : Known(View(n, g)) \subseteq topo.auth
             ELSE AllExact(n, topo.desired)

\* topology_sync_loop: the committed topology replaces the one of the manifest
SyncTopology(n) ==
    /\ n \in up /\ mem[n].state # "none"
    /\ applied[n] > 0 /\ mem[n].topo # LocalTopo(n)
    /\ Persist(n, [mem[n] EXCEPT !.topo = LocalTopo(n)])
    /\ UNCHANGED <<ctl, applied, raftVars, up, taskVars, crashes>>

-----------------------------------------------------------------------------
(* Formation: the seed's bootstrap request                                 *)

\* form_cluster takes members in their order, and the control group first
FirstNode(S) == Min(S)
IsFirst(g, S) == g \in S /\ (Control \in S => g = Control)

\* bootstrap_three_voter: the manifest is written before any group exists; a
\* repeated request resumes the formation, or only activates the members
Bootstrap ==
    /\ Seed \in up /\ form = "idle"
    /\ IF mem[Seed].state = "none"
         THEN Persist(Seed, [state |-> "forming", topo |-> Founding])
         ELSE UNCHANGED <<mem, disk>>
    /\ form' = IF mem[Seed].state = "active" THEN "activate" ELSE "prepare"
    /\ UNCHANGED <<ctl, applied, raftVars, up, pass, abort, crashes>>

\* form_cluster, when an earlier attempt got to the end
AlreadyFormed ==
    /\ form = "prepare" /\ ProveActive(Seed, Founding)
    /\ form' = "activate"
    /\ Persist(Seed, [mem[Seed] EXCEPT !.state = "active"])
    /\ UNCHANGED <<ctl, applied, raftVars, up, pass, abort, crashes>>

\* prepare_join on a member
PrepareJoin(n) ==
    /\ form = "prepare" /\ n \in up
    /\ LET missing == {m \in Members : mem[m].state = "none"}
       IN  missing # {} /\ n = FirstNode(missing)
    /\ Persist(n, [state |-> "joining", topo |-> Founding])
    /\ UNCHANGED <<ctl, applied, raftVars, up, taskVars, crashes>>

Prepared ==
    /\ form = "prepare" /\ Members \subseteq up
    /\ \A n \in Members : mem[n].state # "none"
    /\ form' = "initialize"
    /\ UNCHANGED <<ctl, applied, raftVars, up, nodeVars, pass, abort, crashes>>

\* initialize_seed_if_pristine
Initialize(g) ==
    /\ form = "initialize" /\ IsFirst(g, {h \in Groups : ~Initialized(h)})
    /\ conf' = [conf EXCEPT ![g] = <<[sets |-> {{Seed}}, learners |-> {}, booted |-> FALSE]>>]
    /\ seen' = [seen EXCEPT ![Seed][g] = 1]
    /\ UNCHANGED <<ctl, applied, leader, up, nodeVars, taskVars, crashes>>

\* elect_seed
ElectSeed(g) ==
    /\ form = "initialize" /\ \A h \in Groups : Initialized(h)
    /\ IsFirst(g, {h \in Groups : leader[h] # Seed}) /\ CanLead(g, Seed)
    /\ Lead(g, Seed)
    /\ UNCHANGED <<ctl, conf, up, nodeVars, taskVars, crashes>>

Elected ==
    /\ form = "initialize" /\ \A g \in Groups : Initialized(g) /\ leader[g] = Seed
    /\ form' = "groups"
    /\ UNCHANGED <<ctl, applied, raftVars, up, nodeVars, pass, abort, crashes>>

\* ensure_bootstrap_command; in the control group it stores the topology
BootstrapGroup(g) ==
    /\ form = "groups" /\ CanAppend(Seed, g)
    /\ IsFirst(g, {h \in Groups : ~Last(conf[h]).booted})
    /\ AppendConf(Seed, g, [Last(conf[g]) EXCEPT !.booted = TRUE])
    /\ IF g = Control
         THEN ctl' = <<NoOperations>> /\ applied' = [applied EXCEPT ![Seed] = 1]
         ELSE UNCHANGED <<ctl, applied>>
    /\ UNCHANGED <<leader, up, nodeVars, taskVars, crashes>>

AllBooted == \A g \in Groups : Last(conf[g]).booted

\* add_learners
AddMember(g, n) ==
    /\ form = "groups" /\ AllBooted /\ CanAppend(Seed, g)
    /\ LET Missing(h) == Members \ Known(Last(conf[h]))
       IN  IsFirst(g, {h \in Groups : Missing(h) # {}}) /\ n = FirstNode(Missing(g))
    /\ AppendConf(Seed, g, AddLearner(Last(conf[g]), n))
    /\ UNCHANGED <<ctl, applied, leader, up, nodeVars, taskVars, crashes>>

\* wait_exact_replication
CaughtUp(g) ==
    /\ Members \subseteq Known(Last(conf[g]))
    /\ Cardinality(Last(conf[g]).sets) = 2 \/ \A n \in Members : seen[n][g] = Len(conf[g])
    /\ g = Control => \A n \in Members : applied[n] = Len(ctl)

\* converge_membership
Converge(g) ==
    /\ form = "groups" /\ AllBooted /\ CanAppend(Seed, g)
    /\ \A h \in Groups : CaughtUp(h) \/ Last(conf[h]).sets = {Members}
    /\ IsFirst(g, {h \in Groups : Last(conf[h]).sets # {Members}})
    /\ AppendConf(Seed, g, Change(Last(conf[g]), Members))
    /\ UNCHANGED <<ctl, applied, leader, up, nodeVars, taskVars, crashes>>

\* The proof at the end of form_cluster, and set_active
FormCluster ==
    /\ form = "groups" /\ ProveActive(Seed, Founding)
    /\ form' = "activate"
    /\ Persist(Seed, [mem[Seed] EXCEPT !.state = "active"])
    /\ UNCHANGED <<ctl, applied, raftVars, up, pass, abort, crashes>>

\* activate on a member: it proves the formation on its own replicas
Activate(n) ==
    /\ form = "activate" /\ n \in up /\ mem[n].state # "none"
    /\ LET waiting == {m \in Members : mem[m].state # "active"}
       IN  waiting # {} /\ n = FirstNode(waiting)
    /\ ProveActive(n, mem[n].topo)
    /\ Persist(n, [mem[n] EXCEPT !.state = "active"])
    /\ UNCHANGED <<ctl, applied, raftVars, up, taskVars, crashes>>

\* The request returns when every member is active, or fails and is repeated
EndBootstrap ==
    /\ \/ form = "activate" /\ (\A n \in Members : mem[n].state = "active") /\ form' = "done"
       \/ form \notin {"idle", "done"} /\ ~(Members \subseteq up) /\ form' = "idle"
    /\ UNCHANGED <<ctl, applied, raftVars, up, nodeVars, pass, abort, crashes>>

-----------------------------------------------------------------------------
(* Crash and restart                                                       *)

NoPass == [step |-> "none"]
NoAbort == [node |-> NoNode, req |-> NoRequest]

\* bound: a process dies while a formation or a replacement is in progress
Crash(n) ==
    /\ form = "done" => Last(ctl).topo.auth # Last(ctl).topo.desired
    /\ n \in up \intersect Fragile /\ mem[n].state # "none" /\ crashes < MaxCrashes /\ crashes' = crashes + 1
    /\ up' = up \ {n}
    /\ mem' = [mem EXCEPT ![n] = NoManifest]
    /\ pass' = [pass EXCEPT ![n] = NoPass]
    /\ abort' = IF abort.node = n THEN NoAbort ELSE abort
    /\ leader' = [g \in Groups |-> IF leader[g] = n THEN NoNode ELSE leader[g]]
    /\ form' = IF n = Seed /\ form # "done" THEN "idle" ELSE form
    /\ UNCHANGED <<ctl, conf, applied, seen, disk>>

\* open, open_v2, create_v2: the topology the control replica committed
\* replaces the one of the manifest, and the manifest is written again
Restart(n) ==
    /\ n \notin up /\ CanOpen(n)
    /\ up' = up \union {n}
    /\ Persist(n, IF applied[n] = 0 \/ disk[n].state = "none" THEN disk[n]
                  ELSE [disk[n] EXCEPT !.topo = LocalTopo(n)])
    /\ UNCHANGED <<ctl, applied, raftVars, taskVars, crashes>>

-----------------------------------------------------------------------------
(* Administration: the operator's requests                                 *)

\* operational_probe_loop: only an active node that leads with a quorum probes,
\* and require_operational_leader admits nobody else
Operational(g, n) == leader[g] = n /\ mem[n].state = "active" /\ HasQuorum(g, n)

\* application_cluster
Serves(n) ==
    /\ n \in up /\ mem[n].state = "active" /\ n \in mem[n].topo.auth
    /\ seen[n][Control] > 0 /\ n \in Voters(View(n, Control))

\* control_administration_write: require_operational_leader, then a proposal
CanWrite(n) == form = "done" /\ Operational(Control, n)

\* Members that miss nothing take the entry, and its topology into the manifest
Commit(n, s) ==
    LET prompt == {m \in Prompt(n, Last(conf[Control])) : applied[m] = Len(ctl)}
        Follow(f) == [m \in Nodes |-> IF m \in prompt THEN [f[m] EXCEPT !.topo = s.topo] ELSE f[m]]
    IN  /\ ctl' = Append(ctl, s)
        /\ applied' = [m \in Nodes |-> IF m \in prompt THEN Len(ctl) + 1 ELSE applied[m]]
        /\ mem' = Follow(mem) /\ disk' = Follow(disk)

Begin(n, r) ==
    /\ Serves(n) /\ CanWrite(n) /\ CanBegin(Last(ctl), r)
    /\ Commit(n, BeginAdministration(Last(ctl), r))
    /\ UNCHANGED <<raftVars, up, taskVars, crashes>>

\* The voters before the replacement, from the topology the node has applied
Original(n, i) == (LocalTopo(n).desired \ {i.add}) \union {i.remove}

\* abort_administration, its check on the local metrics
AbortAllowed(n, r) ==
    /\ applied[n] > 0 /\ ctl[applied[n]].op[r] # "none"
    /\ Intent[r].kind = "replace" => AllExact(n, Original(n, Intent[r]))

RequestAbort(n, r) ==
    /\ Serves(n) /\ abort = NoAbort /\ AbortAllowed(n, r)
    \* any other request of an abort changes nothing
    /\ Last(ctl).op[r] = "pending" /\ leader[Control] = n
    /\ abort' = [node |-> n, req |-> r]
    /\ UNCHANGED <<ctl, applied, raftVars, up, nodeVars, form, pass, crashes>>

\* The proposal that follows the check; a node that lost the lead is refused
SubmitAbort ==
    /\ abort # NoAbort
    /\ IF leader[Control] = abort.node /\ CanEnd(Last(ctl), abort.req)
         THEN CanWrite(abort.node) /\ Commit(abort.node, AbortAdministration(Last(ctl), abort.req))
         ELSE UNCHANGED <<ctl, applied, mem, disk>>
    /\ abort' = NoAbort
    /\ UNCHANGED <<raftVars, up, form, pass, crashes>>

-----------------------------------------------------------------------------
(* Administration: the reconciler                                          *)

Slot(n) == ctl[applied[n]].slot
IsPending(n) == ctl[applied[n]].op[Slot(n)] = "pending"

Goto(n, step) == pass' = [pass EXCEPT ![n].step = step]
EndPass(n) == pass' = [pass EXCEPT ![n] = NoPass]

\* prepare_replacement refuses a topology older than the one in the manifest
AcceptsTopology(n, topo) == mem[n].state = "none" \/ mem[n].topo.rev <= topo.rev

\* prepare_replacement on the incoming node
PrepareReplacement(n, topo) ==
    Persist(n, [state |-> IF mem[n].state = "none" THEN "joining" ELSE mem[n].state, topo |-> topo])

\* administration_reconciler_loop reads the operation and its topology and acts
\* on them until the pass ends; a replacement starts with prepare_replacement.
\* Passes of nodes that lead nothing, which end after that call, are left out.
StartPass(n) ==
    /\ n \in up /\ mem[n].state \notin {"none", "retired"} /\ pass[n] = NoPass
    /\ \E g \in Groups : leader[g] = n
    /\ applied[n] > 0 /\ Slot(n) # NoRequest
    /\ LET i == Intent[Slot(n)]
           Begun(step) == [step |-> step, req |-> Slot(n), aborted |-> ~IsPending(n),
                           topo |-> LocalTopo(n), todo |-> Groups]
       IN  IF i.kind = "replace" /\ IsPending(n)
             THEN /\ i.add \in up /\ AcceptsTopology(i.add, LocalTopo(n))
                  /\ PrepareReplacement(i.add, LocalTopo(n))
                  /\ pass' = [pass EXCEPT ![n] = Begun("groups")]
             ELSE /\ pass' = [pass EXCEPT ![n] = Begun(IF IsPending(n) THEN "transfer" ELSE "groups")]
                  /\ UNCHANGED <<mem, disk>>
    /\ UNCHANGED <<ctl, applied, raftVars, up, form, abort, crashes>>

\* The groups this pass still has to look at, lead and change
Work(n) == {g \in pass[n].todo : leader[g] = n /\ ~IsExact(n, g, pass[n].topo.desired)}

\* A group is done for this pass; one left in a joint configuration is not
Done(n, g) ==
    pass' = [pass EXCEPT ![n].todo = IF Cardinality(Last(conf'[g]).sets) = 2 THEN @ ELSE @ \ {g}]

ChangeTo(n, g, voters) ==
    IF CanChange(Last(conf[g]), voters)
      THEN /\ CanAppend(n, g)
           /\ AppendConf(n, g, Change(Last(conf[g]), voters))
           /\ Done(n, g)
      ELSE EndPass(n) /\ UNCHANGED <<conf, seen>>

\* reconcile_membership_target, after an abort
ReconcileTarget(n, g) ==
    /\ pass[n].aborted
    /\ ChangeTo(n, g, pass[n].topo.desired)
    /\ UNCHANGED <<applied, leader>>

\* Mutant: the outgoing voter changes the membership while it leads
MayChange_Leader(n, i) == TRUE

\* The outgoing voter gives the lead away before the membership changes
MayChange(n, i) == n # i.remove

\* reconcile_replacement_group
ReconcileReplacement(n, g) ==
    /\ ~pass[n].aborted
    /\ LET i == Intent[pass[n].req]
       IN  \/ /\ i.add \notin Known(Last(conf[g]))
              /\ CanAppend(n, g) /\ AppendConf(n, g, AddLearner(Last(conf[g]), i.add))
              /\ Done(n, g) /\ UNCHANGED <<applied, leader>>
           \/ /\ i.add \in Known(Last(conf[g])) /\ MayChange(n, i)
              /\ ChangeTo(n, g, pass[n].topo.desired) /\ UNCHANGED <<applied, leader>>
           \/ /\ i.add \in Known(Last(conf[g])) /\ ~MayChange(n, i)
              /\ LET t == Min((Voters(Last(conf[g])) \intersect pass[n].topo.desired) \ {i.remove})
                 IN  CanLead(g, t) /\ Lead(g, t)
              /\ pass' = [pass EXCEPT ![n].todo = @ \ {g}] /\ UNCHANGED conf

ReconcileGroup(n, g) ==
    /\ pass[n].step = "groups" /\ g \in Work(n)
    /\ Control \in Work(n) => g = Control
    /\ ReconcileTarget(n, g) \/ ReconcileReplacement(n, g)
    /\ UNCHANGED <<ctl, up, nodeVars, form, abort, crashes>>

\* all_groups_have_membership and the lead of the control group
CheckGroups(n) ==
    /\ pass[n].step = "groups" /\ Work(n) = {}
    /\ IF AllExact(n, pass[n].topo.desired) /\ leader[Control] = n
         THEN Goto(n, IF pass[n].aborted THEN "finish" ELSE "retire")
         ELSE EndPass(n)
    /\ UNCHANGED <<ctl, applied, raftVars, up, nodeVars, form, abort, crashes>>

\* retire_replacement on the outgoing node
RetireReplacement(n) ==
    /\ pass[n].step = "retire"
    /\ LET i == Intent[pass[n].req]
       IN  IF i.remove \in up
             THEN /\ Persist(i.remove, [state |-> "retired", topo |-> Completion(pass[n].topo, i)])
                  /\ Goto(n, "activate")
             ELSE EndPass(n) /\ UNCHANGED <<mem, disk>>
    /\ UNCHANGED <<ctl, applied, raftVars, up, form, abort, crashes>>

\* activate_replacement on the incoming node: the topology is taken into memory
\* before the proof, and stays there when the proof fails
ActivateReplacement(n) ==
    /\ pass[n].step = "activate"
    /\ LET add == Intent[pass[n].req].add
       IN  IF add \in up /\ mem[add].state # "none"
             THEN IF ProveActive(add, pass[n].topo)
                    THEN Persist(add, [state |-> "active", topo |-> pass[n].topo]) /\ Goto(n, "complete")
                    ELSE mem' = [mem EXCEPT ![add].topo = pass[n].topo] /\ UNCHANGED disk /\ EndPass(n)
             ELSE EndPass(n) /\ UNCHANGED <<mem, disk>>
    /\ UNCHANGED <<ctl, applied, raftVars, up, form, abort, crashes>>

\* The last write of a pass; a node that lost the lead gives up
EndOperation(n) ==
    /\ pass[n].step \in {"complete", "finish"}
    /\ LET r == pass[n].req
           s == Last(ctl)
       IN  IF leader[Control] # n THEN UNCHANGED <<ctl, applied, mem, disk>>
           ELSE /\ CanWrite(n)
                /\ IF pass[n].step = "complete" /\ CanEnd(s, r)
                     THEN Commit(n, CompleteAdministration(s, r))
                   ELSE IF pass[n].step = "finish" /\ CanFinishAbort(s, r)
                     THEN Commit(n, FinishAdministrationAbort(s, r))
                   ELSE UNCHANGED <<ctl, applied, mem, disk>>
    /\ EndPass(n)
    /\ UNCHANGED <<raftVars, up, form, abort, crashes>>

\* reconcile_leader_transfer and leader_transfer_is_complete
ReconcileTransfer(n) ==
    /\ pass[n].step = "transfer"
    /\ LET i == Intent[pass[n].req]
       IN  IF leader[i.group] = n /\ n # i.target
             THEN /\ CanLead(i.group, i.target) /\ Lead(i.group, i.target)
                  /\ EndPass(n)
             ELSE /\ IF Operational(i.group, i.target) /\ leader[Control] = n
                       THEN Goto(n, "complete") ELSE EndPass(n)
                  /\ UNCHANGED <<applied, seen, leader>>
    /\ UNCHANGED <<ctl, conf, up, nodeVars, form, abort, crashes>>

-----------------------------------------------------------------------------
MembershipInit ==
    /\ ctl = <<>> /\ conf = [g \in Groups |-> <<>>]
    /\ applied = [n \in Nodes |-> 0] /\ seen = [n \in Nodes |-> [g \in Groups |-> 0]]
    /\ leader = [g \in Groups |-> NoNode]
    /\ up = Nodes
    /\ mem = [n \in Nodes |-> NoManifest] /\ disk = mem
    /\ form = "idle" /\ pass = [n \in Nodes |-> NoPass] /\ abort = NoAbort
    /\ crashes = 0

Formation ==
    \/ Bootstrap \/ AlreadyFormed \/ Prepared \/ Elected \/ FormCluster \/ EndBootstrap
    \/ \E n \in Members : PrepareJoin(n) \/ Activate(n) \/ \E g \in Groups : AddMember(g, n)
    \/ \E g \in Groups : Initialize(g) \/ ElectSeed(g) \/ BootstrapGroup(g) \/ Converge(g)

Raft ==
    \E n \in Nodes : LearnControl(n) \/ \E g \in Groups : Learn(n, g) \/ Elect(g, n)

Reconcile(n) ==
    \/ StartPass(n) \/ CheckGroups(n) \/ RetireReplacement(n)
    \/ ActivateReplacement(n) \/ EndOperation(n) \/ ReconcileTransfer(n)
    \/ \E g \in Groups : ReconcileGroup(n, g)

MembershipNext ==
    \/ Formation \/ Raft \/ SubmitAbort
    \/ \E n \in Nodes :
          \/ Reconcile(n) \/ SyncTopology(n) \/ Crash(n) \/ Restart(n)
          \/ \E r \in Requests : Begin(n, r) \/ RequestAbort(n, r)

MembershipSpec == MembershipInit /\ [][MembershipNext]_membershipVars

\* Processes are restarted, the operator repeats a bootstrap that failed, a
\* group with a quorum elects a leader, members receive its entries, and the
\* loops of a running node come round.  Nothing makes an operator begin or
\* abort an operation, or a node die.
Fairness ==
    /\ WF_membershipVars(Formation) /\ WF_membershipVars(SubmitAbort)
    /\ WF_membershipVars(\E g \in Groups, n \in Nodes : Elect(g, n))
    /\ WF_membershipVars(\E n \in Nodes : Restart(n) \/ LearnControl(n) \/ \E g \in Groups : Learn(n, g))
    /\ WF_membershipVars(\E n \in Nodes : SyncTopology(n))
    /\ \A n \in Nodes : WF_membershipVars(Reconcile(n))

LiveSpec == MembershipSpec /\ Fairness

-----------------------------------------------------------------------------
(* Properties                                                              *)

Exact(c, voters) == c.sets = {voters} /\ c.learners = {}

\* In every control state the authorized nodes are the desired voters, plus the
\* outgoing node of the one replacement that is pending, and the number of
\* voters never changes: whatever operations begin, complete or abort, and in
\* which order (apply_begin_, apply_complete_ and apply_abort_administration).
TopologyMatchesOperation ==
    \A i \in DOMAIN ctl :
        LET s == ctl[i]
            leaving == {Intent[r].remove : r \in {q \in Requests :
                            s.op[q] = "pending" /\ Intent[q].kind = "replace"}}
        IN  /\ s.topo.auth = s.topo.desired \union leaving
            /\ leaving \intersect s.topo.desired = {}
            /\ Cardinality(s.topo.desired) = Cardinality(Members)
            /\ \A r \in Requests : s.op[r] = "pending" => s.slot = r

\* The lifecycle of an operation in the latest control state
Status(r) == IF ctl = <<>> THEN "none" ELSE Last(ctl).op[r]

Replaced(n) == \E r \in Requests :
    Intent[r].kind = "replace" /\ Intent[r].remove = n /\ Status(r) # "none"

Incoming(n) == \E r \in Requests :
    Intent[r].kind = "replace" /\ Intent[r].add = n /\ Status(r) # "none"

\* A node records that it is retired only when no group counts on it any more,
\* unless a replacement was begun that brings it back (prepare_replacement keeps
\* the state of its manifest), and that it is active only when every group is
\* bootstrapped and has it as a voter, unless it is the one being replaced
\* (retire_replacement, set_active).
ManifestsFollowGroups ==
    \A n \in Nodes : \A m \in {mem[n], disk[n]} : \A g \in Groups :
        /\ m.state = "retired" => n \notin Known(Last(conf[g])) \/ Incoming(n)
        /\ m.state = "active" => Initialized(g) /\ Last(conf[g]).booted
                                 /\ (n \in Voters(Last(conf[g])) \/ Replaced(n))

\* Once an operation completed and the slot is free, every group has exactly the
\* desired voters and no learner (reconcile_administration completes only after
\* all_groups_have_membership, on the metrics of one node).
CompletionMeansExact ==
    (form = "done" /\ Last(ctl).slot = NoRequest
        /\ \A r \in Requests : Last(ctl).op[r] # "aborted")
    => \A g \in Groups : Exact(Last(conf[g]), Last(ctl).topo.desired)

\* The three places that say who belongs to the cluster, the control group's
\* topology, the groups' memberships and the nodes' manifests, agree as far as an
\* operation that may die between any two of them has come.
MembershipAgrees == TopologyMatchesOperation /\ ManifestsFollowGroups /\ CompletionMeansExact

\* A node that has a manifest can open it again (validate_local in open_v2).
ManifestsReopen == \A n \in Nodes : CanOpen(n)

\* Formation ends with every member active, and every operation is completed or
\* aborted, whatever dies on the way, unless a node can no longer open its
\* manifest (bootstrap_three_voter resumes from the manifests and groups it
\* finds, administration_reconciler_loop from the operation in the slot).
Settled == form = "done" /\ \A r \in Requests : Status(r) # "pending"

MembershipSettles == []<>(Settled \/ ~ManifestsReopen)
=============================================================================
