----------------------------- MODULE ExportFence -----------------------------
(***************************************************************************)
(* A logical export of the whole cluster: the control group and every data *)
(* group are fenced one after the other, the control leader builds the     *)
(* artifact from its copies of the groups, the client completes or aborts, *)
(* and every fence is released before the export ends (core operations.rs, *)
(* the Export commands of storage lib.rs, reconcile_export_tick of         *)
(* runtime.rs, logical_export.rs).                                         *)
(*                                                                         *)
(* The groups' states are the replicated, committed ones.  Every node runs *)
(* the reconciler on the copies it has applied, which may be old, and      *)
(* submits what it finds missing; a submitted command may be applied much  *)
(* later, and other nodes and clients submit it again.  So a command can   *)
(* be applied at any moment after the first at which some node could have  *)
(* proposed it, any number of times, whatever became of its export.        *)
(*                                                                         *)
(* A GroupCut is modelled by the number of exported mutations below it,    *)
(* an artifact by what it holds of each group, and a fence token by its    *)
(* epoch: ApplyBegin gives an epoch to one export only, so the digest in   *)
(* the token separates no two tokens that the epoch does not.              *)
(***************************************************************************)
EXTENDS Naturals, FiniteSets

CONSTANTS
    Control,        \* the control group
    Groups,         \* KEY_DATA_GROUP_POOL, the configured data groups
    Sessions,       \* client sessions
    MaxSequence,    \* bound: the sequences of a session's Begin requests
    Payloads,       \* what a Begin asks for: selection, format and deadline
    ReceiptWindow,  \* receipt_window
    MaxContent,     \* bound: exported mutations of a group
    None

(* ExportSpec::try_new refuses an empty group set.                         *)
ASSUME ExportAssumption ==
    /\ IsFiniteSet(Groups) /\ Groups # {} /\ Control \notin Groups
    /\ MaxSequence \in Nat /\ ReceiptWindow \in Nat \ {0}
    /\ MaxContent \in Nat

Requests == [session : Sessions, sequence : 1 .. MaxSequence]
AllGroups == Groups \cup {Control}
Artifacts == [AllGroups -> Nat]

(* Phases in which the cut of all the groups is recorded and kept.         *)
Cut == {"Frozen", "Materializing", "Available"}
Ending == {"Releasing", "Aborting"}
Phases == {"None", "Preparing"} \cup Cut \cup Ending
Reasons == {"OperatorRequested", "DeadlineExceeded", "MaterializationFailed"}

VARIABLES
    active,    \* KEY_ACTIVE_EXPORT
    epoch,     \* KEY_EXPORT_EPOCH
    receipts,  \* EXPORT_RECEIPT_PREFIX: the terminal receipts
    highest,   \* ExportSessionState of each session, 0 when there is none
    fence,     \* KEY_MUTATION_FENCE of every group
    content,   \* the exported mutations every group has applied
    behind,    \* groups whose last fence change the control leader's node has yet to apply
    build,     \* OwnedMaterialization
    built,     \* the ready artifacts of each export, on any node
    failed,    \* a build of the active export has ended in a deterministic error
    expired,   \* its deadline has definitely elapsed, by the clock of some node
    begun,     \* history: the epochs each request was given
    told       \* history: the terminal outcomes its retries were answered

control == <<active, epoch, receipts, highest, begun>>
groups == <<fence, content, behind>>
builds == <<build, built, failed>>
vars == <<control, groups, builds, expired, told>>

-----------------------------------------------------------------------------
(* Option<ActiveExport>: the fields a phase does not have keep defaults.   *)
NoCut == [g \in AllGroups |-> 0]

NoRequest == [session |-> None, sequence |-> 0]

NoExport ==
    [phase |-> "None", request |-> NoRequest, payload |-> None,
     epoch |-> 0, fenced |-> {}, cut |-> NoCut, artifact |-> NoCut,
     reason |-> "OperatorRequested", released |-> {}]

NoBuild == [epoch |-> 0, request |-> NoRequest, cut |-> NoCut, read |-> {}, part |-> NoCut]

(* held: Option<HeldExportFence>, the epoch of its token or 0.             *)
OpenFence == [through |-> 0, held |-> 0, cut |-> 0]

Init ==
    /\ active = NoExport /\ epoch = 0 /\ highest = [s \in Sessions |-> 0]
    /\ receipts = [r \in {} |-> 0]
    /\ fence = [g \in AllGroups |-> OpenFence]
    /\ content = [g \in AllGroups |-> 0]
    /\ behind = {}
    /\ build = NoBuild /\ built = [r \in Requests |-> {}] /\ failed = FALSE /\ expired = FALSE
    /\ begun = [r \in Requests |-> {}] /\ told = [r \in Requests |-> {}]

(* Mutant: a delayed acquire of a released epoch fences the group again.   *)
Acquire_NoWatermark(f, e, cut) ==
    IF f.held # 0 THEN f ELSE [f EXCEPT !.held = e, !.cut = cut]

(* MutationFenceState::acquire: an epoch at or below the watermark leaves  *)
(* the fence as it is, a held fence is acquired again with its old cut.    *)
Acquire(f, e, cut) ==
    IF e <= f.through \/ f.held # 0 THEN f ELSE [f EXCEPT !.held = e, !.cut = cut]

(* Mutant: a group that was never fenced keeps its watermark.              *)
Release_OnlyHeld(f, e) ==
    IF f.held # e THEN f
    ELSE [through |-> IF e > f.through THEN e ELSE f.through, held |-> 0, cut |-> 0]

(* MutationFenceState::release_for_group.                                  *)
Release(f, e) ==
    IF f.held \notin {0, e} THEN f
    ELSE [through |-> IF e > f.through THEN e ELSE f.through, held |-> 0, cut |-> 0]

(* Mutant: the highest finished sequence counts as new.                    *)
Expired_Strict(r) == r.sequence < highest[r.session]

(* export_request_expired.                                                 *)
Expired(r) == r.sequence <= highest[r.session]

(* What a terminal answer says.                                            *)
Tell(r) == told' = [told EXCEPT ![r] = @ \cup {receipts[r].outcome}]

-----------------------------------------------------------------------------
(* apply_begin_export, on a retry whose receipt is still kept.             *)
ReplayBegin(r, p) ==
    /\ r \in DOMAIN receipts /\ receipts[r].payload = p
    /\ Tell(r)
    /\ UNCHANGED <<control, groups, builds, expired>>

(* apply_begin_export: the control group fences itself with the entry that *)
(* starts the export.  Every other Begin is refused and changes nothing.   *)
Begin(r, p) ==
    /\ r \notin DOMAIN receipts
    /\ active.phase = "None"
    /\ ~Expired(r)
    /\ fence[Control].held = 0
    /\ epoch' = epoch + 1
    /\ fence' = [fence EXCEPT ![Control] = Acquire(@, epoch', content[Control])]
    /\ active' = [NoExport EXCEPT !.phase = "Preparing", !.request = r, !.payload = p,
                                  !.epoch = epoch',
                                  !.cut = [NoCut EXCEPT ![Control] = content[Control]]]
    /\ begun' = [begun EXCEPT ![r] = @ \cup {epoch'}]
    /\ UNCHANGED <<receipts, highest, content, behind, builds, expired, told>>

(* A data leader that has seen export e in preparation, without this group *)
(* fenced, submits AcquireFence; so could a node from its beginning on.    *)
AcquireFence(e, g) ==
    /\ e \in 1 .. epoch
    /\ fence' = [fence EXCEPT ![g] = Acquire(@, e, content[g])]
    /\ behind' = IF fence'[g] = fence[g] THEN behind ELSE behind \cup {g}
    /\ UNCHANGED <<control, content, builds, expired, told>>

(* The control leader finds the fence held in its own copy of the group    *)
(* and submits RecordFence; ActiveExport::record_fence.  The observation   *)
(* of an export past its preparation changes nothing.                      *)
RecordFence(g) ==
    /\ active.phase = "Preparing" /\ g \notin active.fenced
    /\ g \notin behind /\ fence[g].held = active.epoch
    /\ LET fenced == active.fenced \cup {g}
       IN  active' = [active EXCEPT !.fenced = fenced,
                                    !.cut[g] = fence[g].cut,
                                    !.phase = IF fenced = Groups THEN "Frozen" ELSE @]
    /\ UNCHANGED <<epoch, receipts, highest, begun, groups, builds, expired, told>>

(* ActiveExport::begin_materialization.                                    *)
BeginMaterialization ==
    /\ active.phase = "Frozen"
    /\ active' = [active EXCEPT !.phase = "Materializing"]
    /\ UNCHANGED <<epoch, receipts, highest, begun, groups, builds, expired, told>>

-----------------------------------------------------------------------------
(* A node that leads the control group starts the materialization thread,  *)
(* which reads the control group (prepare_from_control_snapshot).          *)
StartBuild ==
    /\ active.phase \in {"Materializing", "Available"} /\ build = NoBuild
    /\ fence[Control].held = active.epoch /\ fence[Control].cut = active.cut[Control]
    /\ build' = [NoBuild EXCEPT !.epoch = active.epoch, !.request = active.request,
                                !.cut = active.cut,
                                !.part = [NoCut EXCEPT ![Control] = content[Control]]]
    /\ UNCHANGED <<control, groups, built, failed, expired, told>>

(* Mutant: the fence is not checked when the group is read.                *)
CutIsApplied_Unchecked(g) == g \notin behind

(* require_applied and require_fence, on the node's own copy of the group. *)
CutIsApplied(g) ==
    /\ g \notin behind
    /\ fence[g].held = build.epoch /\ fence[g].cut = build.cut[g]

(* data_group_with_hook, materialize_data_group.  To read a copy that has  *)
(* yet to apply the release is to have read it before the release.         *)
ReadGroup(g) ==
    /\ build # NoBuild /\ g \notin build.read
    /\ CutIsApplied(g)
    /\ build' = [build EXCEPT !.read = @ \cup {g}, !.part[g] = content[g]]
    /\ UNCHANGED <<control, groups, built, failed, expired, told>>

(* A limit, a corrupt record or a copy that has yet to apply the cut fails *)
(* the build.  Any error but a cancellation or an I/O error is             *)
(* deterministic: the control leader asks for an abort                     *)
(* (poll_export_materialization).                                          *)
FailBuild ==
    /\ build # NoBuild
    /\ failed' = (failed \/ build.request = active.request)
    /\ build' = NoBuild
    /\ UNCHANGED <<control, groups, built, expired, told>>

(* materialize_sync renames the file to its ready name.  A rebuild that    *)
(* differs from the published artifact asks for an abort.                  *)
FinishBuild ==
    /\ build # NoBuild /\ build.read = Groups
    /\ built' = [built EXCEPT ![build.request] = @ \cup {build.part}]
    /\ failed' = \/ failed
                  \/ /\ active.phase = "Available" /\ active.request = build.request
                     /\ active.artifact # build.part
    /\ build' = NoBuild
    /\ UNCHANGED <<control, groups, expired, told>>

(* Another node becomes the control leader: its copies may be older, and   *)
(* the old leader cancels its thread.                                      *)
ChangeLeader ==
    /\ behind' \in SUBSET Groups
    /\ build' = NoBuild
    /\ UNCHANGED <<control, fence, content, built, failed, expired, told>>

(* The control leader's node applies the group's log.                      *)
CatchUp(g) ==
    /\ g \in behind
    /\ behind' = behind \ {g}
    /\ UNCHANGED <<control, fence, content, builds, expired, told>>

(* ActiveExport::publish_artifact, with a ready file of the export, also   *)
(* one that recover_ready finds after a restart.                           *)
PublishArtifact(a) ==
    /\ active.phase = "Materializing" /\ a \in built[active.request]
    /\ active' = [active EXCEPT !.phase = "Available", !.artifact = a]
    /\ UNCHANGED <<epoch, receipts, highest, begun, groups, builds, expired, told>>

-----------------------------------------------------------------------------
(* apply_request_export_completion, for an export that has ended.          *)
ReplayCompletion(r, a) ==
    /\ active.phase = "None" /\ r \in DOMAIN receipts
    /\ receipts[r].outcome = [completed |-> TRUE, artifact |-> a, reason |-> "OperatorRequested"]
    /\ Tell(r)
    /\ UNCHANGED <<control, groups, builds, expired>>

(* apply_request_export_completion, ActiveExport::request_completion.  Any *)
(* other artifact is refused.                                              *)
RequestCompletion(r, a) ==
    /\ active.phase = "Available" /\ active.request = r /\ active.artifact = a
    /\ active' = [active EXCEPT !.phase = "Releasing", !.released = {}]
    /\ UNCHANGED <<epoch, receipts, highest, begun, groups, builds, expired, told>>

(* Who may ask for an abort: the operator at any time, the control leader  *)
(* once its clock is definitely past the deadline, or after a failed build.*)
MayAbort(reason) ==
    \/ reason = "OperatorRequested"
    \/ reason = "DeadlineExceeded" /\ expired
    \/ reason = "MaterializationFailed" /\ failed

(* apply_request_export_abort, for an export that has ended: the request   *)
(* that ended it is submitted again.                                       *)
ReplayAbort(r, reason) ==
    /\ active.phase = "None" /\ r \in DOMAIN receipts
    /\ ~receipts[r].outcome.completed /\ receipts[r].outcome.reason = reason
    /\ Tell(r)
    /\ UNCHANGED <<control, groups, builds, expired>>

(* Mutant: an abort overtakes a completion that is being released.         *)
RequestAbort_WhileReleasing(r, reason) ==
    /\ MayAbort(reason)
    /\ active.request = r /\ active.phase \in {"Preparing", "Releasing"} \cup Cut
    /\ active' = [active EXCEPT !.phase = "Aborting", !.reason = reason, !.released = {}]
    /\ UNCHANGED <<epoch, receipts, highest, begun, groups, builds, expired, told>>

(* apply_request_export_abort, ActiveExport::request_abort.                *)
RequestAbort(r, reason) ==
    /\ MayAbort(reason)
    /\ active.request = r /\ active.phase \in {"Preparing"} \cup Cut
    /\ active' = [active EXCEPT !.phase = "Aborting", !.reason = reason, !.released = {}]
    /\ UNCHANGED <<epoch, receipts, highest, begun, groups, builds, expired, told>>

(* A data leader that has seen export e releasing or aborting submits      *)
(* ReleaseFence, whether or not the group was ever fenced for it.          *)
HasEnded(e) == e \in 1 .. epoch /\ (e = active.epoch => active.phase \in Ending)

ReleaseFence(e, g) ==
    /\ HasEnded(e)
    /\ fence' = [fence EXCEPT ![g] = Release(@, e)]
    /\ behind' = IF fence'[g] = fence[g] THEN behind ELSE behind \cup {g}
    /\ UNCHANGED <<control, content, builds, expired, told>>

(* The control leader finds its copy of the group open and past the epoch  *)
(* (reconcile_export_release), ActiveExport::record_release.               *)
RecordRelease(g) ==
    /\ active.phase \in Ending
    /\ g \notin behind /\ fence[g].held = 0 /\ fence[g].through >= active.epoch
    /\ active' = [active EXCEPT !.released = @ \cup {g}]
    /\ UNCHANGED <<epoch, receipts, highest, begun, groups, builds, expired, told>>

(* ActiveExport::receipt.                                                  *)
Outcome ==
    IF active.phase = "Releasing"
    THEN [completed |-> TRUE, artifact |-> active.artifact, reason |-> "OperatorRequested"]
    ELSE [completed |-> FALSE, artifact |-> NoCut, reason |-> active.reason]

(* evict_export_receipts: with the new receipt the window is exceeded by   *)
(* excess, and that many of the oldest others go.                          *)
Kept(r) ==
    LET others == DOMAIN receipts \ {r}
        newer(q) == {o \in others : receipts[o].epoch > receipts[q].epoch}
    IN  {r} \cup {q \in others : Cardinality(newer(q)) + 1 < ReceiptWindow}

(* apply_finish_export.                                                    *)
Finish ==
    /\ active.phase \in Ending /\ active.released = Groups
    /\ fence[Control].held \in {0, active.epoch}
    /\ fence' = [fence EXCEPT ![Control] = Release(@, active.epoch)]
    /\ active' = NoExport /\ failed' = FALSE /\ expired' = FALSE
    /\ LET r == active.request
           receipt == [epoch |-> active.epoch, payload |-> active.payload, outcome |-> Outcome]
       IN  /\ receipts' = [q \in Kept(r) |-> IF q = r THEN receipt ELSE receipts[q]]
           /\ highest' = [highest EXCEPT ![r.session] = IF r.sequence > @ THEN r.sequence ELSE @]
           /\ told' = [told EXCEPT ![r] = @ \cup {Outcome}]
    /\ UNCHANGED <<epoch, begun, content, behind, build, built>>

-----------------------------------------------------------------------------
(* apply_command of an IncludedMutation: refused while the fence is held.  *)
Mutate(g) ==
    /\ fence[g].held = 0 /\ content[g] < MaxContent
    /\ content' = [content EXCEPT ![g] = @ + 1]
    /\ UNCHANGED <<control, fence, behind, builds, expired, told>>

(* The lower bound of a node's clock passes the deadline of the export.    *)
Elapse ==
    /\ active.phase # "None" /\ ~expired
    /\ expired' = TRUE
    /\ UNCHANGED <<control, groups, builds, told>>

Next ==
    \/ \E r \in Requests, p \in Payloads : ReplayBegin(r, p) \/ Begin(r, p)
    \/ \E e \in 1 .. epoch, g \in Groups : AcquireFence(e, g) \/ ReleaseFence(e, g)
    \/ \E g \in Groups : RecordFence(g) \/ ReadGroup(g) \/ CatchUp(g) \/ RecordRelease(g)
    \/ BeginMaterialization \/ StartBuild \/ FailBuild \/ FinishBuild \/ ChangeLeader
    \/ \E r \in Requests : \E a \in built[r] :
           PublishArtifact(a) \/ RequestCompletion(r, a) \/ ReplayCompletion(r, a)
    \/ \E r \in Requests, reason \in Reasons : RequestAbort(r, reason) \/ ReplayAbort(r, reason)
    \/ Finish
    \/ \E g \in AllGroups : Mutate(g)
    \/ Elapse

Spec == Init /\ [][Next]_vars

(* The clock moves; the leaders' ticks go on and the groups commit what    *)
(* they submit for an export that is over or past its deadline.            *)
Fairness ==
    /\ WF_vars(Elapse) /\ WF_vars(RequestAbort(active.request, "DeadlineExceeded"))
    /\ \A g \in Groups : /\ WF_vars(ReleaseFence(active.epoch, g))
                         /\ SF_vars(CatchUp(g))
                         /\ SF_vars(RecordRelease(g))
    /\ WF_vars(Finish)

LiveSpec == Spec /\ Fairness

-----------------------------------------------------------------------------
Outcomes == [completed : BOOLEAN, artifact : Artifacts, reason : Reasons]

(* Every variable has its type, and no group has been released past the    *)
(* last epoch.                                                             *)
TypeOK ==
    /\ active \in [phase : Phases, request : Requests \cup {NoRequest}, payload : Payloads \cup {None}, epoch : Nat,
                   fenced : SUBSET Groups, cut : Artifacts, artifact : Artifacts,
                   reason : Reasons, released : SUBSET Groups]
    /\ epoch \in Nat /\ highest \in [Sessions -> 0 .. MaxSequence]
    /\ \E rs \in SUBSET Requests :
           receipts \in [rs -> [epoch : Nat, payload : Payloads \cup {None}, outcome : Outcomes]]
    /\ fence \in [AllGroups -> [through : 0 .. epoch, held : 0 .. epoch, cut : Nat]]
    /\ content \in [AllGroups -> 0 .. MaxContent]
    /\ behind \subseteq Groups /\ failed \in BOOLEAN /\ expired \in BOOLEAN
    /\ build \in [epoch : Nat, request : Requests \cup {NoRequest}, cut : Artifacts,
                  read : SUBSET Groups, part : Artifacts]
    /\ built \in [Requests -> SUBSET Artifacts]
    /\ begun \in [Requests -> SUBSET (1 .. epoch)]
    /\ told \in [Requests -> SUBSET Outcomes]

(* No group stays fenced for an export that is over: whoever holds a fence *)
(* holds it for the export that is still active and has not recorded this  *)
(* group's release, however late AcquireFence is applied (MutationFenceState*)
(* and its through_epoch watermark).                                       *)
NoOrphanFence ==
    \A g \in AllGroups :
        fence[g].held # 0 => /\ active.phase # "None" /\ fence[g].held = active.epoch
                             /\ g \notin active.released

(* From Frozen until the client decides, every group holds the export's    *)
(* fence at the recorded cut and has not moved past it, so that a later    *)
(* control leader can build the artifact again (record_fence, apply_command*)
(* under the fence).                                                       *)
CutIsHeld ==
    active.phase \in Cut =>
        \A g \in AllGroups : /\ fence[g].held = active.epoch
                             /\ fence[g].cut = active.cut[g]
                             /\ content[g] = active.cut[g]

(* Whoever builds the artifact of an export, whenever and however often    *)
(* the leader changes in between, builds the same one, and it is the cut.  *)
ArtifactIsTheCut ==
    \A r \in Requests :
        /\ \A a, b \in built[r] : a = b
        /\ active.phase \in Cut /\ active.request = r => built[r] \subseteq {active.cut}

(* A Begin that is retried, also after its receipt was evicted, never      *)
(* starts a second export, and all its terminal answers are the same       *)
(* (apply_begin_export, export_request_expired, the receipts).             *)
OneOutcomePerRequest ==
    \A r \in Requests : /\ \A e, f \in begun[r] : e = f
                        /\ \A o, q \in told[r] : o = q

(* Completion and abort race, and a deadline or a failed build races both: *)
(* the first one decides, later ones do not change it, and the receipt     *)
(* says it (request_completion, request_abort, apply_finish_export).       *)
DecidedOnce ==
    [][active.phase \in Ending =>
         \/ /\ active'.epoch = active.epoch /\ active'.phase = active.phase
            /\ active'.artifact = active.artifact /\ active'.reason = active.reason
         \/ /\ active'.phase = "None"
            /\ receipts'[active.request].epoch = active.epoch
            /\ receipts'[active.request].outcome = Outcome]_vars

(* An export ends, whether the client completes it, aborts it or goes away,*)
(* and lets every group go: its fence is never held for ever.              *)
ExportsEnd ==
    \A r \in Requests :
        active.request = r ~> /\ active.request # r
                              /\ \A g \in AllGroups : fence[g].held \notin begun[r]

=============================================================================
