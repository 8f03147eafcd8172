---------------------------- MODULE ExportProofs ----------------------------
(***************************************************************************)
(* Proofs about the two halves of a logical export.                        *)
(*                                                                         *)
(* ExportFence, for any number of data groups, sessions and exports: types,*)
(* the fences (no fence outlives its export, the cut is held while it is   *)
(* needed), one outcome per request, and that an outcome once decided      *)
(* stays.                                                                  *)
(*                                                                         *)
(* LogicalExport, for any catalog, placement of partitions, sequence of    *)
(* commands and number of faults: every cut is exportable, a download      *)
(* delivers the cut, and what a restore leaves behind is the cut.          *)
(***************************************************************************)
EXTENDS ExportFence, LogicalExport, FiniteSetTheorems, TLAPS

Receipt == [epoch : Nat, payload : Payloads \cup {None}, outcome : Outcomes]

(* The epoch counter is the epoch of the active export.                    *)
ActiveIsLast ==
    /\ active.phase = "None" => active = NoExport
    /\ active.phase # "None" => /\ active.epoch = epoch /\ epoch # 0
                                /\ active.request \in Requests

(* Every group has been released up to the last export that ended, so a    *)
(* delayed acquire of an older epoch finds the watermark above it.         *)
Watermarks ==
    \A g \in AllGroups : IF active.phase = "None" THEN fence[g].through >= epoch
                                                  ELSE fence[g].through + 1 >= epoch

(* A recorded release is a release.                                        *)
ReleasesAreReal ==
    \A g \in active.released : active.phase \in Ending /\ fence[g].through >= epoch

(* A recorded fence is held, at the recorded cut.                          *)
FencesAreReal ==
    /\ active.phase # "None" => fence[Control].held = epoch
    /\ active.phase \in {"Preparing"} \cup Cut =>
           /\ fence[Control].cut = active.cut[Control]
           /\ \A g \in active.fenced : /\ fence[g].held = epoch
                                       /\ fence[g].cut = active.cut[g]
    /\ active.phase \in Cut => active.fenced = Groups

(* A fenced group stands at the cut of its fence.                          *)
HeldIsStill == \A g \in AllGroups : fence[g].held # 0 => fence[g].cut = content[g]

FenceInv ==
    /\ ActiveIsLast /\ Watermarks /\ ReleasesAreReal /\ FencesAreReal /\ HeldIsStill
    /\ NoOrphanFence

-----------------------------------------------------------------------------
(* Types.                                                                  *)

TypeInv == TypeOK /\ ActiveIsLast

(* The initial values.                                                     *)
LEMMA NoCutType == NoCut \in Artifacts
BY DEF NoCut, Artifacts

(* Acquiring and releasing keep a fence a fence, up to the last epoch.     *)
LEMMA FenceType ==
    ASSUME NEW n \in Nat, NEW f \in [through : 0 .. n, held : 0 .. n, cut : Nat],
           NEW e \in 0 .. n, NEW c \in Nat
    PROVE  /\ Acquire(f, e, c) \in [through : 0 .. n, held : 0 .. n, cut : Nat]
           /\ Release(f, e) \in [through : 0 .. n, held : 0 .. n, cut : Nat]
<1>1. Acquire(f, e, c) \in [through : 0 .. n, held : 0 .. n, cut : Nat]
  BY DEF Acquire
<1>2. Release(f, e) \in [through : 0 .. n, held : 0 .. n, cut : Nat]
  <2> DEFINE t == IF e > f.through THEN e ELSE f.through
  <2>1. t \in 0 .. n
    OBVIOUS
  <2> HIDE DEF t
  <2>2. [through |-> t, held |-> 0, cut |-> 0] \in [through : 0 .. n, held : 0 .. n, cut : Nat]
    BY <2>1
  <2>3. Release(f, e) = f \/ Release(f, e) = [through |-> t, held |-> 0, cut |-> 0]
    BY DEF Release, t
  <2> QED
    BY <2>2, <2>3
<1> QED
  BY <1>1, <1>2

(* Nothing is exported and no group is fenced at first.                    *)
LEMMA TypeInit == Init => TypeInv
<1> SUFFICES ASSUME Init PROVE TypeInv
  OBVIOUS
<1>1. active \in [phase : Phases, request : Requests \cup {NoRequest},
                 payload : Payloads \cup {None}, epoch : Nat, fenced : SUBSET Groups,
                 cut : Artifacts, artifact : Artifacts, reason : Reasons,
                 released : SUBSET Groups]
  BY NoCutType DEF Init, NoExport, Phases, Reasons
<1>2. epoch \in Nat /\ highest \in [Sessions -> 0 .. MaxSequence]
  BY ExportAssumption DEF Init
<1>3. \E rs \in SUBSET Requests : receipts \in [rs -> Receipt]
  <2>1. receipts \in [{} -> Receipt] /\ {} \in SUBSET Requests
    BY DEF Init
  <2> QED
    BY <2>1
<1>4. /\ fence \in [AllGroups -> [through : 0 .. epoch, held : 0 .. epoch, cut : Nat]]
      /\ content \in [AllGroups -> 0 .. MaxContent]
  BY ExportAssumption DEF Init, OpenFence
<1>5. build \in [epoch : Nat, request : Requests \cup {NoRequest}, cut : Artifacts,
                read : SUBSET Groups, part : Artifacts]
  BY NoCutType DEF Init, NoBuild
<1>6. /\ behind \subseteq Groups /\ failed \in BOOLEAN /\ expired \in BOOLEAN
      /\ built \in [Requests -> SUBSET Artifacts]
      /\ begun \in [Requests -> SUBSET (1 .. epoch)]
      /\ told \in [Requests -> SUBSET Outcomes]
  BY DEF Init
<1>7. ActiveIsLast
  BY DEF Init, ActiveIsLast, NoExport
<1> QED
  BY <1>1, <1>2, <1>3, <1>4, <1>5, <1>6, <1>7 DEF TypeInv, TypeOK, Receipt

(* What the parts of TypeOK are called below.                              *)
ActiveT == [phase : Phases, request : Requests \cup {NoRequest},
            payload : Payloads \cup {None}, epoch : Nat, fenced : SUBSET Groups,
            cut : Artifacts, artifact : Artifacts, reason : Reasons,
            released : SUBSET Groups]

FenceT(n) == [through : 0 .. n, held : 0 .. n, cut : Nat]

BuildT == [epoch : Nat, request : Requests \cup {NoRequest}, cut : Artifacts,
           read : SUBSET Groups, part : Artifacts]

(* A step keeps the types and the epoch of the active export.              *)
LEMMA TypeStep == TypeInv /\ [Next]_vars => TypeInv'
<1> SUFFICES ASSUME TypeInv, [Next]_vars PROVE TypeInv'
  OBVIOUS
<1> USE ExportAssumption, NoCutType
<1>a. /\ active \in ActiveT /\ epoch \in Nat /\ highest \in [Sessions -> 0 .. MaxSequence]
      /\ \E rs \in SUBSET Requests : receipts \in [rs -> Receipt]
      /\ fence \in [AllGroups -> FenceT(epoch)]
      /\ content \in [AllGroups -> 0 .. MaxContent]
      /\ behind \subseteq Groups /\ failed \in BOOLEAN /\ expired \in BOOLEAN
      /\ build \in BuildT
      /\ built \in [Requests -> SUBSET Artifacts]
      /\ begun \in [Requests -> SUBSET (1 .. epoch)]
      /\ told \in [Requests -> SUBSET Outcomes]
      /\ ActiveIsLast
  BY DEF TypeInv, TypeOK, ActiveT, FenceT, BuildT, Receipt
<1>b. ASSUME active' \in ActiveT, epoch' \in Nat, highest' \in [Sessions -> 0 .. MaxSequence],
             \E rs \in SUBSET Requests : receipts' \in [rs -> Receipt],
             fence' \in [AllGroups -> FenceT(epoch')],
             content' \in [AllGroups -> 0 .. MaxContent],
             behind' \subseteq Groups, failed' \in BOOLEAN, expired' \in BOOLEAN,
             build' \in BuildT,
             built' \in [Requests -> SUBSET Artifacts],
             begun' \in [Requests -> SUBSET (1 .. epoch')],
             told' \in [Requests -> SUBSET Outcomes],
             ActiveIsLast'
      PROVE  TypeInv'
  BY <1>b DEF TypeInv, TypeOK, ActiveT, FenceT, BuildT, Receipt
<1>c. \A r \in DOMAIN receipts : receipts[r] \in Receipt /\ receipts[r].outcome \in Outcomes
  BY <1>a DEF Receipt
<1>d. ASSUME NEW r \in Requests, r \in DOMAIN receipts, Tell(r),
             UNCHANGED <<control, groups, builds, expired>>
      PROVE  TypeInv'
  <2>1. told' \in [Requests -> SUBSET Outcomes]
    BY <1>a, <1>c, <1>d DEF Tell
  <2>2. ActiveIsLast'
    BY <1>a, <1>d DEF ActiveIsLast, control
  <2> QED
    BY <1>a, <1>b, <1>d, <2>1, <2>2 DEF control, groups, builds
<1>e. ASSUME active' \in ActiveT, ActiveIsLast',
             UNCHANGED <<epoch, receipts, highest, begun, groups, builds, expired, told>>
      PROVE  TypeInv'
  BY <1>a, <1>b, <1>e DEF groups, builds
<1>f. ASSUME build' \in BuildT, built' \in [Requests -> SUBSET Artifacts],
             failed' \in BOOLEAN, UNCHANGED <<control, groups, expired, told>>
      PROVE  TypeInv'
  <2>1. ActiveIsLast'
    BY <1>a, <1>f DEF ActiveIsLast, control
  <2> QED
    BY <1>a, <1>b, <1>f, <2>1 DEF groups, control
<1>1. ASSUME NEW r \in Requests, NEW p \in Payloads, ReplayBegin(r, p) PROVE TypeInv'
  BY <1>1, <1>d DEF ReplayBegin
<1>2. ASSUME NEW r \in Requests, NEW p \in Payloads, Begin(r, p) PROVE TypeInv'
  <2>1. epoch' = epoch + 1 /\ epoch' \in Nat /\ epoch' # 0
    BY <1>2, <1>a DEF Begin
  <2>2. active' \in ActiveT
    <3>1. [NoCut EXCEPT ![Control] = content[Control]] \in Artifacts
      BY <1>a DEF Artifacts, AllGroups
    <3> QED
      BY <1>2, <2>1, <3>1 DEF Begin, NoExport, ActiveT, Phases, Reasons
  <2>3. ActiveIsLast'
    BY <1>2, <2>1 DEF Begin, NoExport, ActiveIsLast
  <2>4. \A g \in AllGroups : fence[g] \in FenceT(epoch')
    BY <1>a, <2>1 DEF FenceT
  <2>5. Acquire(fence[Control], epoch', content[Control]) \in FenceT(epoch')
    BY <1>a, <2>1, <2>4, FenceType DEF FenceT, AllGroups
  <2>6. fence' \in [AllGroups -> FenceT(epoch')]
    BY <1>2, <1>a, <2>4, <2>5 DEF Begin
  <2>7. begun' \in [Requests -> SUBSET (1 .. epoch')]
    BY <1>2, <1>a, <2>1 DEF Begin
  <2> QED
    BY <1>2, <1>a, <1>b, <2>1, <2>2, <2>3, <2>6, <2>7 DEF Begin, builds
<1>3. ASSUME NEW e \in 1 .. epoch, NEW g \in Groups, AcquireFence(e, g) \/ ReleaseFence(e, g)
      PROVE  TypeInv'
  <2>1. /\ fence[g] \in FenceT(epoch) /\ content[g] \in Nat /\ g \in AllGroups
        /\ e \in 0 .. epoch
    BY <1>a DEF AllGroups
  <2>2. /\ Acquire(fence[g], e, content[g]) \in FenceT(epoch)
        /\ Release(fence[g], e) \in FenceT(epoch)
    BY <1>a, <2>1, FenceType DEF FenceT
  <2>3. fence' \in [AllGroups -> FenceT(epoch)] /\ behind' \subseteq Groups
    BY <1>3, <1>a, <2>2 DEF AcquireFence, ReleaseFence
  <2>4. UNCHANGED <<control, content, builds, expired, told>>
    BY <1>3 DEF AcquireFence, ReleaseFence
  <2>5. ActiveIsLast'
    BY <1>a, <2>4 DEF ActiveIsLast, control
  <2> QED
    BY <1>a, <1>b, <2>3, <2>4, <2>5 DEF control, builds
<1>4. ASSUME NEW g \in Groups, RecordFence(g) PROVE TypeInv'
  <2>1. g \in AllGroups /\ fence[g].cut \in Nat
    BY <1>a DEF AllGroups, FenceT
  <2>2. [active.cut EXCEPT ![g] = fence[g].cut] \in Artifacts
    BY <1>a, <2>1 DEF ActiveT, Artifacts
  <2>3. active' \in ActiveT
    BY <1>4, <1>a, <2>2 DEF RecordFence, ActiveT, Phases, Cut
  <2>4. active'.phase # "None" /\ active'.epoch = active.epoch /\ active'.request = active.request
    BY <1>4, <1>a DEF RecordFence, ActiveT
  <2>5. ActiveIsLast'
    BY <1>4, <1>a, <2>4 DEF RecordFence, ActiveIsLast
  <2> QED
    BY <1>4, <1>e, <2>3, <2>5 DEF RecordFence
<1>5. ASSUME active.phase # "None", active' \in ActiveT, active'.phase # "None",
             active'.epoch = active.epoch, active'.request = active.request,
             UNCHANGED <<epoch, receipts, highest, begun, groups, builds, expired, told>>
      PROVE  TypeInv'
  <2>1. ActiveIsLast'
    BY <1>5, <1>a DEF ActiveIsLast
  <2> QED
    BY <1>5, <1>e, <2>1
<1>6. CASE BeginMaterialization
  BY <1>6, <1>5, <1>a DEF BeginMaterialization, ActiveT, Phases, Cut
<1>7. ASSUME NEW r \in Requests, NEW a \in built[r], PublishArtifact(a) PROVE TypeInv'
  <2>1. a \in Artifacts
    BY <1>a
  <2> QED
    BY <1>7, <1>5, <1>a, <2>1 DEF PublishArtifact, ActiveT, Phases, Cut
<1>8. ASSUME NEW r \in Requests, NEW a \in built[r], RequestCompletion(r, a) PROVE TypeInv'
  BY <1>8, <1>5, <1>a DEF RequestCompletion, ActiveT, Phases, Ending
<1>9. ASSUME NEW r \in Requests, NEW reason \in Reasons, RequestAbort(r, reason) PROVE TypeInv'
  BY <1>9, <1>5, <1>a DEF RequestAbort, ActiveT, Phases, Ending, Cut
<1>10. ASSUME NEW g \in Groups, RecordRelease(g) PROVE TypeInv'
  BY <1>10, <1>5, <1>a DEF RecordRelease, ActiveT, Ending
<1>11. ASSUME NEW r \in Requests, NEW a \in built[r], ReplayCompletion(r, a) PROVE TypeInv'
  BY <1>11, <1>d DEF ReplayCompletion
<1>12. ASSUME NEW r \in Requests, NEW reason \in Reasons, ReplayAbort(r, reason) PROVE TypeInv'
  BY <1>12, <1>d DEF ReplayAbort
<1>13. CASE StartBuild
  <2>1. [NoCut EXCEPT ![Control] = content[Control]] \in Artifacts
    BY <1>a DEF Artifacts, AllGroups
  <2>2. build' \in BuildT
    BY <1>13, <1>a, <2>1 DEF StartBuild, BuildT, ActiveT, NoBuild
  <2> QED
    BY <1>13, <1>a, <1>f, <2>2 DEF StartBuild
<1>14. ASSUME NEW g \in Groups, ReadGroup(g) PROVE TypeInv'
  <2>1. [build.part EXCEPT ![g] = content[g]] \in Artifacts
    BY <1>a DEF Artifacts, AllGroups, BuildT
  <2>2. build' \in BuildT
    BY <1>14, <1>a, <2>1 DEF ReadGroup, BuildT
  <2> QED
    BY <1>14, <1>a, <1>f, <2>2 DEF ReadGroup
<1>15. NoBuild \in BuildT
  BY DEF NoBuild, BuildT
<1>16. CASE FailBuild
  BY <1>16, <1>a, <1>f, <1>15 DEF FailBuild
<1>17. CASE FinishBuild
  <2>1. build.part \in Artifacts
    BY <1>a DEF BuildT
  <2>2. built' \in [Requests -> SUBSET Artifacts]
    BY <1>17, <1>a, <2>1 DEF FinishBuild
  <2>3. failed' \in BOOLEAN
    BY <1>17 DEF FinishBuild
  <2> QED
    BY <1>17, <1>f, <1>15, <2>2, <2>3 DEF FinishBuild
<1>18. CASE ChangeLeader
  <2>1. ActiveIsLast'
    BY <1>18, <1>a DEF ChangeLeader, ActiveIsLast, control
  <2> QED
    BY <1>18, <1>a, <1>b, <1>15, <2>1 DEF ChangeLeader, control
<1>19. ASSUME NEW g \in Groups, CatchUp(g) PROVE TypeInv'
  <2>1. ActiveIsLast'
    BY <1>19, <1>a DEF CatchUp, ActiveIsLast, control
  <2> QED
    BY <1>19, <1>a, <1>b, <2>1 DEF CatchUp, control, builds
<1>20. CASE Finish
  <2> DEFINE r == active.request
             receipt == [epoch |-> active.epoch, payload |-> active.payload, outcome |-> Outcome]
  <2>1. /\ r \in Requests /\ active.epoch = epoch /\ Control \in AllGroups
        /\ active.artifact \in Artifacts /\ active.reason \in Reasons
        /\ active.payload \in Payloads \cup {None}
    BY <1>20, <1>a DEF Finish, Ending, ActiveIsLast, AllGroups, ActiveT
  <2>2. Outcome \in Outcomes
    BY <2>1 DEF Outcome, Outcomes, Reasons
  <2>3. receipt \in Receipt
    BY <2>1, <2>2, <1>a DEF Receipt
  <2>4. Kept(r) \subseteq Requests /\ Kept(r) \subseteq DOMAIN receipts \cup {r}
    BY <1>a, <2>1 DEF Kept
  <2>5. receipts' = [q \in Kept(r) |-> IF q = r THEN receipt ELSE receipts[q]]
    BY <1>20 DEF Finish
  <2> HIDE DEF receipt
  <2>6. receipts' \in [Kept(r) -> Receipt]
    BY <1>c, <2>3, <2>4, <2>5
  <2>7. r.session \in Sessions /\ r.sequence \in 0 .. MaxSequence
    BY <2>1 DEF Requests
  <2>8. highest' \in [Sessions -> 0 .. MaxSequence]
    BY <1>20, <1>a, <2>7 DEF Finish
  <2>9. told' \in [Requests -> SUBSET Outcomes]
    BY <1>20, <1>a, <2>1, <2>2 DEF Finish
  <2>10. Release(fence[Control], epoch) \in FenceT(epoch)
    BY <1>a, <2>1, FenceType DEF FenceT
  <2>11. fence' \in [AllGroups -> FenceT(epoch)]
    BY <1>20, <1>a, <2>1, <2>10 DEF Finish
  <2>12. active' \in ActiveT
    BY <1>20 DEF Finish, NoExport, ActiveT, Phases, Reasons
  <2>13. ActiveIsLast'
    BY <1>20 DEF Finish, NoExport, ActiveIsLast
  <2>14. \E rs \in SUBSET Requests : receipts' \in [rs -> Receipt]
    BY <2>4, <2>6
  <2>15. failed' \in BOOLEAN /\ expired' \in BOOLEAN
    BY <1>20 DEF Finish
  <2> QED
    BY <1>20, <1>a, <1>b, <2>8, <2>9, <2>11, <2>12, <2>13, <2>14, <2>15 DEF Finish
<1>21. ASSUME NEW g \in AllGroups, Mutate(g) PROVE TypeInv'
  <2>1. ActiveIsLast'
    BY <1>21, <1>a DEF Mutate, ActiveIsLast, control
  <2>2. content' \in [AllGroups -> 0 .. MaxContent]
    BY <1>21, <1>a DEF Mutate
  <2> QED
    BY <1>21, <1>a, <1>b, <2>1, <2>2 DEF Mutate, control, builds
<1>22. CASE Elapse
  <2>1. ActiveIsLast'
    BY <1>22, <1>a DEF Elapse, ActiveIsLast, control
  <2> QED
    BY <1>22, <1>a, <1>b, <2>1 DEF Elapse, control, groups, builds
<1>23. CASE UNCHANGED vars
  BY <1>23, <1>a, <1>f DEF vars, builds
<1> QED
  BY <1>1, <1>2, <1>3, <1>4, <1>6, <1>7, <1>8, <1>9, <1>10, <1>11, <1>12, <1>13, <1>14,
     <1>16, <1>17, <1>18, <1>19, <1>20, <1>21, <1>22, <1>23 DEF Next

(* Every reachable state of the export machinery is well typed.            *)
THEOREM TypeCorrect == Spec => []TypeOK
<1>1. Spec => []TypeInv
  BY TypeInit, TypeStep, PTL DEF Spec
<1> QED
  BY <1>1, PTL DEF TypeInv

-----------------------------------------------------------------------------
(* The fences.                                                             *)

(* All groups are open at first, at watermark 0.                           *)
LEMMA FenceInit == Init => FenceInv
<1> SUFFICES ASSUME Init PROVE FenceInv
  OBVIOUS
<1>1. /\ active = NoExport /\ active.phase = "None" /\ active.released = {} /\ epoch = 0
      /\ \A g \in AllGroups : fence[g].held = 0 /\ fence[g].through = 0
  BY DEF Init, NoExport, OpenFence
<1> QED
  BY <1>1 DEF FenceInv, ActiveIsLast, Watermarks, ReleasesAreReal, FencesAreReal, HeldIsStill,
              NoOrphanFence, Cut

(* What acquiring does: nothing, below the watermark or when a fence is    *)
(* held already; otherwise the group is fenced where it stands.            *)
LEMMA AcquireDoes ==
    ASSUME NEW n \in Nat, NEW f \in FenceT(n), NEW e \in Nat, NEW c \in Nat
    PROVE  \/ Acquire(f, e, c) = f /\ (e <= f.through \/ f.held # 0)
           \/ /\ f.held = 0 /\ e > f.through
              /\ Acquire(f, e, c).held = e /\ Acquire(f, e, c).cut = c
              /\ Acquire(f, e, c).through = f.through
BY DEF Acquire, FenceT

(* What releasing does: nothing to the fence of another export; otherwise  *)
(* the group is open, and its watermark at the released epoch or above.    *)
LEMMA ReleaseDoes ==
    ASSUME NEW n \in Nat, NEW f \in FenceT(n), NEW e \in Nat
    PROVE  /\ Release(f, e).through >= f.through
           /\ \/ Release(f, e) = f /\ f.held \notin {0, e}
              \/ Release(f, e).held = 0 /\ f.held \in {0, e} /\ Release(f, e).through >= e
BY DEF Release, FenceT

(* A step keeps the fences in order.  The delayed acquire is the case that *)
(* needs the watermarks: below them it does nothing, and only the active   *)
(* export, before this group's release, is above them.                     *)
LEMMA FenceStep == TypeInv /\ FenceInv /\ [Next]_vars => FenceInv'
<1> SUFFICES ASSUME TypeInv, FenceInv, [Next]_vars PROVE FenceInv'
  OBVIOUS
<1> USE ExportAssumption
<1>a. /\ active \in ActiveT /\ epoch \in Nat /\ fence \in [AllGroups -> FenceT(epoch)]
      /\ content \in [AllGroups -> Nat]
  BY DEF TypeInv, TypeOK, ActiveT, FenceT
<1>b. \A g \in AllGroups : /\ fence[g] \in FenceT(epoch) /\ fence[g].through \in 0 .. epoch
                           /\ fence[g].held \in 0 .. epoch
  BY <1>a DEF FenceT
<1>c. TypeInv'
  BY TypeStep
<1>d. Control \in AllGroups /\ Groups \subseteq AllGroups /\ Control \notin Groups
  BY DEF AllGroups
<1>e. ActiveIsLast'
  BY <1>c DEF TypeInv
<1>f. ASSUME UNCHANGED <<active, epoch, fence, content>> PROVE FenceInv'
  BY <1>f DEF FenceInv, ActiveIsLast, Watermarks, ReleasesAreReal, FencesAreReal, HeldIsStill,
              NoOrphanFence
<1>1. ASSUME NEW r \in Requests, NEW p \in Payloads, Begin(r, p) PROVE FenceInv'
  <2>1. /\ active.phase = "None" /\ epoch' = epoch + 1 /\ fence[Control].held = 0
        /\ fence' = [fence EXCEPT ![Control] = Acquire(@, epoch', content[Control])]
        /\ content' = content
        /\ active'.phase = "Preparing" /\ active'.fenced = {} /\ active'.released = {}
        /\ active'.epoch = epoch'
    BY <1>1 DEF Begin, NoExport
  <2>2. active'.cut[Control] = content[Control]
    BY <1>1, <1>d DEF Begin, NoExport, NoCut
  <2>3. /\ fence'[Control].held = epoch' /\ fence'[Control].cut = content[Control]
        /\ fence'[Control].through = fence[Control].through
    <3>1. /\ fence'[Control] = Acquire(fence[Control], epoch', content[Control])
          /\ fence[Control] \in FenceT(epoch) /\ content[Control] \in Nat
          /\ epoch' \in Nat /\ fence[Control].through \in Nat /\ ~(epoch' <= fence[Control].through)
      BY <2>1, <1>a, <1>b, <1>d
    <3> QED
      BY <2>1, <3>1, <1>a, AcquireDoes
  <2>4. \A g \in AllGroups \ {Control} : fence'[g] = fence[g] /\ fence[g].held = 0
    BY <2>1, <1>a DEF FenceInv, NoOrphanFence
  <2>5. \A g \in AllGroups : fence'[g].through + 1 >= epoch'
    BY <2>1, <2>3, <2>4, <1>a, <1>b DEF FenceInv, Watermarks
  <2> QED
    BY <2>1, <2>2, <2>3, <2>4, <2>5, <1>e
    DEF FenceInv, Watermarks, ReleasesAreReal, FencesAreReal, HeldIsStill, NoOrphanFence, Cut
<1>2. ASSUME NEW e \in 1 .. epoch, NEW g \in Groups, AcquireFence(e, g) PROVE FenceInv'
  <2>1. /\ fence' = [fence EXCEPT ![g] = Acquire(@, e, content[g])]
        /\ UNCHANGED <<active, epoch, content>>
    BY <1>2 DEF AcquireFence, control
  <2>2. CASE fence' = fence
    BY <1>f, <2>1, <2>2
  <2>3. CASE fence' # fence
    <3>1. /\ fence[g].held = 0 /\ e > fence[g].through
          /\ fence'[g].held = e /\ fence'[g].cut = content[g]
          /\ fence'[g].through = fence[g].through
      BY <2>1, <2>3, <1>a, <1>b, <1>d, AcquireDoes
    <3>2. active.phase # "None" /\ e = epoch /\ g \notin active.released
      BY <3>1, <1>a, <1>b, <1>d DEF FenceInv, Watermarks, ReleasesAreReal
    <3>3. active.phase # "None" => active.epoch = epoch
      BY DEF FenceInv, ActiveIsLast
    <3>4. active.phase \in {"Preparing"} \cup Cut => g \notin active.fenced
      BY <3>1, <3>2 DEF FenceInv, FencesAreReal
    <3>5. \A h \in AllGroups \ {g} : fence'[h] = fence[h]
      BY <2>1, <1>a
    <3>6. Watermarks' /\ ReleasesAreReal' /\ HeldIsStill'
      BY <2>1, <3>1, <3>5, <1>d DEF FenceInv, Watermarks, ReleasesAreReal, HeldIsStill, ActiveT
    <3>7. FencesAreReal'
      BY <2>1, <3>4, <3>5, <1>a, <1>d DEF FenceInv, FencesAreReal, ActiveT
    <3>8. NoOrphanFence'
      BY <2>1, <3>1, <3>2, <3>3, <3>5 DEF FenceInv, NoOrphanFence
    <3> QED
      BY <3>6, <3>7, <3>8, <1>e DEF FenceInv
  <2> QED
    BY <2>2, <2>3
<1>3. ASSUME NEW e \in 1 .. epoch, NEW g \in Groups, ReleaseFence(e, g) PROVE FenceInv'
  <2>1. /\ fence' = [fence EXCEPT ![g] = Release(@, e)]
        /\ UNCHANGED <<active, epoch, content>>
        /\ e = active.epoch => active.phase \in Ending
    BY <1>3 DEF ReleaseFence, HasEnded, control
  <2>2. CASE fence' = fence
    BY <1>f, <2>1, <2>2
  <2>3. CASE fence' # fence
    <3>1. /\ fence'[g].held = 0 /\ fence[g].held \in {0, e}
          /\ fence'[g].through >= fence[g].through /\ fence'[g].through \in Nat
      <4>1. fence'[g] = Release(fence[g], e) /\ fence'[g] # fence[g]
        BY <2>1, <2>3, <1>a, <1>d
      <4>2. fence'[g].through >= fence[g].through
        BY <4>1, <1>a, <1>b, <1>d, ReleaseDoes
      <4>3. fence'[g].held = 0 /\ fence[g].held \in {0, e}
        BY <4>1, <1>a, <1>b, <1>d, ReleaseDoes
      <4>4. fence' \in [AllGroups -> FenceT(epoch')]
        BY <1>c DEF TypeInv, TypeOK, FenceT
      <4> QED
        BY <4>2, <4>3, <4>4, <1>d DEF FenceT
    <3>2. \A h \in AllGroups \ {g} : fence'[h] = fence[h]
      BY <2>1, <1>a
    <3>3. active.phase \in {"Preparing"} \cup Cut => g \notin active.fenced
      <4> SUFFICES ASSUME active.phase \in {"Preparing"} \cup Cut, g \in active.fenced PROVE FALSE
        OBVIOUS
      <4>1. fence[g].held = epoch /\ active.epoch = epoch /\ epoch # 0 /\ active.phase \notin Ending
        BY DEF FenceInv, FencesAreReal, ActiveIsLast, Cut, Ending
      <4> QED
        BY <4>1, <3>1, <2>1
    <3>4. Watermarks' /\ ReleasesAreReal'
      BY <2>1, <3>1, <3>2, <1>a, <1>b, <1>d DEF FenceInv, Watermarks, ReleasesAreReal, ActiveT
    <3>5. FencesAreReal'
      BY <2>1, <3>2, <3>3, <1>a, <1>d DEF FenceInv, FencesAreReal, ActiveT
    <3>6. HeldIsStill' /\ NoOrphanFence'
      BY <2>1, <3>1, <3>2 DEF FenceInv, HeldIsStill, NoOrphanFence
    <3> QED
      BY <3>4, <3>5, <3>6, <1>e DEF FenceInv
  <2> QED
    BY <2>2, <2>3
<1>4. ASSUME NEW g \in Groups, RecordFence(g) PROVE FenceInv'
  <2>1. /\ active.phase = "Preparing" /\ UNCHANGED <<epoch, fence, content>>
        /\ fence[g].held = active.epoch /\ active.epoch = epoch
    BY <1>4 DEF RecordFence, groups, FenceInv, ActiveIsLast
  <2>2. /\ active'.fenced = active.fenced \cup {g} /\ active'.epoch = active.epoch
        /\ active'.cut = [active.cut EXCEPT ![g] = fence[g].cut]
        /\ active'.released = active.released
        /\ \/ active'.phase = "Preparing"
           \/ active'.phase = "Frozen" /\ active'.fenced = Groups
    BY <1>4, <1>a DEF RecordFence, ActiveT
  <2>3. active.released = {}
    BY <2>1 DEF FenceInv, ReleasesAreReal, Ending
  <2>4. /\ active'.cut[g] = fence[g].cut
        /\ \A h \in AllGroups \ {g} : active'.cut[h] = active.cut[h]
    BY <2>2, <1>a, <1>d DEF ActiveT, Artifacts
  <2>5. FencesAreReal'
    BY <2>1, <2>2, <2>4, <1>a, <1>d DEF FenceInv, FencesAreReal, ActiveT, Cut
  <2>6. Watermarks' /\ ReleasesAreReal' /\ HeldIsStill' /\ NoOrphanFence'
    BY <2>1, <2>2, <2>3 DEF FenceInv, Watermarks, ReleasesAreReal, HeldIsStill, NoOrphanFence
  <2> QED
    BY <2>5, <2>6, <1>e DEF FenceInv
<1>5. ASSUME active.phase \in Cut, active'.phase \in Cut, UNCHANGED <<epoch, fence, content>>,
             active'.fenced = active.fenced, active'.cut = active.cut,
             active'.released = active.released, active'.epoch = active.epoch
      PROVE  FenceInv'
  BY <1>5, <1>e DEF FenceInv, Watermarks, ReleasesAreReal, FencesAreReal, HeldIsStill,
                    NoOrphanFence, Cut, Ending
<1>6. CASE BeginMaterialization
  BY <1>6, <1>5, <1>a DEF BeginMaterialization, groups, Cut, ActiveT
<1>7. ASSUME NEW r \in Requests, NEW a \in built[r], PublishArtifact(a) PROVE FenceInv'
  BY <1>7, <1>5, <1>a DEF PublishArtifact, groups, Cut, ActiveT
<1>8. ASSUME active.phase # "None", active'.phase \in Ending, UNCHANGED <<epoch, fence, content>>,
             active'.released = {}, active'.epoch = active.epoch
      PROVE  FenceInv'
  BY <1>8, <1>e DEF FenceInv, Watermarks, ReleasesAreReal, FencesAreReal, HeldIsStill,
                    NoOrphanFence, Cut, Ending
<1>9. ASSUME NEW r \in Requests, NEW a \in built[r], RequestCompletion(r, a) PROVE FenceInv'
  BY <1>9, <1>8, <1>a DEF RequestCompletion, groups, Ending, ActiveT
<1>10. ASSUME NEW r \in Requests, NEW reason \in Reasons, RequestAbort(r, reason) PROVE FenceInv'
  BY <1>10, <1>8, <1>a DEF RequestAbort, groups, Ending, Cut, ActiveT
<1>11. ASSUME NEW g \in Groups, RecordRelease(g) PROVE FenceInv'
  <2>1. /\ active.phase \in Ending /\ UNCHANGED <<epoch, fence, content>>
        /\ fence[g].held = 0 /\ fence[g].through >= epoch
        /\ active'.released = active.released \cup {g} /\ active'.phase = active.phase
        /\ active'.epoch = active.epoch
    BY <1>11, <1>a DEF RecordRelease, groups, ActiveT, FenceInv, ActiveIsLast, Ending
  <2> QED
    BY <2>1, <1>e, <1>d DEF FenceInv, Watermarks, ReleasesAreReal, FencesAreReal, HeldIsStill,
                            NoOrphanFence, Cut, Ending
<1>12. CASE Finish
  <2>1. /\ active.phase \in Ending /\ active.released = Groups /\ active.epoch = epoch
        /\ fence' = [fence EXCEPT ![Control] = Release(@, active.epoch)]
        /\ fence[Control].held \in {0, epoch}
        /\ active' = NoExport /\ UNCHANGED <<epoch, content>>
    BY <1>12 DEF Finish, FenceInv, ActiveIsLast, Ending
  <2>2. fence'[Control].held = 0 /\ fence'[Control].through >= epoch
    BY <2>1, <1>a, <1>b, <1>d, ReleaseDoes
  <2>3. \A g \in Groups : fence'[g].held = 0 /\ fence'[g].through >= epoch
    BY <2>1, <1>a, <1>d DEF FenceInv, NoOrphanFence, ReleasesAreReal
  <2>4. \A g \in AllGroups : fence'[g].held = 0 /\ fence'[g].through >= epoch
    BY <2>2, <2>3 DEF AllGroups
  <2> QED
    BY <2>1, <2>4, <1>e DEF NoExport, FenceInv, Watermarks, ReleasesAreReal, FencesAreReal,
                            HeldIsStill, NoOrphanFence, Cut
<1>13. ASSUME NEW g \in AllGroups, Mutate(g) PROVE FenceInv'
  BY <1>13, <1>a DEF Mutate, control, FenceInv, ActiveIsLast, Watermarks, ReleasesAreReal,
                     FencesAreReal, HeldIsStill, NoOrphanFence
<1>14. ASSUME UNCHANGED <<control, fence, content>> PROVE FenceInv'
  BY <1>14, <1>f DEF control
<1>15. ASSUME NEW r \in Requests,
              \/ \E p \in Payloads : ReplayBegin(r, p)
              \/ \E a \in built[r] : ReplayCompletion(r, a)
              \/ \E reason \in Reasons : ReplayAbort(r, reason)
       PROVE  FenceInv'
  BY <1>15, <1>14 DEF ReplayBegin, ReplayCompletion, ReplayAbort, groups
<1>16. ASSUME NEW g \in Groups, ReadGroup(g) \/ CatchUp(g) PROVE FenceInv'
  BY <1>16, <1>14 DEF ReadGroup, CatchUp, groups
<1>17. CASE StartBuild \/ FailBuild \/ FinishBuild \/ ChangeLeader \/ Elapse
  BY <1>17, <1>14 DEF StartBuild, FailBuild, FinishBuild, ChangeLeader, Elapse, groups
<1>18. CASE UNCHANGED vars
  BY <1>18, <1>14 DEF vars, groups
<1> QED
  BY <1>1, <1>2, <1>3, <1>4, <1>6, <1>7, <1>9, <1>10, <1>11, <1>12, <1>13, <1>15, <1>16,
     <1>17, <1>18 DEF Next

(* The types and the fences hold in every reachable state.                 *)
LEMMA FencesInOrder == Spec => [](TypeInv /\ FenceInv)
BY TypeInit, TypeStep, FenceInit, FenceStep, PTL DEF Spec

(* A fence is held for the active export only, and only until the group's  *)
(* release is recorded: an AcquireFence that is delayed past the end of    *)
(* its export, or past the next ones, never fences a group.                *)
THEOREM NoFenceIsOrphaned == Spec => []NoOrphanFence
BY FencesInOrder, PTL DEF FenceInv

(* While the client may still complete, every group stands at its recorded *)
(* cut under the fence of the export.                                      *)
THEOREM CutStaysHeld == Spec => []CutIsHeld
<1>1. TypeInv /\ FenceInv => CutIsHeld
  <2> SUFFICES ASSUME TypeInv, FenceInv, active.phase \in Cut PROVE CutIsHeld
    BY DEF CutIsHeld
  <2>1. active.epoch = epoch /\ epoch # 0 /\ active.fenced = Groups
    BY DEF FenceInv, ActiveIsLast, FencesAreReal, Cut
  <2>2. \A g \in AllGroups : fence[g].held = epoch /\ fence[g].cut = active.cut[g]
    BY <2>1 DEF FenceInv, FencesAreReal, AllGroups, Cut
  <2> QED
    BY <2>1, <2>2 DEF FenceInv, HeldIsStill, CutIsHeld
<1> QED
  BY <1>1, FencesInOrder, PTL

-----------------------------------------------------------------------------
(* Outcomes.                                                               *)

(* Once completion or abort is decided only the release of the fences and  *)
(* the receipt follow, and the receipt says what was decided.              *)
THEOREM OutcomeIsDecidedOnce == Spec => DecidedOnce
<1> DEFINE Decided ==
        active.phase \in Ending =>
         \/ /\ active'.epoch = active.epoch /\ active'.phase = active.phase
            /\ active'.artifact = active.artifact /\ active'.reason = active.reason
         \/ /\ active'.phase = "None"
            /\ receipts'[active.request].epoch = active.epoch
            /\ receipts'[active.request].outcome = Outcome
<1>1. TypeInv /\ [Next]_vars => [Decided]_vars
  <2> SUFFICES ASSUME TypeInv, Next, active.phase \in Ending PROVE Decided
    OBVIOUS
  <2>1. active \in ActiveT
    BY DEF TypeInv, TypeOK, ActiveT
  <2>2. active.phase \notin {"None", "Preparing"} \cup Cut
    BY DEF Ending, Cut
  <2>3. CASE active' = active
    BY <2>3
  <2>4. ASSUME NEW g \in Groups, RecordRelease(g) PROVE Decided
    BY <2>1, <2>4 DEF RecordRelease, ActiveT
  <2>5. CASE Finish
    <3>1. active.request \in Kept(active.request)
      BY DEF Kept
    <3>2. receipts'[active.request] =
              [epoch |-> active.epoch, payload |-> active.payload, outcome |-> Outcome]
      BY <2>5, <3>1 DEF Finish
    <3> QED
      BY <2>5, <3>2 DEF Finish, NoExport
  <2>6. \/ active' = active \/ Finish
        \/ \E g \in Groups : RecordRelease(g)
    <3>1. ASSUME NEW r \in Requests, NEW p \in Payloads, ReplayBegin(r, p) \/ Begin(r, p)
          PROVE  active' = active
      BY <2>2, <3>1 DEF ReplayBegin, Begin, control
    <3>2. ASSUME NEW e \in 1 .. epoch, NEW g \in Groups, AcquireFence(e, g) \/ ReleaseFence(e, g)
          PROVE  active' = active
      BY <3>2 DEF AcquireFence, ReleaseFence, control
    <3>3. ASSUME NEW g \in Groups, RecordFence(g) \/ ReadGroup(g) \/ CatchUp(g)
          PROVE  active' = active
      BY <2>2, <3>3 DEF RecordFence, ReadGroup, CatchUp, control
    <3>4. CASE BeginMaterialization \/ StartBuild \/ FailBuild \/ FinishBuild \/ ChangeLeader
      BY <2>2, <3>4 DEF BeginMaterialization, StartBuild, FailBuild, FinishBuild, ChangeLeader,
                        control, Cut
    <3>5. ASSUME NEW r \in Requests, NEW a \in built[r],
                 PublishArtifact(a) \/ RequestCompletion(r, a) \/ ReplayCompletion(r, a)
          PROVE  active' = active
      BY <2>2, <3>5 DEF PublishArtifact, RequestCompletion, ReplayCompletion, control, Cut
    <3>6. ASSUME NEW r \in Requests, NEW reason \in Reasons,
                 RequestAbort(r, reason) \/ ReplayAbort(r, reason)
          PROVE  active' = active
      BY <2>2, <3>6 DEF RequestAbort, ReplayAbort, control
    <3>7. ASSUME NEW g \in AllGroups, Mutate(g) PROVE active' = active
      BY <3>7 DEF Mutate, control
    <3>8. CASE Elapse
      BY <3>8 DEF Elapse, control
    <3> QED
      BY <3>1, <3>2, <3>3, <3>4, <3>5, <3>6, <3>7, <3>8 DEF Next
  <2> QED
    BY <2>3, <2>4, <2>5, <2>6
<1>2. Spec => []TypeInv
  BY TypeInit, TypeStep, PTL DEF Spec
<1> QED
  BY <1>1, <1>2, PTL DEF Spec, DecidedOnce

(* A request that was ever given an export has it still, or is expired for *)
(* good; it was told nothing before the receipt and only the receipt after.*)
OutcomeInv ==
    /\ active.phase # "None" => /\ ~Expired(active.request)
                                /\ told[active.request] = {}
                                /\ begun[active.request] = {epoch}
    /\ \A r \in Requests :
           /\ begun[r] # {} => Expired(r) \/ (active.phase # "None" /\ active.request = r)
           /\ told[r] # {} => Expired(r)
           /\ r \in DOMAIN receipts => Expired(r) /\ told[r] = {receipts[r].outcome}
    /\ OneOutcomePerRequest

(* No request has begun anything at first.                                 *)
LEMMA OutcomeInit == Init => OutcomeInv
BY DEF Init, OutcomeInv, NoExport, OneOutcomePerRequest

(* A step keeps them so: a Begin that is not expired was never begun, and  *)
(* finishing expires the request with the receipt; eviction takes only the *)
(* receipt.                                                                *)
LEMMA OutcomeStep == TypeInv /\ OutcomeInv /\ [Next]_vars => OutcomeInv'
<1> SUFFICES ASSUME TypeInv, OutcomeInv, [Next]_vars PROVE OutcomeInv'
  OBVIOUS
<1> USE ExportAssumption
<1>a. /\ active \in ActiveT /\ epoch \in Nat /\ highest \in [Sessions -> 0 .. MaxSequence]
      /\ begun \in [Requests -> SUBSET (1 .. epoch)] /\ told \in [Requests -> SUBSET Outcomes]
      /\ \E rs \in SUBSET Requests : receipts \in [rs -> Receipt]
      /\ ActiveIsLast
  BY DEF TypeInv, TypeOK, ActiveT, Receipt
<1>b. DOMAIN receipts \subseteq Requests
  BY <1>a
<1>1. ASSUME UNCHANGED <<epoch, receipts, highest, begun, told>>,
             active'.request = active.request, active.phase # "None" <=> active'.phase # "None"
      PROVE  OutcomeInv'
  BY <1>1 DEF OutcomeInv, Expired, OneOutcomePerRequest
<1>2. ASSUME NEW r \in DOMAIN receipts, Tell(r), UNCHANGED control PROVE OutcomeInv'
  <2>1. told' = told
    BY <1>2, <1>a, <1>b DEF Tell, OutcomeInv
  <2> QED
    BY <1>1, <1>2, <2>1 DEF control
<1>3. ASSUME NEW r \in Requests, NEW p \in Payloads, Begin(r, p) PROVE OutcomeInv'
  <2>1. /\ active.phase = "None" /\ ~Expired(r) /\ UNCHANGED <<receipts, highest, told>>
        /\ active'.request = r /\ active'.phase # "None" /\ epoch' = epoch + 1
        /\ begun' = [begun EXCEPT ![r] = @ \cup {epoch'}]
    BY <1>3 DEF Begin, NoExport
  <2>2. begun[r] = {} /\ told[r] = {}
    BY <2>1 DEF OutcomeInv
  <2>3. /\ begun'[r] = {epoch'}
        /\ \A q \in Requests \ {r} : begun'[q] = begun[q]
    BY <2>1, <2>2, <1>a
  <2>4. \A q \in Requests : Expired(q)' <=> Expired(q)
    BY <2>1 DEF Expired
  <2> QED
    BY <2>1, <2>2, <2>3, <2>4 DEF OutcomeInv, OneOutcomePerRequest, Expired
<1>4. CASE Finish
  <2> DEFINE r == active.request
  <2>1. /\ active.phase # "None" /\ active'.phase = "None" /\ UNCHANGED <<epoch, begun>>
        /\ told' = [told EXCEPT ![r] = @ \cup {Outcome}]
        /\ highest' = [highest EXCEPT ![r.session] = IF r.sequence > @ THEN r.sequence ELSE @]
        /\ receipts' = [q \in Kept(r) |->
              IF q = r THEN [epoch |-> active.epoch, payload |-> active.payload,
                             outcome |-> Outcome]
                       ELSE receipts[q]]
    BY <1>4 DEF Finish, NoExport, Ending
  <2>2. r \in Requests /\ r.session \in Sessions /\ r.sequence \in Nat
    BY <2>1, <1>a DEF ActiveIsLast, Requests
  <2>3. told'[r] = {Outcome} /\ \A q \in Requests \ {r} : told'[q] = told[q]
    BY <2>1, <2>2, <1>a DEF OutcomeInv
  <2>4. highest'[r.session] >= r.sequence
    BY <2>1, <2>2, <1>a
  <2>5. \A x \in Sessions : highest'[x] \in Nat /\ highest[x] \in Nat /\ highest'[x] >= highest[x]
    BY <2>1, <2>2, <1>a
  <2>7. \A q \in Requests : Expired(q) => q.sequence <= highest'[q.session]
    BY <2>5 DEF Expired, Requests
  <2>8. r.sequence <= highest'[r.session]
    BY <2>2, <2>4, <2>5
  <2>9. /\ \A q \in DOMAIN receipts' : q = r \/ q \in DOMAIN receipts
        /\ \A q \in DOMAIN receipts' : q # r => receipts'[q] = receipts[q]
        /\ r \in DOMAIN receipts' => receipts'[r].outcome = Outcome
    BY <2>1 DEF Kept
  <2> HIDE DEF r
  <2>10. \A q \in Requests :
           /\ begun'[q] # {} => q.sequence <= highest'[q.session]
           /\ told'[q] # {} => q.sequence <= highest'[q.session]
           /\ q \in DOMAIN receipts' => /\ q.sequence <= highest'[q.session]
                                        /\ told'[q] = {receipts'[q].outcome}
    <3> TAKE q \in Requests
    <3>1. CASE q = r
      BY <3>1, <2>3, <2>8, <2>9
    <3>2. CASE q # r
      BY <3>2, <2>1, <2>3, <2>7, <2>9 DEF OutcomeInv, r
    <3> QED
      BY <3>1, <3>2
  <2>11. OneOutcomePerRequest'
    BY <2>1, <2>2, <2>3 DEF OutcomeInv, OneOutcomePerRequest
  <2> QED
    BY <2>1, <2>10, <2>11 DEF OutcomeInv, Expired
<1>5. ASSUME NEW r \in Requests,
              \/ \E p \in Payloads : ReplayBegin(r, p)
              \/ \E a \in built[r] : ReplayCompletion(r, a)
              \/ \E reason \in Reasons : ReplayAbort(r, reason)
       PROVE  OutcomeInv'
  BY <1>5, <1>2 DEF ReplayBegin, ReplayCompletion, ReplayAbort
<1>6. ASSUME NEW e \in 1 .. epoch, NEW g \in Groups, AcquireFence(e, g) \/ ReleaseFence(e, g)
      PROVE  OutcomeInv'
  BY <1>6, <1>1 DEF AcquireFence, ReleaseFence, control
<1>7. ASSUME NEW g \in Groups, RecordFence(g) \/ RecordRelease(g) PROVE OutcomeInv'
  BY <1>7, <1>1, <1>a DEF RecordFence, RecordRelease, ActiveT, Ending
<1>8. ASSUME NEW g \in Groups, ReadGroup(g) \/ CatchUp(g) PROVE OutcomeInv'
  BY <1>8, <1>1 DEF ReadGroup, CatchUp, control
<1>9. CASE BeginMaterialization
  BY <1>9, <1>1, <1>a DEF BeginMaterialization, ActiveT
<1>10. CASE StartBuild \/ FailBuild \/ FinishBuild \/ ChangeLeader \/ Elapse
  BY <1>10, <1>1 DEF StartBuild, FailBuild, FinishBuild, ChangeLeader, Elapse, control
<1>11. ASSUME NEW r \in Requests, NEW a \in built[r], PublishArtifact(a) \/ RequestCompletion(r, a)
       PROVE  OutcomeInv'
  BY <1>11, <1>1, <1>a DEF PublishArtifact, RequestCompletion, ActiveT
<1>12. ASSUME NEW r \in Requests, NEW reason \in Reasons, RequestAbort(r, reason)
       PROVE  OutcomeInv'
  BY <1>12, <1>1, <1>a DEF RequestAbort, ActiveT, Cut
<1>13. ASSUME NEW g \in AllGroups, Mutate(g) PROVE OutcomeInv'
  BY <1>13, <1>1 DEF Mutate, control
<1>14. CASE UNCHANGED vars
  BY <1>14, <1>1 DEF vars, control
<1> QED
  BY <1>3, <1>4, <1>5, <1>6, <1>7, <1>8, <1>9, <1>10, <1>11, <1>12, <1>13, <1>14 DEF Next

(* A Begin, however often it is retried, before or after its receipt is    *)
(* evicted, starts one export, and is told one outcome.                    *)
THEOREM OneOutcome == Spec => []OneOutcomePerRequest
<1>1. Spec => [](TypeInv /\ OutcomeInv)
  BY TypeInit, TypeStep, OutcomeInit, OutcomeStep, PTL DEF Spec
<1> QED
  BY <1>1, PTL DEF OutcomeInv

-----------------------------------------------------------------------------
(* Artifacts.                                                              *)

(* A thread has read of every group what its export cut, also when another *)
(* export has begun meanwhile, and nobody has built anything else for its  *)
(* export.  Before an export is frozen nothing is built for it.            *)
BuildInv ==
    build # NoBuild =>
        /\ build.request \in Requests /\ begun[build.request] # {} /\ build.epoch # 0
        /\ built[build.request] \subseteq {build.cut}
        /\ \A g \in build.read \cup {Control} : build.part[g] = build.cut[g]
        /\ active.phase = "Preparing" => active.request # build.request
        /\ active.phase \in Cut /\ active.request = build.request => build.cut = active.cut

ArtifactInv ==
    /\ \A r \in Requests : built[r] # {} => begun[r] # {}
    /\ active.phase = "Preparing" => built[active.request] = {}
    /\ BuildInv
    /\ ArtifactIsTheCut

(* No artifact is built at first.                                          *)
LEMMA ArtifactInit == Init => ArtifactInv
BY DEF Init, ArtifactInv, BuildInv, NoExport, ArtifactIsTheCut, Cut

(* The other invariants give what it takes: the fence a thread finds held  *)
(* stands at the group's content, and a request begins one export only.    *)
LEMMA ArtifactStep ==
    TypeInv /\ FenceInv /\ OutcomeInv /\ ArtifactInv /\ [Next]_vars => ArtifactInv'
<1> SUFFICES ASSUME TypeInv, FenceInv, OutcomeInv, ArtifactInv, [Next]_vars PROVE ArtifactInv'
  OBVIOUS
<1> USE ExportAssumption
<1>a. /\ active \in ActiveT /\ epoch \in Nat /\ build \in BuildT
      /\ built \in [Requests -> SUBSET Artifacts]
      /\ begun \in [Requests -> SUBSET (1 .. epoch)]
      /\ content \in [AllGroups -> Nat] /\ ActiveIsLast
  BY DEF TypeInv, TypeOK, ActiveT, BuildT
<1>b. Control \in AllGroups /\ Groups \subseteq AllGroups /\ Control \notin Groups
  BY DEF AllGroups
<1>1. ASSUME UNCHANGED <<active, begun, build, built>> PROVE ArtifactInv'
  BY <1>1 DEF ArtifactInv, BuildInv, ArtifactIsTheCut
<1>2. ASSUME UNCHANGED <<active, begun, built>>, build' = NoBuild PROVE ArtifactInv'
  BY <1>2 DEF ArtifactInv, BuildInv, ArtifactIsTheCut
(* An active export moves on, with its cut.                                *)
<1>3. ASSUME UNCHANGED <<begun, build, built>>, active'.request = active.request,
             active'.phase \in Cut => active.phase \in Cut /\ active'.cut = active.cut,
             active'.phase # "Preparing"
      PROVE  ArtifactInv'
  BY <1>3 DEF ArtifactInv, BuildInv, ArtifactIsTheCut
<1>4. ASSUME NEW r \in Requests, NEW p \in Payloads, Begin(r, p) PROVE ArtifactInv'
  <2>1. /\ active.phase = "None" /\ ~Expired(r) /\ UNCHANGED <<build, built>>
        /\ active'.request = r /\ active'.phase = "Preparing"
        /\ begun' = [begun EXCEPT ![r] = @ \cup {epoch'}]
    BY <1>4 DEF Begin, NoExport, builds
  <2>2. begun[r] = {}
    BY <2>1 DEF OutcomeInv
  <2>3. built[r] = {} /\ (build # NoBuild => build.request # r)
    BY <2>2 DEF ArtifactInv, BuildInv
  <2>4. begun'[r] # {} /\ \A q \in Requests \ {r} : begun'[q] = begun[q]
    BY <2>1, <1>a
  <2>5. BuildInv'
    BY <2>1, <2>3, <2>4 DEF ArtifactInv, BuildInv, Cut
  <2> QED
    BY <2>1, <2>3, <2>4, <2>5 DEF ArtifactInv, ArtifactIsTheCut, Cut
<1>5. ASSUME NEW g \in Groups, RecordFence(g) PROVE ArtifactInv'
  <2>1. /\ active.phase = "Preparing" /\ UNCHANGED <<begun, build, built>>
        /\ active'.request = active.request
        /\ active'.phase \in {"Preparing", "Frozen"}
    BY <1>5, <1>a DEF RecordFence, ActiveT, builds
  <2>2. built[active.request] = {} /\ (build # NoBuild => build.request # active.request)
    BY <2>1 DEF ArtifactInv, BuildInv
  <2> QED
    BY <2>1, <2>2 DEF ArtifactInv, BuildInv, ArtifactIsTheCut
<1>6. CASE BeginMaterialization
  BY <1>6, <1>3, <1>a DEF BeginMaterialization, ActiveT, Cut, builds
<1>7. ASSUME NEW r \in Requests, NEW a \in built[r], PublishArtifact(a) PROVE ArtifactInv'
  BY <1>7, <1>3, <1>a DEF PublishArtifact, ActiveT, Cut, builds
<1>8. ASSUME NEW r \in Requests, NEW a \in built[r], RequestCompletion(r, a) PROVE ArtifactInv'
  BY <1>8, <1>3, <1>a DEF RequestCompletion, ActiveT, Cut, builds
<1>9. ASSUME NEW r \in Requests, NEW reason \in Reasons, RequestAbort(r, reason)
      PROVE  ArtifactInv'
  BY <1>9, <1>3, <1>a DEF RequestAbort, ActiveT, Cut, builds
<1>10. ASSUME NEW g \in Groups, RecordRelease(g) PROVE ArtifactInv'
  BY <1>10, <1>3, <1>a DEF RecordRelease, ActiveT, Cut, Ending, builds
<1>11. CASE StartBuild
  <2>1. /\ active.phase \in {"Materializing", "Available"} /\ UNCHANGED <<active, begun, built>>
        /\ fence[Control].held = active.epoch /\ fence[Control].cut = active.cut[Control]
        /\ build' = [NoBuild EXCEPT !.epoch = active.epoch, !.request = active.request,
                                    !.cut = active.cut,
                                    !.part = [NoCut EXCEPT ![Control] = content[Control]]]
    BY <1>11 DEF StartBuild, control
  <2>2. /\ build'.request = active.request /\ build'.epoch = active.epoch
        /\ build'.cut = active.cut /\ build'.read = {}
        /\ build'.part[Control] = content[Control]
    BY <2>1, <1>b DEF NoBuild, NoCut
  <2>3. /\ active.request \in Requests /\ active.epoch # 0 /\ begun[active.request] # {}
    BY <2>1, <1>a DEF ActiveIsLast, OutcomeInv
  <2>4. content[Control] = active.cut[Control]
    BY <2>1, <2>3, <1>b DEF FenceInv, HeldIsStill
  <2>5. built[active.request] \subseteq {active.cut}
    BY <2>1, <2>3 DEF ArtifactInv, ArtifactIsTheCut, Cut
  <2>6. BuildInv'
    BY <2>1, <2>2, <2>3, <2>4, <2>5 DEF BuildInv
  <2> QED
    BY <2>1, <2>6 DEF ArtifactInv, ArtifactIsTheCut
<1>12. ASSUME NEW g \in Groups, ReadGroup(g) PROVE ArtifactInv'
  <2>1. /\ build # NoBuild /\ UNCHANGED <<active, begun, built>>
        /\ fence[g].held = build.epoch /\ fence[g].cut = build.cut[g]
        /\ build' = [build EXCEPT !.read = @ \cup {g}, !.part[g] = content[g]]
    BY <1>12 DEF ReadGroup, CutIsApplied, control
  <2>2. /\ build'.request = build.request /\ build'.epoch = build.epoch
        /\ build'.cut = build.cut /\ build'.read = build.read \cup {g}
        /\ build'.part[g] = content[g]
        /\ \A h \in AllGroups \ {g} : build'.part[h] = build.part[h]
    BY <2>1, <1>a, <1>b DEF BuildT, Artifacts
  <2>3. content[g] = build.cut[g]
    BY <2>1, <1>b DEF ArtifactInv, BuildInv, FenceInv, HeldIsStill
  <2>4. BuildInv'
    BY <2>1, <2>2, <2>3, <1>a, <1>b DEF ArtifactInv, BuildInv, BuildT
  <2> QED
    BY <2>1, <2>4 DEF ArtifactInv, ArtifactIsTheCut
<1>13. CASE FinishBuild
  <2>1. /\ build # NoBuild /\ build.read = Groups /\ build' = NoBuild /\ UNCHANGED <<active, begun>>
        /\ built' = [built EXCEPT ![build.request] = @ \cup {build.part}]
    BY <1>13 DEF FinishBuild, control
  <2>2. build.part = build.cut
    <3>1. \A g \in AllGroups : build.part[g] = build.cut[g]
      BY <2>1 DEF ArtifactInv, BuildInv, AllGroups
    <3> QED
      BY <3>1, <1>a DEF BuildT, Artifacts
  <2>3. /\ build.request \in Requests /\ built'[build.request] = {build.cut}
        /\ \A r \in Requests \ {build.request} : built'[r] = built[r]
    BY <2>1, <2>2, <1>a DEF ArtifactInv, BuildInv
  <2> QED
    BY <2>1, <2>3 DEF ArtifactInv, BuildInv, ArtifactIsTheCut
<1>14. CASE Finish
  <2>1. /\ UNCHANGED <<begun, build, built>> /\ active'.phase = "None"
    BY <1>14 DEF Finish, NoExport
  <2> QED
    BY <2>1 DEF ArtifactInv, BuildInv, ArtifactIsTheCut, Cut
<1>15. CASE FailBuild \/ ChangeLeader
  BY <1>15, <1>2 DEF FailBuild, ChangeLeader, control
<1>16. ASSUME NEW r \in Requests,
              \/ \E p \in Payloads : ReplayBegin(r, p)
              \/ \E a \in built[r] : ReplayCompletion(r, a)
              \/ \E reason \in Reasons : ReplayAbort(r, reason)
       PROVE  ArtifactInv'
  BY <1>16, <1>1 DEF ReplayBegin, ReplayCompletion, ReplayAbort, control, builds
<1>17. ASSUME NEW e \in 1 .. epoch, NEW g \in Groups, AcquireFence(e, g) \/ ReleaseFence(e, g)
       PROVE  ArtifactInv'
  BY <1>17, <1>1 DEF AcquireFence, ReleaseFence, control, builds
<1>18. ASSUME NEW g \in Groups, CatchUp(g) PROVE ArtifactInv'
  BY <1>18, <1>1 DEF CatchUp, control, builds
<1>19. ASSUME NEW g \in AllGroups, Mutate(g) PROVE ArtifactInv'
  BY <1>19, <1>1 DEF Mutate, control, builds
<1>20. CASE Elapse \/ UNCHANGED vars
  BY <1>20, <1>1 DEF Elapse, vars, control, builds
<1> QED
  BY <1>4, <1>5, <1>6, <1>7, <1>8, <1>9, <1>10, <1>11, <1>12, <1>13, <1>14, <1>15, <1>16,
     <1>17, <1>18, <1>19, <1>20 DEF Next

(* All builds of one export, by whatever leader and however late they end, *)
(* give the same artifact: every group at its cut.                         *)
THEOREM OneArtifact == Spec => []ArtifactIsTheCut
<1>1. Spec => [](TypeInv /\ FenceInv /\ OutcomeInv /\ ArtifactInv)
  BY TypeInit, TypeStep, FenceInit, FenceStep, OutcomeInit, OutcomeStep, ArtifactInit,
     ArtifactStep, PTL DEF Spec
<1> QED
  BY <1>1, PTL DEF ArtifactInv

(***************************************************************************)
(* Sorting.                                                                *)
(***************************************************************************)

\* What it takes for R to order S.
Orders(R, S) ==
    /\ \A x \in S : <<x, x>> \notin R
    /\ \A x, y \in S : x # y => <<x, y>> \in R \/ <<y, x>> \in R
    /\ \A x, y, z \in S : <<x, y>> \in R /\ <<y, z>> \in R => <<x, z>> \in R

Below(S, R, x) == {y \in S : <<y, x>> \in R}

(* An element has fewer elements before it than a later one.               *)
LEMMA RanksRise ==
    ASSUME NEW S, IsFiniteSet(S), NEW R, Orders(R, S), NEW x \in S, NEW y \in S, <<x, y>> \in R
    PROVE  Cardinality(Below(S, R, x)) < Cardinality(Below(S, R, y))
<1>1. Below(S, R, x) \subseteq Below(S, R, y) /\ x \in Below(S, R, y) /\ x \notin Below(S, R, x)
  BY DEF Below, Orders
<1>2. Below(S, R, y) \subseteq S
  BY DEF Below
<1>3. IsFiniteSet(Below(S, R, y))
  BY <1>2, FS_Subset
<1>4. /\ IsFiniteSet(Below(S, R, x))
      /\ Cardinality(Below(S, R, x)) <= Cardinality(Below(S, R, y))
      /\ Cardinality(Below(S, R, x)) # Cardinality(Below(S, R, y))
  BY <1>1, <1>3, FS_Subset
<1>5. Cardinality(Below(S, R, x)) \in Nat /\ Cardinality(Below(S, R, y)) \in Nat
  BY <1>3, <1>4, FS_CardinalityType
<1> QED BY <1>4, <1>5

(* Every element of a finite ordered set has a rank of its own, and every  *)
(* rank is taken: counting what comes before an element is a sort.         *)
LEMMA RanksAreAll ==
    ASSUME NEW S, IsFiniteSet(S), NEW R, Orders(R, S)
    PROVE  /\ Cardinality(S) \in Nat
           /\ \A x \in S : Cardinality(Below(S, R, x)) \in 0 .. Cardinality(S) - 1
           /\ \A x, y \in S : Cardinality(Below(S, R, x)) = Cardinality(Below(S, R, y)) => x = y
           /\ \A i \in 1 .. Cardinality(S) : \E x \in S : Cardinality(Below(S, R, x)) = i - 1
<1> DEFINE c == Cardinality(S)
           f == [x \in S |-> Cardinality(Below(S, R, x)) + 1]
<1>1. c \in Nat
  BY FS_CardinalityType
<1>2. ASSUME NEW x \in S PROVE Cardinality(Below(S, R, x)) \in 0 .. c - 1
  <2>1. Below(S, R, x) \subseteq S /\ x \notin Below(S, R, x)
    BY DEF Below, Orders
  <2>2. /\ IsFiniteSet(Below(S, R, x)) /\ Cardinality(Below(S, R, x)) <= c
        /\ Cardinality(Below(S, R, x)) # c
    BY <2>1, FS_Subset
  <2>3. Cardinality(Below(S, R, x)) \in Nat
    BY <2>2, FS_CardinalityType
  <2> HIDE DEF c
  <2> QED BY <1>1, <2>2, <2>3
<1>3. ASSUME NEW x \in S, NEW y \in S, Cardinality(Below(S, R, x)) = Cardinality(Below(S, R, y))
      PROVE  x = y
  <2>1. Cardinality(Below(S, R, x)) \in Nat /\ Cardinality(Below(S, R, y)) \in Nat
    BY <1>1, <1>2
  <2>2. <<x, y>> \notin R /\ <<y, x>> \notin R
    BY <1>3, <2>1, RanksRise
  <2> QED BY <2>2 DEF Orders
<1>4. \A x \in S : f[x] \in 1 .. c /\ f[x] = Cardinality(Below(S, R, x)) + 1
  <2> SUFFICES ASSUME NEW x \in S PROVE f[x] \in 1 .. c /\ f[x] = Cardinality(Below(S, R, x)) + 1
    OBVIOUS
  <2>1. Cardinality(Below(S, R, x)) \in 0 .. c - 1
    BY <1>2
  <2> DEFINE b == Cardinality(Below(S, R, x))
  <2>2. f[x] = b + 1
    OBVIOUS
  <2> HIDE DEF f, b, c
  <2>3. f[x] \in 1 .. c
    BY <1>1, <2>1, <2>2 DEF b
  <2> QED BY <2>2, <2>3 DEF b
<1>5. f \in [S -> 1 .. c]
  BY <1>4
<1>6. ASSUME NEW x \in S, NEW y \in S, f[x] = f[y] PROVE x = y
  <2>1. Cardinality(Below(S, R, x)) \in Nat /\ Cardinality(Below(S, R, y)) \in Nat
    BY <1>1, <1>2
  <2> HIDE DEF f
  <2>2. Cardinality(Below(S, R, x)) = Cardinality(Below(S, R, y))
    BY <1>4, <1>6, <2>1
  <2> QED BY <1>3, <2>2
<1>7. f \in Injection(S, 1 .. c)
  BY <1>5, <1>6 DEF Injection, IsInjective
<1>8. IsFiniteSet(1 .. c) /\ Cardinality(1 .. c) = c
  BY <1>1, FS_Interval
<1> HIDE DEF f
<1>9. f \in Surjection(S, 1 .. c)
  BY <1>7, <1>8, FS_Injection
<1>10. ASSUME NEW i \in 1 .. c PROVE \E x \in S : Cardinality(Below(S, R, x)) = i - 1
  <2>1. PICK x \in S : f[x] = i
    BY <1>9 DEF Surjection
  <2>2. Cardinality(Below(S, R, x)) \in Nat /\ f[x] = Cardinality(Below(S, R, x)) + 1
    BY <1>1, <1>2, <1>4
  <2>3. Cardinality(Below(S, R, x)) = i - 1
    BY <2>1, <2>2
  <2> QED BY <2>3
<1> QED BY <1>1, <1>2, <1>3, <1>10

(* Sorted lists a finite set once, in the order of R.                      *)
LEMMA SortedLists ==
    ASSUME NEW S, IsFiniteSet(S), NEW R, Orders(R, S)
    PROVE  /\ Sorted(S, R) \in Seq(S) /\ Len(Sorted(S, R)) = Cardinality(S)
           /\ DOMAIN Sorted(S, R) = 1 .. Cardinality(S) /\ Cardinality(S) \in Nat
           /\ \A i, j \in 1 .. Cardinality(S) : i < j => <<Sorted(S, R)[i], Sorted(S, R)[j]>> \in R
           /\ \A x \in S : \E i \in 1 .. Cardinality(S) : Sorted(S, R)[i] = x
<1> DEFINE c == Cardinality(S)
           s == Sorted(S, R)
           rank(x) == Cardinality(Below(S, R, x))
<1>1. /\ c \in Nat
      /\ \A x \in S : rank(x) \in 0 .. c - 1
      /\ \A x, y \in S : rank(x) = rank(y) => x = y
      /\ \A i \in 1 .. c : \E x \in S : rank(x) = i - 1
  BY RanksAreAll
<1>2. ASSUME NEW i \in 1 .. c PROVE s[i] \in S /\ rank(s[i]) = i - 1
  <2>1. s[i] = CHOOSE x \in S : rank(x) = i - 1
    BY DEF Sorted, Below
  <2>2. \E x \in S : rank(x) = i - 1
    BY <1>1
  <2> HIDE DEF s, rank
  <2> QED BY <2>1, <2>2, Zenon
<1>3. DOMAIN s = 1 .. c
  BY DEF Sorted
<1>4. s \in [1 .. c -> S]
  <2> DEFINE e(i) == CHOOSE x \in S : Cardinality({y \in S : <<y, x>> \in R}) = i - 1
  <2>1. s = [i \in 1 .. c |-> e(i)]
    BY DEF Sorted
  <2> HIDE DEF s, e
  <2>2. \A i \in 1 .. c : e(i) \in S
    BY <1>2, <2>1
  <2> QED BY <2>1, <2>2
<1> HIDE DEF s, c, rank
<1>5. s \in Seq(S) /\ Len(s) = c
  BY <1>1, <1>3, <1>4
<1>6. ASSUME NEW i \in 1 .. c, NEW j \in 1 .. c, i < j PROVE <<s[i], s[j]>> \in R
  <2>1. s[i] \in S /\ s[j] \in S /\ rank(s[i]) = i - 1 /\ rank(s[j]) = j - 1
    BY <1>2
  <2>2. i \in Nat /\ j \in Nat
    BY <1>1
  <2>3. s[i] # s[j]
    BY <1>6, <2>1, <2>2
  <2>4. <<s[j], s[i]>> \in R => rank(s[j]) < rank(s[i])
    BY <2>1, RanksRise DEF rank
  <2>5. <<s[j], s[i]>> \notin R
    BY <1>6, <2>1, <2>2, <2>4
  <2> QED BY <2>1, <2>3, <2>5 DEF Orders
<1>7. ASSUME NEW x \in S PROVE \E i \in 1 .. c : s[i] = x
  <2> DEFINE i == rank(x) + 1
  <2>1. rank(x) \in 0 .. c - 1
    BY <1>1
  <2>2. i \in 1 .. c /\ rank(x) = i - 1
    BY <1>1, <2>1
  <2>3. s[i] = x
    BY <1>1, <1>2, <2>2
  <2> QED BY <2>2, <2>3
<1> QED BY <1>1, <1>3, <1>5, <1>6, <1>7 DEF s, c

(* Ascending lists a finite set of numbers once, upwards.                  *)
LEMMA AscendingLists ==
    ASSUME NEW S \in SUBSET Nat, IsFiniteSet(S)
    PROVE  /\ Ascending(S) \in Seq(S) /\ Len(Ascending(S)) = Cardinality(S)
           /\ DOMAIN Ascending(S) = 1 .. Cardinality(S) /\ Cardinality(S) \in Nat
           /\ \A i, j \in 1 .. Cardinality(S) : i < j => Ascending(S)[i] < Ascending(S)[j]
           /\ \A x \in S : \E i \in 1 .. Cardinality(S) : Ascending(S)[i] = x
           /\ Range(Ascending(S)) = S /\ IsStrict(Ascending(S))
<1> DEFINE R == {r \in S \X S : r[1] < r[2]}
           s == Ascending(S)
           c == Cardinality(S)
<1>1. \A x, y : <<x, y>> \in R <=> x \in S /\ y \in S /\ x < y
  OBVIOUS
<1>2. Orders(R, S)
  <2> HIDE DEF R
  <2> QED BY <1>1 DEF Orders
<1> HIDE DEF R
<1>3. /\ s \in Seq(S) /\ Len(s) = c /\ DOMAIN s = 1 .. c /\ c \in Nat
      /\ \A i, j \in 1 .. c : i < j => <<s[i], s[j]>> \in R
      /\ \A x \in S : \E i \in 1 .. c : s[i] = x
  <2>1. s = Sorted(S, R)
    BY DEF Ascending, R
  <2> HIDE DEF s
  <2> QED BY <1>2, <2>1, SortedLists
<1> HIDE DEF s, c
<1>4. \A i, j \in 1 .. c : i < j => s[i] < s[j]
  BY <1>1, <1>3
<1>5. Range(s) = S
  <2>1. \A i \in 1 .. c : s[i] \in S
    BY <1>3
  <2>2. Range(s) = {s[i] : i \in 1 .. c}
    BY <1>3 DEF Range
  <2> QED BY <1>3, <2>1, <2>2
<1>6. IsStrict(s)
  <2> SUFFICES ASSUME NEW i \in 1 .. c - 1 PROVE s[i] < s[i + 1]
    BY <1>3 DEF IsStrict
  <2>1. i \in 1 .. c /\ i + 1 \in 1 .. c /\ i < i + 1
    BY <1>3
  <2> QED BY <1>4, <2>1
<1> QED BY <1>3, <1>4, <1>5, <1>6 DEF s, c

(* AscendingKeys lists a finite set of partitions once, by stream and then *)
(* by partition.                                                           *)
LEMMA AscendingKeysLists ==
    ASSUME NEW S \in SUBSET (Nat \X Nat), IsFiniteSet(S)
    PROVE  /\ AscendingKeys(S) \in Seq(S) /\ Len(AscendingKeys(S)) = Cardinality(S)
           /\ DOMAIN AscendingKeys(S) = 1 .. Cardinality(S) /\ Cardinality(S) \in Nat
           /\ \A i, j \in 1 .. Cardinality(S) : i < j => Before(AscendingKeys(S)[i], AscendingKeys(S)[j])
           /\ \A x \in S : \E i \in 1 .. Cardinality(S) : AscendingKeys(S)[i] = x
<1> DEFINE R == {r \in S \X S : Before(r[1], r[2])}
           s == AscendingKeys(S)
           c == Cardinality(S)
<1>1. \A x, y : <<x, y>> \in R <=> x \in S /\ y \in S /\ Before(x, y)
  OBVIOUS
<1>2. Orders(R, S)
  <2> HIDE DEF R
  <2>1. \A x \in S : x[1] \in Nat /\ x[2] \in Nat /\ x = <<x[1], x[2]>>
    OBVIOUS
  <2>2. \A x, y \in S : x # y => x[1] # y[1] \/ x[2] # y[2]
    BY <2>1
  <2>3. \A x \in S : ~Before(x, x)
    BY <2>1 DEF Before
  <2>4. \A x, y \in S : x # y => Before(x, y) \/ Before(y, x)
    BY <2>1, <2>2 DEF Before
  <2>5. \A x, y, z \in S : Before(x, y) /\ Before(y, z) => Before(x, z)
    BY <2>1 DEF Before
  <2> QED BY <1>1, <2>3, <2>4, <2>5 DEF Orders
<1> HIDE DEF R
<1>3. /\ s \in Seq(S) /\ Len(s) = c /\ DOMAIN s = 1 .. c /\ c \in Nat
      /\ \A i, j \in 1 .. c : i < j => <<s[i], s[j]>> \in R
      /\ \A x \in S : \E i \in 1 .. c : s[i] = x
  <2>1. s = Sorted(S, R)
    BY DEF AscendingKeys, R
  <2> HIDE DEF s
  <2>2. /\ Sorted(S, R) \in Seq(S) /\ Len(Sorted(S, R)) = Cardinality(S)
        /\ DOMAIN Sorted(S, R) = 1 .. Cardinality(S) /\ Cardinality(S) \in Nat
        /\ \A i, j \in 1 .. Cardinality(S) : i < j => <<Sorted(S, R)[i], Sorted(S, R)[j]>> \in R
        /\ \A x \in S : \E i \in 1 .. Cardinality(S) : Sorted(S, R)[i] = x
    BY ONLY IsFiniteSet(S), <1>2, SortedLists
  <2> QED BY <2>1, <2>2, Zenon
<1> HIDE DEF s, c
<1>4. \A i, j \in 1 .. c : i < j => Before(s[i], s[j])
  BY <1>1, <1>3
<1> QED BY <1>3, <1>4 DEF s, c

(***************************************************************************)
(* What write_v1 leaves behind.                                            *)
(***************************************************************************)

(* One element before a sequence moves every other by one.                 *)
LEMMA Prepended ==
    ASSUME NEW S, NEW x \in S, NEW t \in Seq(S)
    PROVE  /\ <<x>> \o t \in Seq(S) /\ Len(<<x>> \o t) = Len(t) + 1
           /\ (<<x>> \o t)[1] = x /\ \A i \in 1 .. Len(t) : (<<x>> \o t)[i + 1] = t[i]
OBVIOUS

\* The control section and the data sections, framed, as the manifest counts
\* them.
Framed(d, data, i) == IF i = 1 THEN ControlFrame(d.control) ELSE DataFrame(data[i - 1])

TrailerOf(hashed) ==
    [kind |-> "Trailer", manifest |-> Len(hashed), length |-> Len(hashed) + 1, sum |-> hashed]

(* The frames write_v1 puts between the prologue and the manifest: the     *)
(* control section and then the data sections in their order.              *)
LEMMA FramesAre ==
    ASSUME NEW d, NEW data, NEW n \in Nat, DOMAIN data = 1 .. n
    PROVE  LET frames == <<ControlFrame(d.control)>> \o [i \in DOMAIN data |-> DataFrame(data[i])]
           IN  /\ DOMAIN frames = 1 .. n + 1 /\ Len(frames) = n + 1
               /\ frames \in Seq({Framed(d, data, i) : i \in 1 .. n + 1})
               /\ \A i \in 1 .. n + 1 : frames[i] = Framed(d, data, i)
<1> DEFINE x == ControlFrame(d.control)
           rest == [i \in DOMAIN data |-> DataFrame(data[i])]
           frames == <<x>> \o rest
           S == {Framed(d, data, i) : i \in 1 .. n + 1}
<1>1. x \in S /\ x = Framed(d, data, 1)
  <2>1. ControlFrame(d.control) = Framed(d, data, 1)
    BY DEF Framed
  <2>2. 1 \in 1 .. n + 1
    OBVIOUS
  <2> QED BY <2>1, <2>2
<1>2. \A i \in 1 .. n : rest[i] = Framed(d, data, i + 1) /\ rest[i] \in S
  <2> SUFFICES ASSUME NEW i \in 1 .. n PROVE rest[i] = Framed(d, data, i + 1) /\ rest[i] \in S
    OBVIOUS
  <2>1. i + 1 \in 1 .. n + 1 /\ i + 1 # 1 /\ (i + 1) - 1 = i
    OBVIOUS
  <2>2. rest[i] = DataFrame(data[i])
    OBVIOUS
  <2>3. Framed(d, data, i + 1) = DataFrame(data[i])
    BY <2>1 DEF Framed
  <2> QED BY <2>1, <2>2, <2>3
<1>3. rest \in Seq(S) /\ Len(rest) = n
  <2>1. DOMAIN rest = 1 .. n /\ rest = [i \in DOMAIN rest |-> rest[i]]
    OBVIOUS
  <2> HIDE DEF rest, S
  <2>2. rest \in [1 .. n -> S]
    BY <1>2, <2>1
  <2> QED BY <2>1, <2>2
<1> HIDE DEF x, rest, S
<1>4. /\ frames \in Seq(S) /\ Len(frames) = n + 1
      /\ frames[1] = x /\ \A i \in 1 .. n : frames[i + 1] = rest[i]
  BY <1>1, <1>3, Prepended
<1> HIDE DEF frames
<1>5. ASSUME NEW i \in 1 .. n + 1 PROVE frames[i] = Framed(d, data, i)
  <2>1. CASE i = 1
    BY <1>1, <1>4, <2>1
  <2>2. CASE i # 1
    <3>1. i - 1 \in 1 .. n /\ (i - 1) + 1 = i
      BY <2>2
    <3>2. frames[(i - 1) + 1] = rest[i - 1] /\ rest[i - 1] = Framed(d, data, (i - 1) + 1)
      BY <1>2, <1>4, <3>1
    <3> QED BY <3>1, <3>2
  <2> QED BY <2>1, <2>2
<1>6. DOMAIN frames = 1 .. n + 1
  BY <1>4
<1> QED BY <1>4, <1>5, <1>6 DEF x, rest, S, frames

\* The parts of a file with n data sections, and its manifest.
ManifestOf(f) == f[Len(f) - 1]

IsWritten(f, d, data, n) ==
    /\ DOMAIN f = 1 .. n + 4 /\ Len(f) = n + 4 /\ f = [i \in 1 .. n + 4 |-> f[i]]
    /\ f[1] = Prologue
    /\ \A i \in 1 .. n + 1 : f[i + 1] = Framed(d, data, i)
    /\ f[n + 3].kind = "Manifest"
    /\ f[n + 3].cluster = d.cluster /\ f[n + 3].export = d.export
    /\ f[n + 3].selected = d.selected /\ f[n + 3].cut = d.cut
    /\ Len(f[n + 3].sections) = n + 1 /\ DOMAIN f[n + 3].sections = 1 .. n + 1
    /\ \A i \in 1 .. n + 1 : f[n + 3].sections[i] = Descriptor(Framed(d, data, i), i - 1)
    /\ f[n + 3].totals = Totals(d, d.control, data)
    /\ f[n + 4].kind = "Trailer" /\ f[n + 4].manifest = n + 3 /\ f[n + 4].length = n + 4
    /\ f[n + 4].sum = [i \in 1 .. n + 3 |-> f[i]]

(* Part by part, what write_v1 leaves behind for a document with n data    *)
(* sections.                                                               *)
LEMMA WrittenIs ==
    ASSUME NEW d, NEW data, NEW n \in Nat, DOMAIN data = 1 .. n
    PROVE  IsWritten(Written(d, data), d, data, n)
<1> DEFINE frames == <<ControlFrame(d.control)>> \o [i \in DOMAIN data |-> DataFrame(data[i])]
           m == Manifest(d, data, frames)
           body == <<Prologue>> \o frames
           hashed == body \o <<m>>
           t == TrailerOf(hashed)
           f == Append(hashed, t)
           F == {Framed(d, data, i) : i \in 1 .. n + 1}
           S == {Prologue} \cup F \cup {m} \cup {t}
<1>1. Written(d, data) = f
  BY DEF Written, TrailerOf
<1>2. /\ DOMAIN frames = 1 .. n + 1 /\ Len(frames) = n + 1 /\ frames \in Seq(F)
      /\ \A i \in 1 .. n + 1 : frames[i] = Framed(d, data, i)
  BY FramesAre
<1>3. m = [kind |-> "Manifest", cluster |-> d.cluster, export |-> d.export, selected |-> d.selected,
           cut |-> d.cut, sections |-> [i \in DOMAIN frames |-> Descriptor(frames[i], i - 1)],
           totals |-> Totals(d, d.control, data)]
  BY DEF Manifest
<1>4. t = [kind |-> "Trailer", manifest |-> Len(hashed), length |-> Len(hashed) + 1, sum |-> hashed]
  BY DEF TrailerOf
<1> HIDE DEF frames, m
<1>5. <<Prologue>> \in Seq(S) /\ Len(<<Prologue>>) = 1 /\ <<Prologue>>[1] = Prologue /\ frames \in Seq(S)
  <2>1. \A i \in 1 .. n + 1 : frames[i] \in S
    BY <1>2
  <2>2. Prologue \in S
    OBVIOUS
  <2> HIDE DEF S
  <2> QED BY <1>2, <2>1, <2>2
<1>6. <<m>> \in Seq(S) /\ Len(<<m>>) = 1 /\ <<m>>[1] = m /\ t \in S
  <2>1. m \in S /\ t \in S
    OBVIOUS
  <2> HIDE DEF S
  <2> QED BY <2>1
<1> HIDE DEF S, F
<1>7. /\ body \in Seq(S) /\ Len(body) = n + 2 /\ body[1] = Prologue
      /\ \A i \in 1 .. n + 1 : body[i + 1] = frames[i]
  BY <1>2, <1>5
<1> HIDE DEF body
<1>8. /\ hashed \in Seq(S) /\ Len(hashed) = n + 3 /\ hashed[n + 3] = m
      /\ \A i \in 1 .. n + 2 : hashed[i] = body[i]
  BY <1>6, <1>7
<1> HIDE DEF hashed, t
<1>9. /\ f \in Seq(S) /\ Len(f) = n + 4 /\ f[n + 4] = t
      /\ \A i \in 1 .. n + 3 : f[i] = hashed[i]
  BY <1>6, <1>8
<1> HIDE DEF f
<1>10. DOMAIN f = 1 .. n + 4 /\ f = [i \in 1 .. n + 4 |-> f[i]]
  BY <1>9
<1>11. f[1] = Prologue /\ f[n + 3] = m
  <2>1. 1 \in 1 .. n + 2 /\ 1 \in 1 .. n + 3 /\ n + 3 \in 1 .. n + 3
    OBVIOUS
  <2> QED BY <1>7, <1>8, <1>9, <2>1
<1>12. ASSUME NEW i \in 1 .. n + 1 PROVE f[i + 1] = Framed(d, data, i)
  <2>1. i + 1 \in 1 .. n + 2 /\ i + 1 \in 1 .. n + 3
    OBVIOUS
  <2> QED BY <1>2, <1>7, <1>8, <1>9, <2>1
<1>13. /\ m.kind = "Manifest" /\ m.cluster = d.cluster /\ m.export = d.export
       /\ m.selected = d.selected /\ m.cut = d.cut /\ m.totals = Totals(d, d.control, data)
       /\ m.sections = [i \in 1 .. n + 1 |-> Descriptor(frames[i], i - 1)]
  BY <1>2, <1>3
<1>14. Len(m.sections) = n + 1 /\ DOMAIN m.sections = 1 .. n + 1
  BY <1>13
<1>15. \A i \in 1 .. n + 1 : m.sections[i] = Descriptor(Framed(d, data, i), i - 1)
  BY <1>2, <1>13
<1>16. t.kind = "Trailer" /\ t.manifest = n + 3 /\ t.length = n + 4 /\ t.sum = hashed
  BY <1>4, <1>8
<1>17. hashed = [i \in 1 .. n + 3 |-> f[i]]
  <2>1. hashed = [i \in 1 .. n + 3 |-> hashed[i]]
    BY <1>8
  <2> QED BY <1>9, <2>1
<1> QED BY <1>1, <1>9, <1>10, <1>11, <1>12, <1>13, <1>14, <1>15, <1>16, <1>17 DEF IsWritten

(***************************************************************************)
(* The constants.                                                          *)
(***************************************************************************)

GroupCount == Cardinality(DataGroups)

(* The control group and the data groups, counted and listed.              *)
LEMMA Sizes ==
    /\ GroupCount \in Nat /\ IsFiniteSet(SourceGroups) /\ Cardinality(SourceGroups) = GroupCount + 1
    /\ SourceGroups \ {0} = DataGroups /\ 0 \in SourceGroups /\ 0 \notin DataGroups
    /\ Ascending(DataGroups) \in Seq(DataGroups) /\ DOMAIN Ascending(DataGroups) = 1 .. GroupCount
    /\ Len(Ascending(DataGroups)) = GroupCount
    /\ Range(Ascending(DataGroups)) = DataGroups /\ IsStrict(Ascending(DataGroups))
    /\ \A g \in DataGroups : \E i \in 1 .. GroupCount : Ascending(DataGroups)[i] = g
    /\ \A i, j \in 1 .. GroupCount : i # j => Ascending(DataGroups)[i] # Ascending(DataGroups)[j]
<1>1. IsFiniteSet(DataGroups) /\ DataGroups \in SUBSET Nat /\ 0 \notin DataGroups
  BY LogicalExportAssumption
<1>2. GroupCount \in Nat
  BY <1>1, FS_CardinalityType DEF GroupCount
<1>3. IsFiniteSet(SourceGroups) /\ Cardinality(SourceGroups) = GroupCount + 1
  BY <1>1, FS_AddElement DEF SourceGroups, GroupCount
<1>4. SourceGroups \ {0} = DataGroups /\ 0 \in SourceGroups
  BY <1>1 DEF SourceGroups
<1>5. /\ Ascending(DataGroups) \in Seq(DataGroups) /\ DOMAIN Ascending(DataGroups) = 1 .. GroupCount
      /\ Len(Ascending(DataGroups)) = GroupCount
      /\ Range(Ascending(DataGroups)) = DataGroups /\ IsStrict(Ascending(DataGroups))
      /\ \A g \in DataGroups : \E i \in 1 .. GroupCount : Ascending(DataGroups)[i] = g
      /\ \A i, j \in 1 .. GroupCount : i < j => Ascending(DataGroups)[i] < Ascending(DataGroups)[j]
  BY <1>1, AscendingLists DEF GroupCount
<1>6. ASSUME NEW i \in 1 .. GroupCount, NEW j \in 1 .. GroupCount, i # j
      PROVE  Ascending(DataGroups)[i] # Ascending(DataGroups)[j]
  <2>1. Ascending(DataGroups)[i] \in Nat /\ Ascending(DataGroups)[j] \in Nat
    <3>1. Ascending(DataGroups)[i] \in DataGroups /\ Ascending(DataGroups)[j] \in DataGroups
      BY <1>5
    <3> QED BY <1>1, <3>1
  <2>2. i < j \/ j < i
    BY <1>2, <1>6
  <2> QED BY <1>5, <2>1, <2>2
<1> QED BY <1>1, <1>2, <1>3, <1>4, <1>5, <1>6

(* A whole file has the parts 1, 2, ... in their order.                    *)
LEMMA WholeIs ==
    /\ Whole = [i \in 1 .. GroupCount + 4 |-> i] /\ DOMAIN Whole = 1 .. GroupCount + 4 /\ Len(Whole) = GroupCount + 4
    /\ Whole \in Seq(Int) /\ Whole # NoFile /\ \A i \in 1 .. GroupCount + 4 : Whole[i] = i
<1>1. GroupCount \in Nat /\ Cardinality(SourceGroups) + 3 = GroupCount + 4
  BY Sizes
<1>2. Whole = [i \in 1 .. GroupCount + 4 |-> i]
  BY <1>1 DEF Whole
<1>3. DOMAIN Whole = 1 .. GroupCount + 4 /\ Whole \in [1 .. GroupCount + 4 -> Int] /\ \A i \in 1 .. GroupCount + 4 : Whole[i] = i
  BY <1>1, <1>2
<1>4. Len(Whole) = GroupCount + 4 /\ Whole \in Seq(Int)
  BY <1>1, <1>3
<1>5. Whole # NoFile
  BY <1>1, <1>4 DEF NoFile
<1> QED BY <1>2, <1>3, <1>4, <1>5

(* A sequence has finitely many elements, each of its type.                *)
LEMMA RangeIsFinite ==
    ASSUME NEW T, NEW s \in Seq(T)
    PROVE  IsFiniteSet(Range(s)) /\ IsFiniteSet(DOMAIN s) /\ Range(s) \subseteq T
           /\ DOMAIN s = 1 .. Len(s) /\ Len(s) \in Nat /\ \A i \in 1 .. Len(s) : s[i] \in T
<1>1. DOMAIN s = 1 .. Len(s) /\ Len(s) \in Nat /\ \A i \in 1 .. Len(s) : s[i] \in T
  OBVIOUS
<1>2. IsFiniteSet(1 .. Len(s))
  BY <1>1, FS_Interval
<1>3. s \in Surjection(1 .. Len(s), Range(s))
  <2>1. s \in [1 .. Len(s) -> Range(s)]
    BY <1>1 DEF Range
  <2>2. \A x \in Range(s) : \E i \in 1 .. Len(s) : s[i] = x
    BY <1>1 DEF Range
  <2> QED BY <2>1, <2>2 DEF Surjection
<1>4. IsFiniteSet(Range(s))
  BY <1>2, <1>3, FS_Surjection
<1>5. Range(s) \subseteq T
  BY <1>1 DEF Range
<1> QED BY <1>1, <1>2, <1>4, <1>5

(* A stream is placed, and its partitions have different numbers.          *)
LEMMA PlacementsAre ==
    ASSUME NEW s \in Streams
    PROVE  /\ s \in Nat /\ s # 0
           /\ Placements[s] \in Seq([partition : Nat, group : DataGroups]) /\ Placements[s] # <<>>
           /\ DOMAIN Placements[s] = 1 .. Len(Placements[s]) /\ Len(Placements[s]) \in Nat
           /\ Len(Placements[s]) > 0 /\ IsFiniteSet(Range(Placements[s]))
           /\ \A i \in DOMAIN Placements[s] :
                Placements[s][i].partition \in Nat /\ Placements[s][i].group \in DataGroups
           /\ \A i, j \in DOMAIN Placements[s] :
                Placements[s][i].partition = Placements[s][j].partition => i = j
           /\ IsStrict([i \in DOMAIN Placements[s] |-> Placements[s][i].partition])
<1> DEFINE x == Placements[s]
           k == Len(x)
<1>1. /\ s \in Nat /\ s # 0 /\ x \in Seq([partition : Nat, group : DataGroups]) /\ x # <<>>
      /\ PartitionsRise(x)
  BY LogicalExportAssumption
<1> HIDE DEF x
<1>2. /\ DOMAIN x = 1 .. k /\ k \in Nat /\ k > 0 /\ IsFiniteSet(Range(x))
      /\ \A i \in 1 .. k : x[i] \in [partition : Nat, group : DataGroups]
  <2> DEFINE T == [partition : Nat, group : DataGroups]
  <2>1. x \in Seq(T) /\ x # <<>>
    BY <1>1
  <2> HIDE DEF T
  <2>2. /\ DOMAIN x = 1 .. k /\ k \in Nat /\ IsFiniteSet(Range(x))
        /\ \A i \in 1 .. k : x[i] \in T
    BY <2>1, RangeIsFinite
  <2>3. k > 0
    BY <2>1, <2>2
  <2> QED BY <2>2, <2>3 DEF T
<1>3. \A i \in 1 .. k : x[i].partition \in Nat /\ x[i].group \in DataGroups
  BY <1>2
<1> HIDE DEF k
<1>4. ASSUME NEW i \in 1 .. k, NEW j \in 1 .. k, x[i].partition = x[j].partition PROVE i = j
  <2>1. i < j \/ j < i \/ i = j
    BY <1>2
  <2>2. (i < j => x[i].partition < x[j].partition) /\ (j < i => x[j].partition < x[i].partition)
    BY <1>1, <1>2 DEF PartitionsRise
  <2>3. x[i].partition \in Nat /\ x[j].partition \in Nat
    BY <1>3
  <2> QED BY <1>4, <2>1, <2>2, <2>3
<1>5. IsStrict([i \in DOMAIN x |-> x[i].partition])
  <2> DEFINE q == [i \in DOMAIN x |-> x[i].partition]
  <2>1. DOMAIN q = 1 .. k /\ \A i \in 1 .. k : q[i] = x[i].partition
    BY <1>2
  <2>2. q = [i \in 1 .. k |-> q[i]]
    BY <1>2
  <2> HIDE DEF q
  <2>3. Len(q) = k
    BY <1>2, <2>1, <2>2
  <2> SUFFICES ASSUME NEW i \in 1 .. k - 1 PROVE q[i] < q[i + 1]
    BY <2>3 DEF IsStrict, q
  <2>4. i \in 1 .. k /\ i + 1 \in 1 .. k /\ i < i + 1
    BY <1>2
  <2>5. x[i].partition < x[i + 1].partition
    BY <1>1, <1>2, <2>4 DEF PartitionsRise
  <2> QED BY <2>1, <2>4, <2>5
<1> QED BY <1>1, <1>2, <1>3, <1>4, <1>5 DEF x, k

PlaceOf(s, i) == <<s, Placements[s][i].partition>>

(* The partitions of the catalog are finitely many, and each has one       *)
(* group, the one its placement names.                                     *)
LEMMA PartsAre ==
    /\ Parts \subseteq Nat \X Nat /\ IsFiniteSet(Parts)
    /\ \A p \in Parts : /\ p = <<p[1], p[2]>> /\ p[1] \in Streams /\ p[2] \in Nat
                        /\ GroupOf(p) \in DataGroups
                        /\ \E i \in DOMAIN Placements[p[1]] : p = PlaceOf(p[1], i)
    /\ \A s \in Streams : \A i \in DOMAIN Placements[s] :
        PlaceOf(s, i) \in Parts /\ GroupOf(PlaceOf(s, i)) = Placements[s][i].group
<1> DEFINE Of(s) == {<<s, x.partition>> : x \in Range(Placements[s])}
<1>1. ASSUME NEW s \in Streams PROVE Of(s) = {PlaceOf(s, i) : i \in DOMAIN Placements[s]}
  BY DEF Range, PlaceOf
<1>2. Parts = UNION {Of(s) : s \in Streams}
  BY DEF Parts
<1>3. ASSUME NEW s \in Streams PROVE Of(s) \subseteq Nat \X Nat
  <2>1. s \in Nat /\ \A i \in DOMAIN Placements[s] : Placements[s][i].partition \in Nat
    BY PlacementsAre
  <2>2. \A i \in DOMAIN Placements[s] : PlaceOf(s, i) \in Nat \X Nat
    BY <2>1 DEF PlaceOf
  <2> HIDE DEF Of
  <2> QED BY <1>1, <2>2
<1>4. ASSUME NEW s \in Streams PROVE IsFiniteSet(Of(s))
  <2> DEFINE f == [i \in DOMAIN Placements[s] |-> PlaceOf(s, i)]
  <2>1. f \in Surjection(DOMAIN Placements[s], Of(s))
    BY <1>1 DEF Surjection
  <2>2. IsFiniteSet(DOMAIN Placements[s])
    BY PlacementsAre, RangeIsFinite
  <2> HIDE DEF f, Of
  <2> QED BY <2>1, <2>2, FS_Surjection
<1>5. IsFiniteSet({Of(s) : s \in Streams})
  <2> DEFINE f == [s \in Streams |-> Of(s)]
             T == {Of(s) : s \in Streams}
  <2> HIDE DEF Of
  <2>1. f \in Surjection(Streams, T)
    BY DEF Surjection
  <2>2. IsFiniteSet(Streams)
    BY LogicalExportAssumption
  <2> HIDE DEF f, T
  <2>3. IsFiniteSet(T)
    BY <2>1, <2>2, FS_Surjection
  <2> QED BY <2>3 DEF T
<1>6. IsFiniteSet(Parts)
  <2> DEFINE T == {Of(s) : s \in Streams}
  <2> HIDE DEF Of
  <2>1. \A U \in T : IsFiniteSet(U)
    BY <1>4
  <2>2. IsFiniteSet(T) /\ Parts = UNION T
    BY <1>2, <1>5
  <2> HIDE DEF T
  <2> QED BY <2>1, <2>2, FS_UNION
<1>7. Parts \subseteq Nat \X Nat
  <2> HIDE DEF Of
  <2> QED BY <1>2, <1>3
<1>8. ASSUME NEW s \in Streams, NEW i \in DOMAIN Placements[s]
      PROVE  PlaceOf(s, i) \in Parts /\ GroupOf(PlaceOf(s, i)) = Placements[s][i].group
  <2>1. PlaceOf(s, i) \in Of(s)
    BY <1>1
  <2>2. PlaceOf(s, i) \in Parts
    <3> HIDE DEF Of
    <3> QED BY <1>2, <2>1
  <2>3. PlaceOf(s, i)[1] = s /\ PlaceOf(s, i)[2] = Placements[s][i].partition
    BY DEF PlaceOf
  <2> DEFINE R == Range(Placements[s])
             v == Placements[s][i].partition
             x == CHOOSE y \in R : y.partition = v
  <2>4. Placements[s][i] \in R /\ Placements[s][i].partition = v
    BY DEF Range
  <2>5. GroupOf(PlaceOf(s, i)) = x.group
    BY <2>3 DEF GroupOf
  <2> HIDE DEF R
  <2>6. x \in R /\ x.partition = v
    <3> HIDE DEF v
    <3> QED BY <2>4, Zenon
  <2> HIDE DEF x
  <2>7. PICK j \in DOMAIN Placements[s] : x = Placements[s][j]
    BY <2>6 DEF R, Range
  <2>8. i = j
    BY <2>6, <2>7, PlacementsAre DEF v
  <2> QED BY <2>2, <2>5, <2>7, <2>8
<1>9. ASSUME NEW p \in Parts
      PROVE  /\ p = <<p[1], p[2]>> /\ p[1] \in Streams /\ p[2] \in Nat /\ GroupOf(p) \in DataGroups
             /\ \E i \in DOMAIN Placements[p[1]] : p = PlaceOf(p[1], i)
  <2>1. PICK s \in Streams : p \in Of(s)
    <3> HIDE DEF Of
    <3> QED BY <1>2
  <2>2. PICK i \in DOMAIN Placements[s] : p = PlaceOf(s, i)
    BY <1>1, <2>1
  <2>3. p[1] = s /\ p = <<p[1], p[2]>> /\ p[2] = Placements[s][i].partition
    BY <2>2 DEF PlaceOf
  <2>4. GroupOf(p) = Placements[s][i].group
    BY <1>8, <2>2
  <2>5. Placements[s][i].partition \in Nat /\ Placements[s][i].group \in DataGroups
    BY PlacementsAre
  <2>6. \E j \in DOMAIN Placements[p[1]] : p = PlaceOf(p[1], j)
    BY <2>2, <2>3, Zenon
  <2> QED BY <2>3, <2>4, <2>5, <2>6
<1> HIDE DEF Of
<1> QED BY <1>6, <1>7, <1>8, <1>9

(***************************************************************************)
(* What the materialization thread reads.                                  *)
(***************************************************************************)

PartitionMarks ==
    [id : Nat, name : {"a"}, publication : Nat, active : BOOLEAN, cluster : {"source"}, offset : Nat]
StreamMarks ==
    [id : Nat, name : {"a"}, publication : Nat, active : BOOLEAN, cluster : {"source"},
     positions : Seq(Nat)]
PartitionStates == [floor : Nat, records : Seq(Nat), ceiling : Nat, marks : Seq(PartitionMarks)]
StreamStates == [active : BOOLEAN, revision : Nat, ceiling : Nat, marks : Seq(StreamMarks)]

SourceTyped ==
    /\ parts \in [Parts -> PartitionStates] /\ streams \in [Streams -> StreamStates]
    /\ log \in [SourceGroups -> Nat] /\ fencedAt \in [SourceGroups -> Nat]

Planned(g) == AscendingKeys(PlannedPartitions(g))

(* The partitions prepare_from_control_snapshot plans for a group are      *)
(* listed once, ascending.                                                 *)
LEMMA PlannedLists ==
    ASSUME NEW g
    PROVE  /\ Planned(g) \in Seq(PlannedPartitions(g)) /\ Len(Planned(g)) \in Nat
           /\ DOMAIN Planned(g) = 1 .. Len(Planned(g))
           /\ \A i \in 1 .. Len(Planned(g)) : Planned(g)[i] \in PlannedPartitions(g) /\ Planned(g)[i] \in Parts
           /\ \A i, j \in 1 .. Len(Planned(g)) : i < j => Before(Planned(g)[i], Planned(g)[j])
           /\ \A i, j \in 1 .. Len(Planned(g)) : Planned(g)[i] = Planned(g)[j] => i = j
           /\ \A p \in PlannedPartitions(g) : \E i \in 1 .. Len(Planned(g)) : Planned(g)[i] = p
<1> DEFINE S == PlannedPartitions(g)
           s == Planned(g)
<1>1. S \subseteq Parts
  BY DEF PlannedPartitions
<1>2. S \in SUBSET (Nat \X Nat) /\ IsFiniteSet(S)
  <2>1. IsFiniteSet(S)
    BY <1>1, PartsAre, FS_Subset
  <2> QED BY <1>1, <2>1, PartsAre
<1> HIDE DEF S
<1>3. /\ s \in Seq(S) /\ Len(s) = Cardinality(S)
      /\ DOMAIN s = 1 .. Cardinality(S) /\ Cardinality(S) \in Nat
      /\ \A i, j \in 1 .. Cardinality(S) : i < j => Before(s[i], s[j])
      /\ \A x \in S : \E i \in 1 .. Cardinality(S) : s[i] = x
  <2>1. s = AscendingKeys(S)
    BY DEF Planned, S
  <2> HIDE DEF s
  <2> QED BY ONLY <1>2, <2>1, AscendingKeysLists
<1> HIDE DEF s
<1> DEFINE k == Len(s)
<1>4. /\ s \in Seq(S) /\ k \in Nat /\ DOMAIN s = 1 .. k
      /\ \A i, j \in 1 .. k : i < j => Before(s[i], s[j])
      /\ \A x \in S : \E i \in 1 .. k : s[i] = x
  BY ONLY <1>3, Zenon
<1>5. \A i \in 1 .. k : s[i] \in S
  BY <1>4
<1> HIDE DEF k
<1>6. ASSUME NEW i \in 1 .. k, NEW j \in 1 .. k, s[i] = s[j] PROVE i = j
  <2>1. s[i][1] \in Nat /\ s[i][2] \in Nat
    BY <1>2, <1>5
  <2>2. ~Before(s[i], s[j]) /\ ~Before(s[j], s[i])
    BY <1>6, <2>1 DEF Before
  <2>3. ~(i < j) /\ ~(j < i)
    BY <1>4, <2>2
  <2> QED BY <1>4, <2>3
<1> QED BY <1>1, <1>4, <1>5, <1>6 DEF s, S, k

(* What materialize_data_group reads of a group.                           *)
LEMMA SectionIs ==
    ASSUME NEW g
    PROVE  /\ DataSection(g) = [cluster |-> "source", export |-> "export", group |-> g, cut |-> fencedAt[g],
                                partitions |-> [i \in 1 .. Len(Planned(g)) |-> PartitionEntry(Planned(g)[i])]]
           /\ DataSection(g).cluster = "source" /\ DataSection(g).export = "export"
           /\ DataSection(g).group = g /\ DataSection(g).cut = fencedAt[g]
           /\ DOMAIN DataSection(g).partitions = 1 .. Len(Planned(g))
           /\ Len(DataSection(g).partitions) = Len(Planned(g))
           /\ \A i \in 1 .. Len(Planned(g)) :
                DataSection(g).partitions[i] = PartitionEntry(Planned(g)[i])
<1> DEFINE k == Len(Planned(g))
           ps == [i \in 1 .. k |-> PartitionEntry(Planned(g)[i])]
           x == DataSection(g)
<1>1. DOMAIN Planned(g) = 1 .. k /\ k \in Nat
  BY PlannedLists
<1>2. x = [cluster |-> "source", export |-> "export", group |-> g, cut |-> fencedAt[g], partitions |-> ps]
  BY <1>1 DEF DataSection, Planned
<1>3. DOMAIN ps = 1 .. k /\ \A i \in 1 .. k : ps[i] = PartitionEntry(Planned(g)[i])
  OBVIOUS
<1>4. Len(ps) = k
  <2>1. ps = [i \in 1 .. k |-> ps[i]]
    OBVIOUS
  <2> HIDE DEF ps, k
  <2> QED BY <1>1, <2>1
<1>5. ps = [i \in 1 .. k |-> PartitionEntry(Planned(g)[i])]
  OBVIOUS
<1> HIDE DEF ps, x, k
<1>6. /\ x.cluster = "source" /\ x.export = "export" /\ x.group = g /\ x.cut = fencedAt[g]
      /\ x.partitions = ps
  BY <1>2
<1> QED BY <1>2, <1>3, <1>4, <1>5, <1>6 DEF x, k

(* The document has one data section per group, ascending.                 *)
LEMMA SectionsAre ==
    /\ ControlSection.groups = Ascending(DataGroups) /\ Document.control = ControlSection
    /\ Document.cut = fencedAt
    /\ DOMAIN DataSections = 1 .. GroupCount /\ Len(DataSections) = GroupCount
    /\ \A i \in 1 .. GroupCount : DataSections[i] = DataSection(Ascending(DataGroups)[i])
    /\ DataSections = [i \in 1 .. GroupCount |-> DataSections[i]]
<1>1. ControlSection.groups = Ascending(DataGroups)
  BY DEF ControlSection
<1>2. DOMAIN Ascending(DataGroups) = 1 .. GroupCount /\ GroupCount \in Nat
  BY Sizes
<1> DEFINE s == DataSections
<1>3. /\ DOMAIN s = 1 .. GroupCount /\ s = [i \in 1 .. GroupCount |-> s[i]]
      /\ \A i \in 1 .. GroupCount : s[i] = DataSection(Ascending(DataGroups)[i])
  BY <1>1, <1>2 DEF DataSections
<1> HIDE DEF s
<1>4. Len(s) = GroupCount
  BY <1>2, <1>3
<1>5. Document.control = ControlSection /\ Document.cut = fencedAt
  BY DEF Document
<1> QED BY <1>1, <1>3, <1>4, <1>5 DEF s

\* Nothing but the source decides what an artifact contains.
LEMMA CutStays ==
    ASSUME UNCHANGED <<parts, streams, fencedAt, selected>>
    PROVE  UNCHANGED <<Document, ControlSection, DataSections>>
<1>1. parts' = parts /\ streams' = streams /\ fencedAt' = fencedAt /\ selected' = selected
  OBVIOUS
<1>2. UNCHANGED CatalogRevision
  BY <1>1 DEF CatalogRevision
<1>3. UNCHANGED ControlSection
  <2>1. \A s : UNCHANGED StreamEntry(s)
    BY <1>1 DEF StreamEntry
  <2> QED BY <1>1, <1>2, <2>1 DEF ControlSection
<1>4. UNCHANGED Document
  BY <1>1, <1>3 DEF Document
<1>5. \A g : UNCHANGED DataSection(g)
  <2>1. \A p : UNCHANGED PartitionEntry(p)
    BY <1>1 DEF PartitionEntry, TailOf
  <2>2. \A g : UNCHANGED PlannedPartitions(g)
    BY <1>1 DEF PlannedPartitions
  <2> QED BY <1>1, <2>1, <2>2 DEF DataSection
<1>6. UNCHANGED DataSections
  BY <1>3, <1>5 DEF DataSections
<1> QED BY <1>3, <1>4, <1>6

(***************************************************************************)
(* A damaged file is not accepted.                                         *)
(***************************************************************************)

(* Damage to a data section changes its frame.                             *)
LEMMA SectionFlips ==
    ASSUME SourceTyped, NEW g \in DataGroups
    PROVE  Flipped(DataFrame(DataSection(g))) # DataFrame(DataSection(g))
<1> DEFINE b == DataSection(g)
           frame == DataFrame(b)
           k == Len(Planned(g))
           ps == [i \in 1 .. k |-> PartitionEntry(Planned(g)[i])]
           sh == [i \in DOMAIN b.partitions |-> Shifted(b.partitions[i])]
           fb == [b EXCEPT !.partitions = sh]
<1>1. /\ b = [cluster |-> "source", export |-> "export", group |-> g, cut |-> fencedAt[g], partitions |-> ps]
      /\ DOMAIN b.partitions = 1 .. k /\ Len(b.partitions) = k
      /\ \A i \in 1 .. k : b.partitions[i] = PartitionEntry(Planned(g)[i])
  BY SectionIs
<1>2. k \in Nat /\ \A i \in 1 .. k : Planned(g)[i] \in Parts
  BY PlannedLists
<1>3. frame = [kind |-> "DataGroup", group |-> b.group, items |-> k, sum |-> b, body |-> b]
  BY <1>1 DEF DataFrame
<1> HIDE DEF ps, k, b, frame
<1>4. frame.kind = "DataGroup" /\ frame.items = k /\ frame.body = b
  BY <1>3
<1>5. CASE k = 0
  <2>1. Flipped(frame) = [kind |-> "Noise"]
    BY <1>4, <1>5 DEF Flipped
  <2>2. Flipped(frame).kind = "Noise"
    BY <2>1
  <2> QED BY <1>4, <2>2 DEF frame, b
<1>6. CASE k # 0
  <2>1. k > 0 /\ 1 \in 1 .. k
    BY <1>2, <1>6
  <2>2. Flipped(frame) = [frame EXCEPT !.body = fb]
    BY <1>4, <2>1 DEF Flipped
  <2>3. Flipped(frame).body = fb
    <3> HIDE DEF fb
    <3> QED BY <1>3, <2>2
  <2>4. fb.partitions = sh
    <3> HIDE DEF sh
    <3> QED BY <1>1
  <2>5. sh[1] = Shifted(b.partitions[1])
    BY <1>1, <2>1
  <2> DEFINE p == Planned(g)[1]
             e == b.partitions[1]
  <2>6. p \in Parts /\ e = PartitionEntry(p)
    BY <1>1, <1>2, <2>1
  <2>7. parts[p].floor \in Nat
    BY <2>6 DEF SourceTyped, PartitionStates
  <2> HIDE DEF p, e
  <2>8. e.floor = parts[p].floor /\ Shifted(e).floor = e.floor + 1
    BY <2>6 DEF PartitionEntry, Shifted
  <2>9. Shifted(e) # e
    BY <2>7, <2>8
  <2>10. fb # b
    BY <2>4, <2>5, <2>9 DEF e
  <2> HIDE DEF fb
  <2> QED BY <1>4, <2>3, <2>10 DEF frame, b
<1> QED BY <1>5, <1>6

(* Damage to the control section changes its frame.                        *)
LEMMA ControlFlips ==
    ASSUME Cardinality(Streams) \in Nat
    PROVE  Flipped(ControlFrame(ControlSection)) # ControlFrame(ControlSection)
<1> DEFINE b == ControlSection
           frame == ControlFrame(b)
           fb == [b EXCEPT !.maxStreams = b.maxStreams + 1]
           ss == [i \in DOMAIN selected |-> StreamEntry(selected[i])]
<1>1. b = [cluster |-> "source", export |-> "export", cut |-> fencedAt[0], revision |-> CatalogRevision,
           maxStreams |-> Cardinality(Streams), groups |-> Ascending(DataGroups), streams |-> ss]
  BY DEF ControlSection
<1> HIDE DEF ss
<1>2. frame = [kind |-> "Control", group |-> 0, items |-> Len(b.streams), sum |-> b, body |-> b]
  BY DEF ControlFrame
<1> HIDE DEF b, frame
<1>3. frame.kind = "Control" /\ frame.body = b /\ b.maxStreams \in Nat
  BY <1>1, <1>2
<1>4. Flipped(frame) = [frame EXCEPT !.body = fb]
  BY <1>3 DEF Flipped
<1>5. Flipped(frame).body = fb
  <2> HIDE DEF fb
  <2> QED BY <1>2, <1>4
<1>6. fb.maxStreams = b.maxStreams + 1
  BY <1>1
<1> HIDE DEF fb
<1>7. fb # b
  BY <1>3, <1>6
<1> QED BY <1>3, <1>5, <1>7 DEF frame, b

(* Damage to any part of a written file changes the part, and none but the *)
(* last part, undamaged, reads as a trailer.                               *)
LEMMA Flips ==
    ASSUME SourceTyped, IsWritten(image, Document, DataSections, GroupCount)
    PROVE  /\ \A i \in 1 .. GroupCount + 3 : Flipped(image[i]) # image[i]
           /\ Flipped(image[GroupCount + 4]).kind # "Trailer"
           /\ \A i \in 1 .. GroupCount + 3 : image[i].kind # "Trailer"
<1>0. GroupCount \in Nat /\ Cardinality(Streams) \in Nat
  BY Sizes, LogicalExportAssumption, FS_CardinalityType
<1>1. image[1].kind = "Prologue"
  BY DEF IsWritten, Prologue
<1>2. image[GroupCount + 3].kind = "Manifest" /\ image[GroupCount + 4].kind = "Trailer"
  BY DEF IsWritten
<1>3. \A x : x.kind \in {"Prologue", "Manifest", "Trailer"} => Flipped(x) = [kind |-> "Noise"]
  BY DEF Flipped
<1>4. \A x : x.kind \in {"Prologue", "Manifest", "Trailer"} => Flipped(x).kind = "Noise"
  BY <1>3
<1>5. /\ Flipped(image[1]) # image[1] /\ Flipped(image[GroupCount + 3]) # image[GroupCount + 3]
      /\ Flipped(image[GroupCount + 4]).kind # "Trailer"
  BY <1>1, <1>2, <1>4
<1>6. /\ Flipped(image[2]) # image[2] /\ image[2].kind = "Control"
  <2>1. 1 \in 1 .. GroupCount + 1 /\ 1 + 1 = 2
    BY <1>0
  <2>2. image[2] = ControlFrame(ControlSection)
    BY <2>1, SectionsAre DEF IsWritten, Framed
  <2>3. image[2].kind = "Control"
    BY <2>2 DEF ControlFrame
  <2> QED BY <1>0, <2>2, <2>3, ControlFlips
<1>7. ASSUME NEW i \in 3 .. GroupCount + 2
      PROVE  Flipped(image[i]) # image[i] /\ image[i].kind = "DataGroup"
  <2>1. i - 1 \in 1 .. GroupCount + 1 /\ i - 1 # 1 /\ (i - 1) + 1 = i /\ i - 2 \in 1 .. GroupCount
        /\ (i - 1) - 1 = i - 2
    BY <1>0
  <2>2. image[i] = DataFrame(DataSections[i - 2])
    BY <2>1 DEF IsWritten, Framed
  <2>3. DataSections[i - 2] = DataSection(Ascending(DataGroups)[i - 2])
    BY <2>1, SectionsAre
  <2>4. Ascending(DataGroups)[i - 2] \in DataGroups
    BY <2>1, Sizes
  <2>5. image[i].kind = "DataGroup"
    BY <2>2 DEF DataFrame
  <2> QED BY <2>2, <2>3, <2>4, <2>5, SectionFlips
<1>8. \A i \in 1 .. GroupCount + 3 : i = 1 \/ i = 2 \/ i \in 3 .. GroupCount + 2 \/ i = GroupCount + 3
  BY <1>0
<1>9. ASSUME NEW i \in 1 .. GroupCount + 3 PROVE Flipped(image[i]) # image[i] /\ image[i].kind # "Trailer"
  BY <1>1, <1>2, <1>5, <1>6, <1>7, <1>8
<1> QED BY <1>5, <1>9

\* A file whose parts are those of the artifact, some of them damaged.
FileTyped(f) ==
    f \in [1 .. GroupCount + 4 -> Int] /\ \A i \in 1 .. GroupCount + 4 : f[i] = i \/ f[i] = -i

(* A damaged copy of the artifact is a proper prefix of it, or has one     *)
(* part changed.                                                           *)
LEMMA DamageIs ==
    ASSUME NEW f \in Damaged(Whole)
    PROVE  \/ \E k \in 1 .. GroupCount + 3 : f = [i \in 1 .. k |-> i]
           \/ \E k \in 1 .. GroupCount + 4 : f = [i \in 1 .. GroupCount + 4 |-> IF i = k THEN -i ELSE i]
<1>0. GroupCount \in Nat
  BY Sizes
<1>1. CASE f \in {SubSeq(Whole, 1, m) : m \in 1 .. Len(Whole) - 1}
  <2>0. Len(Whole) - 1 = GroupCount + 3
    BY <1>0, WholeIs
  <2>1. PICK k \in 1 .. GroupCount + 3 : f = SubSeq(Whole, 1, k)
    BY <1>1, <2>0
  <2>2. k \in 1 .. Len(Whole) /\ Whole \in Seq(Int)
    BY <1>0, WholeIs
  <2>3. f \in Seq(Int) /\ Len(f) = k /\ \A i \in 1 .. k : f[i] = Whole[i]
    BY <2>1, <2>2
  <2>4. \A i \in 1 .. k : f[i] = i
    BY <1>0, <2>3, WholeIs
  <2>5. f = [i \in 1 .. k |-> i]
    BY <2>3, <2>4
  <2> QED BY <2>5
<1>2. CASE f \in {[Whole EXCEPT ![i] = -@] : i \in DOMAIN Whole}
  <2>1. PICK k \in 1 .. GroupCount + 4 : f = [Whole EXCEPT ![k] = -Whole[k]]
    BY <1>2, WholeIs
  <2>2. f = [i \in 1 .. GroupCount + 4 |-> IF i = k THEN -i ELSE i]
    BY <1>0, <2>1, WholeIs
  <2> QED BY <2>2
<1> QED BY <1>1, <1>2 DEF Damaged

(* The verifier tells every damaged file from the artifact.                *)
LEMMA OnlyWholeIsAccepted ==
    ASSUME SourceTyped, IsWritten(image, Document, DataSections, GroupCount),
           NEW f \in {NoFile, Whole} \cup Damaged(Whole), Accepted(f)
    PROVE  f = Whole
<1> DEFINE c == Contents(f)
           N == GroupCount + 4
<1>0. GroupCount \in Nat
  BY Sizes
<1>1. f # NoFile /\ Verified(c)
  BY DEF Accepted
<1>2. Last(c).kind = "Trailer" /\ Last(c).sum = Front(c)
  BY <1>1 DEF Verified, TrailerFits
<1>3. CASE \E k \in 1 .. GroupCount + 3 : f = [i \in 1 .. k |-> i]
  <2>1. PICK k \in 1 .. GroupCount + 3 : f = [i \in 1 .. k |-> i]
    BY <1>3
  <2>2. c = [i \in 1 .. k |-> image[i]]
    BY <2>1 DEF Contents
  <2> HIDE DEF c
  <2>3. Len(c) = k /\ c[k] = image[k]
    BY <2>2
  <2>4. image[k].kind = "Trailer"
    BY <1>2, <2>3 DEF Last
  <2> QED BY <2>4, Flips
<1>4. CASE \E k \in 1 .. N : f = [i \in 1 .. N |-> IF i = k THEN -i ELSE i]
  <2>1. PICK k \in 1 .. N : f = [i \in 1 .. N |-> IF i = k THEN -i ELSE i]
    BY <1>4
  <2>2. c = [i \in 1 .. N |-> IF i = k THEN Flipped(image[i]) ELSE image[i]]
    <3>1. DOMAIN f = 1 .. N /\ \A i \in 1 .. N : f[i] = IF i = k THEN -i ELSE i
      BY <2>1
    <3>2. \A i \in 1 .. N : f[i] > 0 <=> i # k
      BY <1>0, <3>1
    <3>3. \A i \in 1 .. N : i = k => -f[i] = i
      BY <1>0, <3>1
    <3>4. \A i \in 1 .. N : (IF f[i] > 0 THEN image[f[i]] ELSE Flipped(image[-f[i]]))
                            = IF i = k THEN Flipped(image[i]) ELSE image[i]
      BY <3>1, <3>2, <3>3
    <3> QED BY <3>1, <3>4 DEF Contents
  <2> HIDE DEF c
  <2>3. /\ c = [i \in 1 .. N |-> c[i]] /\ Len(c) = N
        /\ \A i \in 1 .. N : c[i] = IF i = k THEN Flipped(image[i]) ELSE image[i]
    BY <1>0, <2>2
  <2>4. CASE k = N
    <3>1. c[N] = Flipped(image[N]) /\ Last(c) = c[N]
      BY <1>0, <2>3, <2>4 DEF Last
    <3> QED BY <1>2, <3>1, Flips
  <2>5. CASE k # N
    <3>1. k \in 1 .. GroupCount + 3 /\ N \in 1 .. N
      BY <1>0, <2>5
    <3>2. c[N] = image[N] /\ Last(c) = c[N]
      BY <2>3, <2>5, <3>1 DEF Last
    <3>3. image[N].sum = [i \in 1 .. GroupCount + 3 |-> image[i]]
      BY DEF IsWritten
    <3>4. Front(c)[k] = c[k]
      <4> DEFINE S == {c[i] : i \in 1 .. N}
      <4>1. c \in [1 .. N -> S]
        BY <2>3
      <4> HIDE DEF S
      <4>2. c \in Seq(S) /\ N - 1 = GroupCount + 3
        BY <1>0, <4>1
      <4> QED BY <1>0, <2>3, <3>1, <4>2 DEF Front
    <3>5. Front(c)[k] = image[k]
      <4>1. Front(c) = [i \in 1 .. GroupCount + 3 |-> image[i]]
        BY <1>2, <3>2, <3>3
      <4> QED BY <3>1, <4>1
    <3>6. c[k] = Flipped(image[k])
      BY <1>0, <2>3, <3>1
    <3> QED BY <3>1, <3>4, <3>5, <3>6, Flips
  <2> QED BY <2>4, <2>5
<1>5. ASSUME f \in Damaged(Whole) PROVE f = Whole
  <2>1. \/ \E k \in 1 .. GroupCount + 3 : f = [i \in 1 .. k |-> i]
        \/ \E k \in 1 .. N : f = [i \in 1 .. N |-> IF i = k THEN -i ELSE i]
    BY <1>5, DamageIs
  <2> QED BY <1>3, <1>4, <2>1
<1> QED BY <1>1, <1>5

(***************************************************************************)
(* The source: bookmarks stay complete, their ids are log indexes.         *)
(***************************************************************************)

\* The marks of a partition or a stream: one publication each, without a
\* gap, and at most one of them active.
MarksKept(x) ==
    /\ x.ceiling = Len(x.marks)
    /\ \A i \in DOMAIN x.marks : x.marks[i].publication = i
    /\ \A i, j \in DOMAIN x.marks : x.marks[i].active /\ x.marks[j].active => i = j

\* y has one more mark than x, which is b.
Gains(x, y, b) ==
    /\ Len(y.marks) = Len(x.marks) + 1 /\ DOMAIN y.marks = 1 .. Len(x.marks) + 1
    /\ \A i \in 1 .. Len(x.marks) : y.marks[i] = x.marks[i]
    /\ y.marks[Len(x.marks) + 1] = b


(* Append adds one element at the end.                                     *)
LEMMA AppendIs ==
    ASSUME NEW T, NEW s \in Seq(T), NEW b \in T
    PROVE  /\ Append(s, b) \in Seq(T) /\ Len(Append(s, b)) = Len(s) + 1 /\ Len(s) \in Nat
           /\ DOMAIN s = 1 .. Len(s) /\ DOMAIN Append(s, b) = 1 .. Len(s) + 1
           /\ \A i \in 1 .. Len(s) : Append(s, b)[i] = s[i]
           /\ Append(s, b)[Len(s) + 1] = b
           /\ \A i \in 1 .. Len(s) : s[i] \in T
OBVIOUS

(* A new bookmark is the only change create_bookmark_record makes to a     *)
(* partition.                                                              *)
LEMMA PartitionGains ==
    ASSUME NEW x \in PartitionStates, NEW b \in PartitionMarks
    PROVE  /\ WithMark(x, b) \in PartitionStates
           /\ WithMark(x, b).floor = x.floor /\ WithMark(x, b).records = x.records
           /\ WithMark(x, b).ceiling = x.ceiling + 1 /\ Gains(x, WithMark(x, b), b)
<1> DEFINE ms == Append(x.marks, b)
           c == x.ceiling + 1
           y == WithMark(x, b)
<1>1. x.marks \in Seq(PartitionMarks) /\ x.ceiling \in Nat
  BY DEF PartitionStates
<1>2. y = [x EXCEPT !.ceiling = c, !.marks = ms]
  BY DEF WithMark
<1>3. /\ ms \in Seq(PartitionMarks) /\ c \in Nat /\ Len(ms) = Len(x.marks) + 1
      /\ DOMAIN ms = 1 .. Len(x.marks) + 1
      /\ \A i \in 1 .. Len(x.marks) : ms[i] = x.marks[i]
      /\ ms[Len(x.marks) + 1] = b
  BY <1>1, AppendIs
<1> HIDE DEF ms, c, y
<1>4. /\ y \in PartitionStates /\ y.floor = x.floor /\ y.records = x.records
      /\ y.ceiling = c /\ y.marks = ms
  BY <1>2, <1>3 DEF PartitionStates
<1> QED BY <1>3, <1>4 DEF y, c, Gains

(* A new bookmark is the only change apply_create_stream_bookmark makes to *)
(* a stream.                                                               *)
LEMMA StreamGains ==
    ASSUME NEW x \in StreamStates, NEW b \in StreamMarks
    PROVE  /\ WithMark(x, b) \in StreamStates
           /\ WithMark(x, b).active = x.active /\ WithMark(x, b).revision = x.revision
           /\ WithMark(x, b).ceiling = x.ceiling + 1 /\ Gains(x, WithMark(x, b), b)
<1> DEFINE ms == Append(x.marks, b)
           c == x.ceiling + 1
           y == WithMark(x, b)
<1>1. x.marks \in Seq(StreamMarks) /\ x.ceiling \in Nat
  BY DEF StreamStates
<1>2. y = [x EXCEPT !.ceiling = c, !.marks = ms]
  BY DEF WithMark
<1>3. /\ ms \in Seq(StreamMarks) /\ c \in Nat /\ Len(ms) = Len(x.marks) + 1
      /\ DOMAIN ms = 1 .. Len(x.marks) + 1
      /\ \A i \in 1 .. Len(x.marks) : ms[i] = x.marks[i]
      /\ ms[Len(x.marks) + 1] = b
  BY <1>1, AppendIs
<1> HIDE DEF ms, c, y
<1>4. /\ y \in StreamStates /\ y.active = x.active /\ y.revision = x.revision
      /\ y.ceiling = c /\ y.marks = ms
  BY <1>2, <1>3 DEF StreamStates
<1> QED BY <1>3, <1>4 DEF y, c, Gains

\* The marks of y are those of x with none of them active.
Clears(x, y) ==
    /\ Len(y.marks) = Len(x.marks) /\ DOMAIN y.marks = DOMAIN x.marks /\ y.ceiling = x.ceiling
    /\ \A i \in DOMAIN x.marks :
        y.marks[i].id = x.marks[i].id /\ y.marks[i].publication = x.marks[i].publication
        /\ ~y.marks[i].active

(* apply_delete_bookmark leaves every bookmark of a partition where it     *)
(* was, as a tombstone.                                                    *)
LEMMA PartitionClears ==
    ASSUME NEW x \in PartitionStates
    PROVE  /\ WithoutMarks(x) \in PartitionStates /\ Clears(x, WithoutMarks(x))
           /\ WithoutMarks(x).floor = x.floor /\ WithoutMarks(x).records = x.records
           /\ \A i \in DOMAIN x.marks : WithoutMarks(x).marks[i].offset = x.marks[i].offset
<1> DEFINE ms == Deleted(x.marks)
           y == WithoutMarks(x)
           T == PartitionMarks
           k == Len(x.marks)
<1>1. x.marks \in Seq(T)
  BY DEF PartitionStates
<1>2. k \in Nat /\ DOMAIN x.marks = 1 .. k /\ \A i \in 1 .. k : x.marks[i] \in T
  BY <1>1
<1>3. DOMAIN ms = 1 .. k /\ \A i \in 1 .. k : ms[i] = [x.marks[i] EXCEPT !.active = FALSE]
  BY <1>2 DEF Deleted
<1> HIDE DEF ms, k
<1>4. ASSUME NEW i \in 1 .. k
      PROVE  /\ ms[i] \in T /\ ms[i].id = x.marks[i].id /\ ms[i].publication = x.marks[i].publication
             /\ ms[i].active = FALSE /\ ms[i].offset = x.marks[i].offset
  <2> DEFINE a == x.marks[i]
             c == ms[i]
  <2>1. a \in PartitionMarks /\ c = [a EXCEPT !.active = FALSE]
    BY <1>2, <1>3
  <2> HIDE DEF a, c
  <2>2. /\ c \in PartitionMarks /\ c.id = a.id /\ c.publication = a.publication
        /\ c.active = FALSE /\ c.offset = a.offset
    BY <2>1 DEF PartitionMarks
  <2> QED BY <2>2 DEF a, c
<1>5. ms \in [1 .. k -> T]
  <2>1. ms = [i \in 1 .. k |-> ms[i]]
    BY <1>2 DEF ms, Deleted
  <2> HIDE DEF T
  <2> QED BY <1>4, <2>1
<1>6. ms \in Seq(T) /\ Len(ms) = k
  <2> HIDE DEF T
  <2> QED BY <1>2, <1>5
<1>7. y = [x EXCEPT !.marks = ms]
  BY DEF WithoutMarks, ms
<1> HIDE DEF y
<1>8. /\ y \in PartitionStates /\ y.floor = x.floor /\ y.records = x.records
      /\ y.ceiling = x.ceiling /\ y.marks = ms
  BY <1>6, <1>7 DEF PartitionStates
<1> QED BY <1>2, <1>3, <1>4, <1>6, <1>8 DEF y, Clears, k

(* apply_delete_stream_bookmark leaves every bookmark of a stream where it *)
(* was, as a tombstone.                                                    *)
LEMMA StreamClears ==
    ASSUME NEW x \in StreamStates
    PROVE  /\ WithoutMarks(x) \in StreamStates /\ Clears(x, WithoutMarks(x))
           /\ WithoutMarks(x).active = x.active /\ WithoutMarks(x).revision = x.revision
           /\ \A i \in DOMAIN x.marks : WithoutMarks(x).marks[i].positions = x.marks[i].positions
<1> DEFINE ms == Deleted(x.marks)
           y == WithoutMarks(x)
           T == StreamMarks
           k == Len(x.marks)
<1>1. x.marks \in Seq(T)
  BY DEF StreamStates
<1>2. k \in Nat /\ DOMAIN x.marks = 1 .. k /\ \A i \in 1 .. k : x.marks[i] \in T
  BY <1>1
<1>3. DOMAIN ms = 1 .. k /\ \A i \in 1 .. k : ms[i] = [x.marks[i] EXCEPT !.active = FALSE]
  BY <1>2 DEF Deleted
<1> HIDE DEF ms, k
<1>4. ASSUME NEW i \in 1 .. k
      PROVE  /\ ms[i] \in T /\ ms[i].id = x.marks[i].id /\ ms[i].publication = x.marks[i].publication
             /\ ms[i].active = FALSE /\ ms[i].positions = x.marks[i].positions
  <2> DEFINE a == x.marks[i]
             c == ms[i]
  <2>1. a \in StreamMarks /\ c = [a EXCEPT !.active = FALSE]
    BY <1>2, <1>3
  <2> HIDE DEF a, c
  <2>2. /\ c \in StreamMarks /\ c.id = a.id /\ c.publication = a.publication
        /\ c.active = FALSE /\ c.positions = a.positions
    BY <2>1 DEF StreamMarks
  <2> QED BY <2>2 DEF a, c
<1>5. ms \in [1 .. k -> T]
  <2>1. ms = [i \in 1 .. k |-> ms[i]]
    BY <1>2 DEF ms, Deleted
  <2> HIDE DEF T
  <2> QED BY <1>4, <2>1
<1>6. ms \in Seq(T) /\ Len(ms) = k
  <2> HIDE DEF T
  <2> QED BY <1>2, <1>5
<1>7. y = [x EXCEPT !.marks = ms]
  BY DEF WithoutMarks, ms
<1> HIDE DEF y
<1>8. /\ y \in StreamStates /\ y.active = x.active /\ y.revision = x.revision
      /\ y.ceiling = x.ceiling /\ y.marks = ms
  BY <1>6, <1>7 DEF StreamStates
<1> QED BY <1>2, <1>3, <1>4, <1>6, <1>8 DEF y, Clears, k

(* A bookmark that takes the next publication number and a free name       *)
(* leaves the numbers without a gap and the name active once.              *)
LEMMA GainsKept ==
    ASSUME NEW T, NEW x, NEW y, NEW b, Gains(x, y, b), MarksKept(x), x.marks \in Seq(T),
           b.publication = x.ceiling + 1, y.ceiling = x.ceiling + 1, NameIsFree(x)
    PROVE  MarksKept(y)
<1> DEFINE k == Len(x.marks)
           ms == x.marks
           ns == y.marks
<1>1. /\ DOMAIN ms = 1 .. k /\ k \in Nat /\ x.ceiling = k
      /\ \A i \in 1 .. k : ms[i].publication = i /\ ~ms[i].active
  BY DEF MarksKept, NameIsFree, Range
<1>2. /\ Len(ns) = k + 1 /\ DOMAIN ns = 1 .. k + 1
      /\ \A i \in 1 .. k : ns[i] = ms[i]
      /\ ns[k + 1] = b
  BY DEF Gains
<1> HIDE DEF k, ms, ns
<1>3. \A i \in 1 .. k + 1 : i \in 1 .. k \/ i = k + 1
  BY <1>1
<1>4. \A i \in 1 .. k + 1 : ns[i].publication = i
  BY <1>1, <1>2, <1>3
<1>5. \A i \in 1 .. k + 1 : ns[i].active => i = k + 1
  BY <1>1, <1>2, <1>3
<1> QED BY <1>1, <1>2, <1>4, <1>5 DEF MarksKept, ns

(* Tombstones keep their publication numbers.                              *)
LEMMA ClearsKept ==
    ASSUME NEW x, NEW y, Clears(x, y), MarksKept(x)
    PROVE  MarksKept(y)
BY DEF Clears, MarksKept

TailIn(ps, p) == ps[p].floor + Len(ps[p].records)

\* Every bookmark of a partition lies at or below its tail, and the ids of
\* the bookmarks of one group are different indexes of its log.
PartsSound(ps, lg) ==
    /\ \A p \in Parts : MarksKept(ps[p])
    /\ \A p \in Parts : \A i \in DOMAIN ps[p].marks :
        ps[p].marks[i].offset <= TailIn(ps, p) /\ ps[p].marks[i].id <= lg[GroupOf(p)]
    /\ \A p, q \in Parts : GroupOf(p) = GroupOf(q) =>
        \A i \in DOMAIN ps[p].marks, j \in DOMAIN ps[q].marks :
            ps[p].marks[i].id = ps[q].marks[j].id => p = q /\ i = j

\* The same for the streams: a stream bookmark has one position at or below
\* the tail of every partition of its stream.
StreamsSound(ss, ps, lg) ==
    /\ \A s \in Streams : MarksKept(ss[s]) /\ ss[s].revision # 0
    /\ \A s \in Streams : \A i \in DOMAIN ss[s].marks :
        /\ ss[s].marks[i].id <= lg[0]
        /\ Len(ss[s].marks[i].positions) = Len(Placements[s])
        /\ \A k \in DOMAIN Placements[s] :
            ss[s].marks[i].positions[k] <= TailIn(ps, PlaceOf(s, k))
    /\ \A s, t \in Streams :
        \A i \in DOMAIN ss[s].marks, j \in DOMAIN ss[t].marks :
            ss[s].marks[i].id = ss[t].marks[j].id => s = t /\ i = j

\* An export selects streams that are Active.
SelectedSound(ss, ph, sel) ==
    ph # "Open" => \E S \in SUBSET Streams :
        S # {} /\ sel = Ascending(S) /\ \A s \in S : ss[s].active

SourceInv ==
    /\ SourceTyped
    /\ PartsSound(parts, log) /\ StreamsSound(streams, parts, log)
    /\ SelectedSound(streams, phase, selected)

\* y keeps the ids of the marks of x and has at most one more, with this id.
OldOrNew(x, y, id) ==
    \A i \in DOMAIN y.marks :
        \/ (i \in DOMAIN x.marks /\ y.marks[i].id = x.marks[i].id)
        \/ (i = Len(x.marks) + 1 /\ y.marks[i].id = id)

(* A new bookmark brings its own id and no other.                          *)
LEMMA GainsOldOrNew ==
    ASSUME NEW T, NEW x, NEW y, NEW b, x.marks \in Seq(T), Gains(x, y, b)
    PROVE  OldOrNew(x, y, b.id)
<1> DEFINE k == Len(x.marks)
<1>1. k \in Nat /\ DOMAIN x.marks = 1 .. k
  OBVIOUS
<1> HIDE DEF k
<1>2. \A i \in 1 .. k + 1 : i \in 1 .. k \/ i = k + 1
  BY <1>1
<1>3. /\ DOMAIN y.marks = 1 .. k + 1
      /\ \A i \in 1 .. k : y.marks[i] = x.marks[i]
      /\ y.marks[k + 1] = b
  BY DEF Gains, k
<1> QED BY <1>1, <1>2, <1>3 DEF OldOrNew, k

(* A deletion brings no id.                                                *)
LEMMA ClearsOldOrNew ==
    ASSUME NEW x, NEW y, NEW id, Clears(x, y)
    PROVE  OldOrNew(x, y, id)
BY DEF Clears, OldOrNew

(* The fields of a partition have their types.                             *)
LEMMA TailsAreNat ==
    ASSUME NEW ps \in [Parts -> PartitionStates], NEW p \in Parts
    PROVE  TailIn(ps, p) \in Nat /\ ps[p] \in PartitionStates /\ ps[p].floor \in Nat
           /\ ps[p].marks \in Seq(PartitionMarks) /\ ps[p].records \in Seq(Nat)
<1>1. ps[p] \in PartitionStates
  OBVIOUS
<1>2. ps[p].floor \in Nat /\ ps[p].marks \in Seq(PartitionMarks) /\ ps[p].records \in Seq(Nat)
  BY <1>1 DEF PartitionStates
<1>3. Len(ps[p].records) \in Nat
  BY <1>2
<1> QED BY <1>1, <1>2, <1>3 DEF TailIn

(* The fields of a partition's bookmark have their types.                  *)
LEMMA PartMarksTyped ==
    ASSUME NEW ps \in [Parts -> PartitionStates], NEW p \in Parts, NEW i \in DOMAIN ps[p].marks
    PROVE  /\ ps[p].marks[i] \in PartitionMarks /\ ps[p].marks[i].id \in Nat
           /\ ps[p].marks[i].offset \in Nat /\ i \in Nat
<1>1. ps[p].marks \in Seq(PartitionMarks)
  BY TailsAreNat
<1>2. ps[p].marks[i] \in PartitionMarks /\ i \in Nat
  BY <1>1
<1> QED BY <1>2 DEF PartitionMarks

(* The fields of a stream and its bookmarks have their types.              *)
LEMMA StreamMarksTyped ==
    ASSUME NEW ss \in [Streams -> StreamStates], NEW s \in Streams
    PROVE  /\ ss[s] \in StreamStates /\ ss[s].marks \in Seq(StreamMarks) /\ ss[s].revision \in Nat
           /\ DOMAIN ss[s].marks = 1 .. Len(ss[s].marks) /\ Len(ss[s].marks) \in Nat
           /\ \A i \in DOMAIN ss[s].marks :
                /\ ss[s].marks[i] \in StreamMarks /\ ss[s].marks[i].id \in Nat
                /\ ss[s].marks[i].positions \in Seq(Nat) /\ i \in Nat
<1>1. ss[s] \in StreamStates
  OBVIOUS
<1>2. ss[s].marks \in Seq(StreamMarks) /\ ss[s].revision \in Nat
  BY <1>1 DEF StreamStates
<1>3. DOMAIN ss[s].marks = 1 .. Len(ss[s].marks) /\ Len(ss[s].marks) \in Nat
  BY <1>2
<1>4. \A i \in DOMAIN ss[s].marks : ss[s].marks[i] \in StreamMarks /\ i \in Nat
  BY <1>2
<1>5. \A b \in StreamMarks : b.id \in Nat /\ b.positions \in Seq(Nat)
  BY DEF StreamMarks
<1> QED BY <1>1, <1>2, <1>3, <1>4, <1>5

(* The ids of bookmarks stay below a log that grows.                       *)
LEMMA PartsStaySound ==
    ASSUME NEW ps \in [Parts -> PartitionStates], NEW lg \in [SourceGroups -> Nat],
           NEW h \in [SourceGroups -> Nat], \A g \in SourceGroups : lg[g] <= h[g], PartsSound(ps, lg)
    PROVE  PartsSound(ps, h)
<1>1. ASSUME NEW p \in Parts, NEW i \in DOMAIN ps[p].marks PROVE ps[p].marks[i].id <= h[GroupOf(p)]
  <2>1. GroupOf(p) \in SourceGroups
    BY PartsAre DEF SourceGroups
  <2>2. lg[GroupOf(p)] \in Nat /\ h[GroupOf(p)] \in Nat /\ lg[GroupOf(p)] <= h[GroupOf(p)]
    BY <2>1
  <2>3. ps[p].marks[i].id \in Nat
    BY PartMarksTyped
  <2>4. ps[p].marks[i].id <= lg[GroupOf(p)]
    BY DEF PartsSound
  <2> QED BY <2>2, <2>3, <2>4
<1> QED BY <1>1 DEF PartsSound

(* Stream bookmarks stay inside partitions whose tails do not fall.        *)
LEMMA StreamsStaySound ==
    ASSUME NEW ss \in [Streams -> StreamStates],
           NEW ps \in [Parts -> PartitionStates], NEW qs \in [Parts -> PartitionStates],
           NEW lg \in [SourceGroups -> Nat], NEW h \in [SourceGroups -> Nat],
           lg[0] <= h[0], \A p \in Parts : TailIn(ps, p) <= TailIn(qs, p),
           StreamsSound(ss, ps, lg)
    PROVE  StreamsSound(ss, qs, h)
<1>1. ASSUME NEW s \in Streams, NEW i \in DOMAIN ss[s].marks PROVE ss[s].marks[i].id <= h[0]
  <2>1. lg[0] \in Nat /\ h[0] \in Nat
    BY Sizes
  <2>2. ss[s].marks[i].id \in Nat
    BY StreamMarksTyped
  <2>3. ss[s].marks[i].id <= lg[0]
    BY DEF StreamsSound
  <2> QED BY <2>1, <2>2, <2>3
<1>2. ASSUME NEW s \in Streams, NEW i \in DOMAIN ss[s].marks, NEW k \in DOMAIN Placements[s]
      PROVE  ss[s].marks[i].positions[k] <= TailIn(qs, PlaceOf(s, k))
  <2>1. PlaceOf(s, k) \in Parts
    BY PartsAre
  <2>2. /\ TailIn(ps, PlaceOf(s, k)) \in Nat /\ TailIn(qs, PlaceOf(s, k)) \in Nat
        /\ TailIn(ps, PlaceOf(s, k)) <= TailIn(qs, PlaceOf(s, k))
    BY <2>1, TailsAreNat
  <2>3. /\ ss[s].marks[i].positions \in Seq(Nat)
        /\ Len(ss[s].marks[i].positions) = Len(Placements[s])
        /\ DOMAIN Placements[s] = 1 .. Len(Placements[s])
        /\ ss[s].marks[i].positions[k] <= TailIn(ps, PlaceOf(s, k))
    BY StreamMarksTyped, PlacementsAre DEF StreamsSound
  <2>4. ss[s].marks[i].positions[k] \in Nat
    BY <2>3
  <2> QED BY <2>2, <2>3, <2>4
<1> QED BY <1>1, <1>2 DEF StreamsSound

(* A command to a partition takes the next index of its group's log, so    *)
(* its bookmark has an id no other of the group has.                       *)
LEMMA PartChange ==
    ASSUME NEW ps \in [Parts -> PartitionStates], NEW lg \in [SourceGroups -> Nat], PartsSound(ps, lg),
           NEW p \in Parts, NEW y \in PartitionStates, MarksKept(y),
           OldOrNew(ps[p], y, lg[GroupOf(p)] + 1),
           \A i \in DOMAIN y.marks : y.marks[i].offset <= y.floor + Len(y.records)
    PROVE  PartsSound([ps EXCEPT ![p] = y], [lg EXCEPT ![GroupOf(p)] = lg[GroupOf(p)] + 1])
<1> DEFINE g == GroupOf(p)
           h == [lg EXCEPT ![g] = lg[g] + 1]
           qs == [ps EXCEPT ![p] = y]
<1>0. g \in SourceGroups /\ lg[g] \in Nat
  BY PartsAre DEF SourceGroups
<1>1. h \in [SourceGroups -> Nat] /\ h[g] = lg[g] + 1 /\ \A x \in SourceGroups : lg[x] <= h[x]
  BY <1>0
<1>2. qs \in [Parts -> PartitionStates] /\ qs[p] = y /\ \A q \in Parts : q # p => qs[q] = ps[q]
  OBVIOUS
<1>3. PartsSound(ps, h)
  <2> HIDE DEF h
  <2> QED BY <1>1, PartsStaySound
<1>4. \A q \in Parts : GroupOf(q) = g => \A i \in DOMAIN ps[q].marks : ps[q].marks[i].id < lg[g] + 1
  <2> SUFFICES ASSUME NEW q \in Parts, GroupOf(q) = g, NEW i \in DOMAIN ps[q].marks
               PROVE  ps[q].marks[i].id < lg[g] + 1
    OBVIOUS
  <2>1. ps[q].marks[i].id <= lg[g]
    BY DEF PartsSound
  <2>2. ps[q].marks[i].id \in Nat
    BY PartMarksTyped
  <2> QED BY <1>0, <2>1, <2>2
<1>5. \A i \in DOMAIN y.marks :
        \/ (i \in DOMAIN ps[p].marks /\ y.marks[i].id = ps[p].marks[i].id)
        \/ (i = Len(ps[p].marks) + 1 /\ y.marks[i].id = lg[g] + 1)
  BY DEF OldOrNew
<1> HIDE DEF qs, h
<1>6. \A q \in Parts : MarksKept(qs[q])
  BY <1>2 DEF PartsSound
<1>7. ASSUME NEW q \in Parts, NEW i \in DOMAIN qs[q].marks
      PROVE  qs[q].marks[i].offset <= TailIn(qs, q) /\ qs[q].marks[i].id <= h[GroupOf(q)]
  <2>1. CASE q # p
    <3>1. qs[q] = ps[q] /\ TailIn(qs, q) = TailIn(ps, q)
      BY <1>2, <2>1 DEF TailIn
    <3> QED BY <1>3, <3>1 DEF PartsSound
  <2>2. CASE q = p
    <3>1. qs[q] = y /\ TailIn(qs, q) = y.floor + Len(y.records) /\ i \in DOMAIN y.marks
      BY <1>2, <2>2 DEF TailIn
    <3>2. y.marks[i].id <= h[g]
      <4>1. CASE y.marks[i].id = lg[g] + 1
        BY <1>0, <1>1, <4>1
      <4>2. CASE i \in DOMAIN ps[p].marks /\ y.marks[i].id = ps[p].marks[i].id
        BY <1>3, <4>2 DEF PartsSound
      <4> QED BY <1>5, <3>1, <4>1, <4>2
    <3> QED BY <2>2, <3>1, <3>2
  <2> QED BY <2>1, <2>2
<1>8. ASSUME NEW q \in Parts, NEW r \in Parts, GroupOf(q) = GroupOf(r),
             NEW i \in DOMAIN qs[q].marks, NEW j \in DOMAIN qs[r].marks,
             qs[q].marks[i].id = qs[r].marks[j].id
      PROVE  q = r /\ i = j
  <2> DEFINE old(z, k) == k \in DOMAIN ps[z].marks /\ qs[z].marks[k].id = ps[z].marks[k].id
             new(z, k) == z = p /\ k = Len(ps[p].marks) + 1 /\ qs[z].marks[k].id = lg[g] + 1
  <2>1. \A z \in Parts : \A k \in DOMAIN qs[z].marks : old(z, k) \/ new(z, k)
    BY <1>2, <1>5
  <2>2. \A z \in Parts : \A k \in DOMAIN qs[z].marks :
            GroupOf(z) = g /\ old(z, k) => qs[z].marks[k].id # lg[g] + 1
    <3> SUFFICES ASSUME NEW z \in Parts, NEW k \in DOMAIN qs[z].marks, GroupOf(z) = g, old(z, k)
                 PROVE  qs[z].marks[k].id # lg[g] + 1
      OBVIOUS
    <3>1. ps[z].marks[k].id < lg[g] + 1 /\ ps[z].marks[k].id \in Nat
      BY <1>4, PartMarksTyped
    <3> QED BY <1>0, <3>1
  <2>3. (old(q, i) \/ new(q, i)) /\ (old(r, j) \/ new(r, j))
    BY <2>1
  <2>4. CASE old(q, i) /\ old(r, j)
    <3>1. /\ i \in DOMAIN ps[q].marks /\ j \in DOMAIN ps[r].marks
          /\ ps[q].marks[i].id = ps[r].marks[j].id
      BY <1>8, <2>4
    <3>2. \A k \in DOMAIN ps[q].marks, l \in DOMAIN ps[r].marks :
            ps[q].marks[k].id = ps[r].marks[l].id => q = r /\ k = l
      BY <1>8 DEF PartsSound
    <3> QED BY <3>1, <3>2
  <2>5. CASE new(q, i) /\ new(r, j)
    BY <2>5
  <2>6. CASE new(q, i) /\ old(r, j)
    BY <1>8, <2>2, <2>6
  <2>7. CASE old(q, i) /\ new(r, j)
    BY <1>8, <2>2, <2>7
  <2> QED BY <2>3, <2>4, <2>5, <2>6, <2>7
<1>9. PartsSound(qs, h)
  BY <1>6, <1>7, <1>8 DEF PartsSound
<1> QED BY <1>9 DEF qs, h

(* The same for a command to a stream, in the control group's log.         *)
LEMMA StreamChange ==
    ASSUME NEW ss \in [Streams -> StreamStates], NEW ps \in [Parts -> PartitionStates],
           NEW lg \in [SourceGroups -> Nat], StreamsSound(ss, ps, lg),
           NEW s \in Streams, NEW y \in StreamStates, MarksKept(y), y.revision # 0,
           OldOrNew(ss[s], y, lg[0] + 1),
           \A i \in DOMAIN y.marks :
                /\ Len(y.marks[i].positions) = Len(Placements[s])
                /\ \A k \in DOMAIN Placements[s] : y.marks[i].positions[k] <= TailIn(ps, PlaceOf(s, k))
    PROVE  StreamsSound([ss EXCEPT ![s] = y], ps, [lg EXCEPT ![0] = lg[0] + 1])
<1> DEFINE h == [lg EXCEPT ![0] = lg[0] + 1]
           qs == [ss EXCEPT ![s] = y]
<1>0. 0 \in SourceGroups /\ lg[0] \in Nat
  BY Sizes
<1>1. h \in [SourceGroups -> Nat] /\ h[0] = lg[0] + 1 /\ lg[0] <= h[0]
  BY <1>0
<1>2. qs \in [Streams -> StreamStates] /\ qs[s] = y /\ \A t \in Streams : t # s => qs[t] = ss[t]
  OBVIOUS
<1>3. StreamsSound(ss, ps, h)
  <2>1. \A p \in Parts : TailIn(ps, p) <= TailIn(ps, p)
    BY TailsAreNat
  <2> HIDE DEF h
  <2> QED BY <1>1, <2>1, StreamsStaySound
<1>4. \A t \in Streams : \A i \in DOMAIN ss[t].marks : ss[t].marks[i].id < lg[0] + 1
  <2> SUFFICES ASSUME NEW t \in Streams, NEW i \in DOMAIN ss[t].marks
               PROVE  ss[t].marks[i].id < lg[0] + 1
    OBVIOUS
  <2>1. ss[t].marks[i].id <= lg[0]
    BY DEF StreamsSound
  <2>2. ss[t].marks[i].id \in Nat
    BY StreamMarksTyped
  <2> QED BY <1>0, <2>1, <2>2
<1>5. \A i \in DOMAIN y.marks :
        \/ (i \in DOMAIN ss[s].marks /\ y.marks[i].id = ss[s].marks[i].id)
        \/ (i = Len(ss[s].marks) + 1 /\ y.marks[i].id = lg[0] + 1)
  BY DEF OldOrNew
<1> HIDE DEF qs, h
<1>6. \A t \in Streams : MarksKept(qs[t]) /\ qs[t].revision # 0
  BY <1>2 DEF StreamsSound
<1>7. ASSUME NEW t \in Streams, NEW i \in DOMAIN qs[t].marks
      PROVE  /\ qs[t].marks[i].id <= h[0]
             /\ Len(qs[t].marks[i].positions) = Len(Placements[t])
             /\ \A k \in DOMAIN Placements[t] : qs[t].marks[i].positions[k] <= TailIn(ps, PlaceOf(t, k))
  <2>1. CASE t # s
    <3>1. qs[t] = ss[t]
      BY <1>2, <2>1
    <3> QED BY <1>3, <3>1 DEF StreamsSound
  <2>2. CASE t = s
    <3>1. qs[t] = y /\ i \in DOMAIN y.marks
      BY <1>2, <2>2
    <3>2. y.marks[i].id <= h[0]
      <4>1. CASE y.marks[i].id = lg[0] + 1
        BY <1>0, <1>1, <4>1
      <4>2. CASE i \in DOMAIN ss[s].marks /\ y.marks[i].id = ss[s].marks[i].id
        BY <1>3, <4>2 DEF StreamsSound
      <4> QED BY <1>5, <3>1, <4>1, <4>2
    <3> QED BY <2>2, <3>1, <3>2
  <2> QED BY <2>1, <2>2
<1>8. ASSUME NEW q \in Streams, NEW r \in Streams,
             NEW i \in DOMAIN qs[q].marks, NEW j \in DOMAIN qs[r].marks,
             qs[q].marks[i].id = qs[r].marks[j].id
      PROVE  q = r /\ i = j
  <2> DEFINE old(z, k) == k \in DOMAIN ss[z].marks /\ qs[z].marks[k].id = ss[z].marks[k].id
             new(z, k) == z = s /\ k = Len(ss[s].marks) + 1 /\ qs[z].marks[k].id = lg[0] + 1
  <2>1. \A z \in Streams : \A k \in DOMAIN qs[z].marks : old(z, k) \/ new(z, k)
    BY <1>2, <1>5
  <2>2. \A z \in Streams : \A k \in DOMAIN qs[z].marks : old(z, k) => qs[z].marks[k].id # lg[0] + 1
    <3> SUFFICES ASSUME NEW z \in Streams, NEW k \in DOMAIN qs[z].marks, old(z, k)
                 PROVE  qs[z].marks[k].id # lg[0] + 1
      OBVIOUS
    <3>1. ss[z].marks[k].id < lg[0] + 1 /\ ss[z].marks[k].id \in Nat
      BY <1>4, StreamMarksTyped
    <3> QED BY <1>0, <3>1
  <2>3. (old(q, i) \/ new(q, i)) /\ (old(r, j) \/ new(r, j))
    BY <2>1
  <2>4. CASE old(q, i) /\ old(r, j)
    <3>1. /\ i \in DOMAIN ss[q].marks /\ j \in DOMAIN ss[r].marks
          /\ ss[q].marks[i].id = ss[r].marks[j].id
      BY <1>8, <2>4
    <3>2. \A k \in DOMAIN ss[q].marks, l \in DOMAIN ss[r].marks :
            ss[q].marks[k].id = ss[r].marks[l].id => q = r /\ k = l
      BY DEF StreamsSound
    <3> QED BY <3>1, <3>2
  <2>5. CASE new(q, i) /\ new(r, j)
    BY <2>5
  <2>6. CASE new(q, i) /\ old(r, j)
    BY <1>8, <2>2, <2>6
  <2>7. CASE old(q, i) /\ new(r, j)
    BY <1>8, <2>2, <2>7
  <2> QED BY <2>3, <2>4, <2>5, <2>6, <2>7
<1>9. StreamsSound(qs, ps, h)
  BY <1>6, <1>7, <1>8 DEF StreamsSound
<1> QED BY <1>9 DEF qs, h

\* What a command leaves of a partition p, apart from its own type.
LEMMA PartitionCommand ==
    ASSUME SourceInv, NEW p \in Parts, Applies(GroupOf(p)), NEW y \in PartitionStates,
           parts' = [parts EXCEPT ![p] = y], UNCHANGED streams, MarksKept(y),
           OldOrNew(parts[p], y, log[GroupOf(p)] + 1),
           \A i \in DOMAIN y.marks : y.marks[i].offset <= y.floor + Len(y.records),
           TailIn(parts, p) <= y.floor + Len(y.records)
    PROVE  SourceInv'
<1> DEFINE g == GroupOf(p)
<1>0. g \in SourceGroups
  BY PartsAre DEF SourceGroups
<1>1. log' = [log EXCEPT ![g] = log[g] + 1] /\ UNCHANGED <<fencedAt, phase, selected>>
  BY DEF Applies
<1>2. /\ parts \in [Parts -> PartitionStates] /\ streams \in [Streams -> StreamStates]
      /\ log \in [SourceGroups -> Nat] /\ fencedAt \in [SourceGroups -> Nat]
  BY DEF SourceInv, SourceTyped
<1>3. log' \in [SourceGroups -> Nat] /\ log[0] <= log'[0]
  <2>1. log[g] \in Nat /\ log[0] \in Nat /\ 0 \in SourceGroups
    BY <1>0, <1>2, Sizes
  <2> HIDE DEF g
  <2> QED BY <1>0, <1>1, <1>2, <2>1
<1>4. parts' \in [Parts -> PartitionStates]
  BY <1>2
<1>5. PartsSound(parts', log')
  <2>1. PartsSound([parts EXCEPT ![p] = y], [log EXCEPT ![g] = log[g] + 1])
    BY <1>2, PartChange DEF SourceInv
  <2> QED BY <1>1, <2>1
<1>6. \A q \in Parts : TailIn(parts, q) <= TailIn(parts', q)
  <2> SUFFICES ASSUME NEW q \in Parts PROVE TailIn(parts, q) <= TailIn(parts', q)
    OBVIOUS
  <2>1. CASE q = p
    <3>1. parts'[q] = y
      BY <1>2, <2>1
    <3> QED BY <2>1, <3>1 DEF TailIn
  <2>2. CASE q # p
    <3>1. parts'[q] = parts[q]
      BY <1>2, <2>2
    <3>2. TailIn(parts, q) \in Nat
      BY <1>2, TailsAreNat
    <3> QED BY <3>1, <3>2 DEF TailIn
  <2> QED BY <2>1, <2>2
<1>7. StreamsSound(streams', parts', log')
  <2>1. StreamsSound(streams, parts, log)
    BY DEF SourceInv
  <2>2. StreamsSound(streams, parts', log')
    BY <1>2, <1>3, <1>4, <1>6, <2>1, StreamsStaySound
  <2> QED BY <2>2
<1>8. SelectedSound(streams', phase', selected')
  BY <1>1 DEF SourceInv
<1>9. SourceTyped'
  BY <1>1, <1>2, <1>3, <1>4 DEF SourceTyped
<1> QED BY <1>5, <1>7, <1>8, <1>9 DEF SourceInv

(* What a command of the control group leaves of a stream.                 *)
LEMMA StreamCommand ==
    ASSUME SourceInv, NEW s \in Streams, Applies(0), NEW y \in StreamStates,
           streams' = [streams EXCEPT ![s] = y], UNCHANGED parts, MarksKept(y), y.revision # 0,
           streams[s].active => y.active, OldOrNew(streams[s], y, log[0] + 1),
           \A i \in DOMAIN y.marks :
                /\ Len(y.marks[i].positions) = Len(Placements[s])
                /\ \A k \in DOMAIN Placements[s] :
                    y.marks[i].positions[k] <= TailIn(parts, PlaceOf(s, k))
    PROVE  SourceInv'
<1>1. log' = [log EXCEPT ![0] = log[0] + 1] /\ UNCHANGED <<fencedAt, phase, selected>>
  BY DEF Applies
<1>2. /\ parts \in [Parts -> PartitionStates] /\ streams \in [Streams -> StreamStates]
      /\ log \in [SourceGroups -> Nat] /\ fencedAt \in [SourceGroups -> Nat]
  BY DEF SourceInv, SourceTyped
<1>3. log' \in [SourceGroups -> Nat] /\ \A g \in SourceGroups : log[g] <= log'[g]
  <2>1. 0 \in SourceGroups
    BY Sizes
  <2> QED BY <1>1, <1>2, <2>1
<1>4. streams' \in [Streams -> StreamStates]
  BY <1>2
<1>5. PartsSound(parts', log')
  <2>1. PartsSound(parts, log)
    BY DEF SourceInv
  <2>2. PartsSound(parts, log')
    BY <1>2, <1>3, <2>1, PartsStaySound
  <2> QED BY <2>2
<1>6. StreamsSound(streams', parts', log')
  <2>1. StreamsSound([streams EXCEPT ![s] = y], parts, [log EXCEPT ![0] = log[0] + 1])
    BY <1>2, StreamChange DEF SourceInv
  <2> QED BY <1>1, <2>1
<1>7. SelectedSound(streams', phase', selected')
  <2>1. \A t \in Streams : streams[t].active => streams'[t].active
    BY <1>2
  <2> QED BY <1>1, <2>1 DEF SourceInv, SelectedSound
<1>8. SourceTyped'
  BY <1>1, <1>2, <1>3, <1>4 DEF SourceTyped
<1> QED BY <1>5, <1>6, <1>7, <1>8 DEF SourceInv

(* A bookmark at or below the tail keeps a partition sound.                *)
LEMMA PartitionMarked ==
    ASSUME NEW x \in PartitionStates, MarksKept(x), NameIsFree(x), NEW id \in Nat, NEW offset \in Nat,
           offset <= x.floor + Len(x.records),
           \A i \in DOMAIN x.marks : x.marks[i].offset <= x.floor + Len(x.records)
    PROVE  LET y == WithMark(x, PartitionMark(id, x, offset))
           IN  /\ y \in PartitionStates /\ MarksKept(y) /\ OldOrNew(x, y, id)
               /\ y.floor = x.floor /\ y.records = x.records
               /\ \A i \in DOMAIN y.marks : y.marks[i].offset <= y.floor + Len(y.records)
<1> DEFINE b == PartitionMark(id, x, offset)
           y == WithMark(x, b)
           k == Len(x.marks)
<1>1. x.ceiling \in Nat /\ x.marks \in Seq(PartitionMarks)
  BY DEF PartitionStates
<1>2. /\ b \in PartitionMarks /\ b.id = id /\ b.publication = x.ceiling + 1 /\ b.offset = offset
  BY <1>1 DEF PartitionMark, PartitionMarks
<1> HIDE DEF b
<1>3. /\ y \in PartitionStates /\ y.floor = x.floor /\ y.records = x.records
      /\ y.ceiling = x.ceiling + 1 /\ Gains(x, y, b)
  BY <1>2, PartitionGains
<1> HIDE DEF y
<1>4. MarksKept(y)
  BY <1>1, <1>2, <1>3, GainsKept
<1>5. OldOrNew(x, y, id)
  BY <1>1, <1>2, <1>3, GainsOldOrNew
<1>6. k \in Nat /\ DOMAIN x.marks = 1 .. k
  BY <1>1
<1>7. /\ DOMAIN y.marks = 1 .. k + 1
      /\ \A i \in 1 .. k : y.marks[i] = x.marks[i]
      /\ y.marks[k + 1] = b
  BY <1>3 DEF Gains
<1> HIDE DEF k
<1>8. \A i \in 1 .. k + 1 : i \in 1 .. k \/ i = k + 1
  BY <1>6
<1>9. \A i \in DOMAIN y.marks : y.marks[i].offset <= y.floor + Len(y.records)
  BY <1>2, <1>3, <1>6, <1>7, <1>8
<1> QED BY <1>3, <1>4, <1>5, <1>9 DEF y, b

(* What SourceInv says of one partition.                                   *)
LEMMA SourceOf ==
    ASSUME SourceInv, NEW p \in Parts
    PROVE  /\ parts[p] \in PartitionStates /\ MarksKept(parts[p]) /\ TailOf(p) = TailIn(parts, p)
           /\ TailOf(p) \in Nat /\ GroupOf(p) \in SourceGroups /\ log[GroupOf(p)] + 1 \in Nat
           /\ parts[p].records \in Seq(Nat) /\ parts[p].floor \in Nat
           /\ parts[p].marks \in Seq(PartitionMarks)
           /\ \A i \in DOMAIN parts[p].marks :
                parts[p].marks[i].offset <= parts[p].floor + Len(parts[p].records)
                /\ parts[p].marks[i].offset \in Nat
<1>1. parts \in [Parts -> PartitionStates] /\ log \in [SourceGroups -> Nat]
  BY DEF SourceInv, SourceTyped
<1>2. GroupOf(p) \in SourceGroups
  BY PartsAre DEF SourceGroups
<1>3. TailOf(p) = TailIn(parts, p)
  BY DEF TailOf, TailIn
<1>4. log[GroupOf(p)] + 1 \in Nat
  <2>1. log[GroupOf(p)] \in Nat
    BY <1>1, <1>2
  <2> QED BY <2>1
<1>5. \A i \in DOMAIN parts[p].marks : parts[p].marks[i].offset \in Nat
  BY <1>1, PartMarksTyped
<1>6. /\ MarksKept(parts[p])
      /\ \A i \in DOMAIN parts[p].marks : parts[p].marks[i].offset <= TailIn(parts, p)
  BY DEF SourceInv, PartsSound
<1> QED BY <1>1, <1>2, <1>3, <1>4, <1>5, <1>6, TailsAreNat DEF TailIn

(* apply_publish keeps the source sound, a record with a name included.    *)
LEMMA PublishKeeps ==
    ASSUME SourceInv, NEW p \in Parts, NEW named \in BOOLEAN, Publish(p, named)
    PROVE  SourceInv'
<1> DEFINE x == parts[p]
           id == log[GroupOf(p)] + 1
           rs == Append(x.records, id)
           z == [x EXCEPT !.records = rs]
           y == WithMark(z, PartitionMark(id, z, TailOf(p) + 1))
<1>1. /\ x \in PartitionStates /\ MarksKept(x) /\ TailOf(p) = TailIn(parts, p)
      /\ TailOf(p) \in Nat /\ GroupOf(p) \in SourceGroups /\ id \in Nat
      /\ x.records \in Seq(Nat) /\ x.floor \in Nat /\ x.marks \in Seq(PartitionMarks)
      /\ \A i \in DOMAIN x.marks : x.marks[i].offset <= x.floor + Len(x.records) /\ x.marks[i].offset \in Nat
      /\ TailIn(parts, p) = x.floor + Len(x.records)
  BY SourceOf DEF TailIn
<1>2. /\ Applies(GroupOf(p)) /\ UNCHANGED streams /\ (named => NameIsFree(x))
      /\ parts' = [parts EXCEPT ![p] = IF named THEN y ELSE z]
  BY DEF Publish
<1> HIDE DEF x, id
<1>3. rs \in Seq(Nat) /\ Len(rs) = Len(x.records) + 1 /\ Len(x.records) \in Nat
  BY <1>1
<1> HIDE DEF rs
<1>4. /\ z \in PartitionStates /\ z.floor = x.floor /\ z.records = rs /\ z.marks = x.marks
      /\ z.ceiling = x.ceiling
  BY <1>1, <1>3 DEF PartitionStates
<1> HIDE DEF z
<1>5. MarksKept(z) /\ OldOrNew(x, z, id)
  BY <1>1, <1>4 DEF MarksKept, OldOrNew
<1>6. /\ TailOf(p) + 1 = z.floor + Len(z.records) /\ TailOf(p) + 1 \in Nat
      /\ TailIn(parts, p) <= z.floor + Len(z.records)
  <2> DEFINE l == Len(x.records)
             a == x.floor
             t == TailOf(p)
  <2>1. z.floor + Len(z.records) = a + (l + 1)
    BY <1>3, <1>4
  <2>2. a \in Nat /\ l \in Nat /\ t = a + l /\ TailIn(parts, p) = t
    BY <1>1, <1>3
  <2> HIDE DEF l, a, t
  <2>3. t + 1 = a + (l + 1) /\ t + 1 \in Nat /\ t <= a + (l + 1)
    BY <2>2
  <2> QED BY <2>1, <2>2, <2>3 DEF t
<1>7. \A i \in DOMAIN z.marks : z.marks[i].offset <= z.floor + Len(z.records)
  BY <1>1, <1>3, <1>4
<1>8. CASE ~named
  BY <1>2, <1>4, <1>5, <1>6, <1>7, <1>8, PartitionCommand DEF x, id
<1>9. CASE named
  <2>1. NameIsFree(z)
    BY <1>2, <1>4, <1>9 DEF NameIsFree
  <2>2. /\ y \in PartitionStates /\ MarksKept(y) /\ OldOrNew(z, y, id)
        /\ y.floor = z.floor /\ y.records = z.records
        /\ \A i \in DOMAIN y.marks : y.marks[i].offset <= y.floor + Len(y.records)
    <3> DEFINE o == TailOf(p) + 1
    <3>1. o \in Nat /\ o <= z.floor + Len(z.records)
      BY <1>6
    <3> HIDE DEF o
    <3>2. LET w == WithMark(z, PartitionMark(id, z, o))
          IN  /\ w \in PartitionStates /\ MarksKept(w) /\ OldOrNew(z, w, id)
              /\ w.floor = z.floor /\ w.records = z.records
              /\ \A i \in DOMAIN w.marks : w.marks[i].offset <= w.floor + Len(w.records)
      BY <1>1, <1>4, <1>5, <1>7, <2>1, <3>1, PartitionMarked
    <3> QED BY <3>2 DEF o
  <2> HIDE DEF y
  <2>3. OldOrNew(x, y, id)
    BY <1>4, <2>2 DEF OldOrNew
  <2>4. parts' = [parts EXCEPT ![p] = y] /\ TailIn(parts, p) <= y.floor + Len(y.records)
    BY <1>2, <1>6, <1>9, <2>2
  <2> QED BY <1>2, <2>2, <2>3, <2>4, PartitionCommand DEF x, id
<1> QED BY <1>8, <1>9

(* apply_create_bookmark keeps the source sound.                           *)
LEMMA CreateBookmarkKeeps ==
    ASSUME SourceInv, NEW p \in Parts, NEW offset \in Nat, CreateBookmark(p, offset)
    PROVE  SourceInv'
<1> DEFINE x == parts[p]
           id == log[GroupOf(p)] + 1
           y == WithMark(x, PartitionMark(id, x, offset))
<1>1. /\ x \in PartitionStates /\ MarksKept(x) /\ TailOf(p) = TailIn(parts, p)
      /\ TailOf(p) \in Nat /\ id \in Nat
      /\ \A i \in DOMAIN x.marks : x.marks[i].offset <= x.floor + Len(x.records)
      /\ TailIn(parts, p) = x.floor + Len(x.records)
  BY SourceOf DEF TailIn
<1>2. /\ Applies(GroupOf(p)) /\ UNCHANGED streams /\ NameIsFree(x) /\ offset <= TailOf(p)
      /\ parts' = [parts EXCEPT ![p] = y]
  BY DEF CreateBookmark
<1> HIDE DEF x, id
<1>3. /\ y \in PartitionStates /\ MarksKept(y) /\ OldOrNew(x, y, id)
      /\ y.floor = x.floor /\ y.records = x.records
      /\ \A i \in DOMAIN y.marks : y.marks[i].offset <= y.floor + Len(y.records)
  BY <1>1, <1>2, PartitionMarked
<1> HIDE DEF y
<1>4. TailIn(parts, p) <= y.floor + Len(y.records)
  BY <1>1, <1>3
<1> QED BY <1>2, <1>3, <1>4, PartitionCommand DEF x, id

(* apply_delete_bookmark keeps the source sound.                           *)
LEMMA DeleteBookmarkKeeps ==
    ASSUME SourceInv, NEW p \in Parts, DeleteBookmark(p)
    PROVE  SourceInv'
<1> DEFINE x == parts[p]
           y == WithoutMarks(x)
<1>1. /\ x \in PartitionStates /\ MarksKept(x) /\ TailIn(parts, p) \in Nat
      /\ \A i \in DOMAIN x.marks : x.marks[i].offset <= x.floor + Len(x.records)
      /\ TailIn(parts, p) = x.floor + Len(x.records)
  BY SourceOf DEF TailIn
<1>2. Applies(GroupOf(p)) /\ UNCHANGED streams /\ parts' = [parts EXCEPT ![p] = y]
  BY DEF DeleteBookmark
<1> HIDE DEF x
<1>3. /\ y \in PartitionStates /\ Clears(x, y) /\ y.floor = x.floor /\ y.records = x.records
      /\ \A i \in DOMAIN x.marks : y.marks[i].offset = x.marks[i].offset
  BY <1>1, PartitionClears
<1> HIDE DEF y
<1>4. MarksKept(y) /\ OldOrNew(x, y, log[GroupOf(p)] + 1)
  BY <1>1, <1>3, ClearsKept, ClearsOldOrNew
<1>5. DOMAIN y.marks = DOMAIN x.marks
  BY <1>3 DEF Clears
<1>6. \A i \in DOMAIN y.marks : y.marks[i].offset <= y.floor + Len(y.records)
  BY <1>1, <1>3, <1>5
<1>7. TailIn(parts, p) <= y.floor + Len(y.records)
  BY <1>1, <1>3
<1> QED BY <1>2, <1>3, <1>4, <1>6, <1>7, PartitionCommand DEF x

(* apply_advance_retention keeps the source sound: it drops records from   *)
(* the front and leaves the tail.                                          *)
LEMMA AdvanceFloorKeeps ==
    ASSUME SourceInv, NEW p \in Parts, AdvanceFloor(p)
    PROVE  SourceInv'
<1> DEFINE x == parts[p]
           fl == x.floor + 1
           rs == Tail(x.records)
           y == [x EXCEPT !.floor = fl, !.records = rs]
<1>1. /\ x \in PartitionStates /\ MarksKept(x) /\ TailIn(parts, p) \in Nat
      /\ x.records \in Seq(Nat) /\ x.floor \in Nat
      /\ \A i \in DOMAIN x.marks : x.marks[i].offset <= x.floor + Len(x.records)
      /\ TailIn(parts, p) = x.floor + Len(x.records)
  BY SourceOf DEF TailIn
<1>2. /\ Applies(GroupOf(p)) /\ UNCHANGED streams /\ parts' = [parts EXCEPT ![p] = y]
      /\ x.records # <<>>
  BY DEF AdvanceFloor
<1> HIDE DEF x
<1>3. rs \in Seq(Nat) /\ Len(rs) = Len(x.records) - 1 /\ Len(x.records) \in Nat /\ fl \in Nat
  BY <1>1, <1>2
<1>4. fl + Len(rs) = x.floor + Len(x.records)
  BY <1>1, <1>3
<1> HIDE DEF fl, rs
<1>5. /\ y \in PartitionStates /\ y.floor = fl /\ y.records = rs /\ y.marks = x.marks
      /\ y.ceiling = x.ceiling
  BY <1>1, <1>3 DEF PartitionStates
<1> HIDE DEF y
<1>6. MarksKept(y) /\ OldOrNew(x, y, log[GroupOf(p)] + 1)
  BY <1>1, <1>5 DEF MarksKept, OldOrNew
<1>7. /\ \A i \in DOMAIN y.marks : y.marks[i].offset <= y.floor + Len(y.records)
      /\ TailIn(parts, p) <= y.floor + Len(y.records)
  BY <1>1, <1>4, <1>5
<1> QED BY <1>2, <1>5, <1>6, <1>7, PartitionCommand DEF x

(* A finite nonempty set of numbers has a largest one.                     *)
LEMMA MaxIs ==
    ASSUME NEW S \in SUBSET Nat, IsFiniteSet(S), S # {}
    PROVE  Max(S) \in S /\ \A y \in S : y <= Max(S)
<1> DEFINE s == Ascending(S)
           c == Cardinality(S)
<1>1. /\ s \in Seq(S) /\ c \in Nat /\ DOMAIN s = 1 .. c
      /\ \A i, j \in 1 .. c : i < j => s[i] < s[j]
      /\ \A x \in S : \E i \in 1 .. c : s[i] = x
  BY AscendingLists
<1>2. c # 0
  BY FS_EmptySet
<1> HIDE DEF s, c
<1>3. c \in 1 .. c /\ s[c] \in S
  BY <1>1, <1>2
<1>4. ASSUME NEW y \in S PROVE s[c] >= y
  <2>1. PICK i \in 1 .. c : s[i] = y
    BY <1>1
  <2>2. i = c \/ i < c
    BY <1>1
  <2>3. s[c] \in Nat /\ y \in Nat
    BY <1>3
  <2> QED BY <1>1, <1>3, <2>1, <2>2, <2>3
<1>5. \E x \in S : \A y \in S : x >= y
  BY <1>3, <1>4
<1>6. Max(S) \in S /\ \A y \in S : Max(S) >= y
  BY <1>5, Zenon DEF Max
<1>7. Max(S) \in Nat
  BY <1>6
<1> QED BY <1>6, <1>7

(* The catalog's revision is that of the stream changed last.              *)
LEMMA RevisionIs ==
    ASSUME streams \in [Streams -> StreamStates], Streams # {}
    PROVE  /\ CatalogRevision \in Nat
           /\ \A s \in Streams : streams[s].revision <= CatalogRevision
           /\ \E s \in Streams : CatalogRevision = streams[s].revision
<1> DEFINE S == {streams[s].revision : s \in Streams}
           f == [s \in Streams |-> streams[s].revision]
<1>1. \A s \in Streams : streams[s].revision \in Nat
  BY StreamMarksTyped
<1>2. S \in SUBSET Nat /\ S # {}
  BY <1>1
<1>3. f \in Surjection(Streams, S)
  BY DEF Surjection
<1>4. IsFiniteSet(Streams)
  BY LogicalExportAssumption
<1>5. CatalogRevision = Max(S)
  BY DEF CatalogRevision
<1>6. \A s \in Streams : streams[s].revision \in S
  OBVIOUS
<1>7. \A x \in S : \E s \in Streams : x = streams[s].revision
  OBVIOUS
<1> HIDE DEF S, f
<1>8. IsFiniteSet(S)
  BY <1>3, <1>4, FS_Surjection
<1>9. Max(S) \in S /\ \A y \in S : y <= Max(S)
  BY <1>2, <1>8, MaxIs
<1> QED BY <1>2, <1>5, <1>6, <1>7, <1>9

(* What SourceInv says of one stream.                                      *)
LEMMA StreamOf ==
    ASSUME SourceInv, NEW s \in Streams
    PROVE  /\ streams[s] \in StreamStates /\ MarksKept(streams[s]) /\ streams[s].revision # 0
           /\ log[0] + 1 \in Nat /\ streams[s].marks \in Seq(StreamMarks)
           /\ \A i \in DOMAIN streams[s].marks :
                /\ Len(streams[s].marks[i].positions) = Len(Placements[s])
                /\ \A k \in DOMAIN Placements[s] :
                    streams[s].marks[i].positions[k] <= TailIn(parts, PlaceOf(s, k))
<1>1. streams \in [Streams -> StreamStates] /\ log \in [SourceGroups -> Nat]
  BY DEF SourceInv, SourceTyped
<1>2. log[0] \in Nat
  BY <1>1, Sizes
<1>3. StreamsSound(streams, parts, log)
  BY DEF SourceInv
<1>4. /\ MarksKept(streams[s]) /\ streams[s].revision # 0
      /\ \A i \in DOMAIN streams[s].marks :
                /\ Len(streams[s].marks[i].positions) = Len(Placements[s])
                /\ \A k \in DOMAIN Placements[s] :
                    streams[s].marks[i].positions[k] <= TailIn(parts, PlaceOf(s, k))
  BY <1>3 DEF StreamsSound
<1>5. log[0] + 1 \in Nat
  BY <1>2
<1> QED BY <1>1, <1>4, <1>5, StreamMarksTyped

(* apply_create_stream_bookmark keeps the source sound: the tails it       *)
(* records only grow.                                                      *)
LEMMA CreateStreamBookmarkKeeps ==
    ASSUME SourceInv, NEW s \in Streams, CreateStreamBookmark(s)
    PROVE  SourceInv'
<1> DEFINE x == streams[s]
           id == log[0] + 1
           ps == [i \in DOMAIN Placements[s] |-> TailOf(<<s, Placements[s][i].partition>>)]
           b == StreamMark(id, x, ps)
           y == WithMark(x, b)
           k == Len(x.marks)
           InPlace(m) == /\ Len(m.positions) = Len(Placements[s])
                         /\ \A i \in DOMAIN Placements[s] : m.positions[i] <= TailIn(parts, PlaceOf(s, i))
<1>1. /\ x \in StreamStates /\ MarksKept(x) /\ x.revision # 0 /\ id \in Nat /\ x.marks \in Seq(StreamMarks)
      /\ \A i \in DOMAIN x.marks : InPlace(x.marks[i])
  BY StreamOf
<1>2. /\ Applies(0) /\ UNCHANGED parts /\ NameIsFree(x) /\ streams' = [streams EXCEPT ![s] = y]
  BY DEF CreateStreamBookmark
<1>3. \A i \in DOMAIN Placements[s] :
        ps[i] = TailIn(parts, PlaceOf(s, i)) /\ TailIn(parts, PlaceOf(s, i)) \in Nat
  <2> SUFFICES ASSUME NEW i \in DOMAIN Placements[s]
               PROVE  ps[i] = TailIn(parts, PlaceOf(s, i)) /\ TailIn(parts, PlaceOf(s, i)) \in Nat
    OBVIOUS
  <2>1. PlaceOf(s, i) \in Parts
    BY PartsAre
  <2>2. TailOf(PlaceOf(s, i)) = TailIn(parts, PlaceOf(s, i)) /\ TailOf(PlaceOf(s, i)) \in Nat
    BY <2>1, SourceOf
  <2>3. ps[i] = TailOf(PlaceOf(s, i))
    BY DEF PlaceOf
  <2> QED BY <2>2, <2>3
<1>4. ps \in Seq(Nat) /\ Len(ps) = Len(Placements[s])
  <2> DEFINE l == Len(Placements[s])
  <2>1. DOMAIN Placements[s] = 1 .. l /\ l \in Nat
    BY PlacementsAre
  <2>2. DOMAIN ps = 1 .. l /\ ps = [i \in 1 .. l |-> ps[i]]
    BY <2>1
  <2> HIDE DEF ps, l
  <2>3. ps \in [1 .. l -> Nat]
    BY <1>3, <2>1, <2>2
  <2>4. ps \in Seq(Nat) /\ Len(ps) = l
    BY <2>1, <2>2, <2>3
  <2> QED BY <2>4 DEF l
<1> HIDE DEF ps, x, id
<1>5. x.ceiling \in Nat
  BY <1>1 DEF StreamStates
<1>6. b \in StreamMarks /\ b.id = id /\ b.publication = x.ceiling + 1 /\ b.positions = ps
  BY <1>1, <1>4, <1>5 DEF StreamMark, StreamMarks
<1> HIDE DEF b
<1>7. /\ y \in StreamStates /\ y.active = x.active /\ y.revision = x.revision
      /\ y.ceiling = x.ceiling + 1 /\ Gains(x, y, b)
  BY <1>1, <1>6, StreamGains
<1> HIDE DEF y
<1>8. MarksKept(y)
  BY <1>1, <1>2, <1>6, <1>7, GainsKept
<1>9. OldOrNew(x, y, id)
  BY <1>1, <1>6, <1>7, GainsOldOrNew
<1>10. InPlace(b)
  <2>1. \A i \in DOMAIN Placements[s] : b.positions[i] <= TailIn(parts, PlaceOf(s, i))
    BY <1>3, <1>6
  <2> QED BY <1>4, <1>6, <2>1
<1>11. k \in Nat /\ DOMAIN x.marks = 1 .. k
  BY <1>1
<1>12. /\ DOMAIN y.marks = 1 .. k + 1
       /\ \A i \in 1 .. k : y.marks[i] = x.marks[i]
       /\ y.marks[k + 1] = b
  BY <1>7 DEF Gains
<1> HIDE DEF k
<1>13. \A i \in 1 .. k + 1 : i \in 1 .. k \/ i = k + 1
  BY <1>11
<1>14. \A i \in DOMAIN y.marks : InPlace(y.marks[i])
  <2> HIDE DEF InPlace
  <2> QED BY <1>1, <1>10, <1>11, <1>12, <1>13
<1> QED BY <1>1, <1>2, <1>7, <1>8, <1>9, <1>14, StreamCommand DEF x, id

(* apply_delete_stream_bookmark keeps the source sound.                    *)
LEMMA DeleteStreamBookmarkKeeps ==
    ASSUME SourceInv, NEW s \in Streams, DeleteStreamBookmark(s)
    PROVE  SourceInv'
<1> DEFINE x == streams[s]
           y == WithoutMarks(x)
           InPlace(ps) == /\ Len(ps) = Len(Placements[s])
                          /\ \A i \in DOMAIN Placements[s] : ps[i] <= TailIn(parts, PlaceOf(s, i))
<1>1. /\ x \in StreamStates /\ MarksKept(x) /\ x.revision # 0
      /\ \A i \in DOMAIN x.marks : InPlace(x.marks[i].positions)
  BY StreamOf
<1>2. Applies(0) /\ UNCHANGED parts /\ streams' = [streams EXCEPT ![s] = y]
  BY DEF DeleteStreamBookmark
<1> HIDE DEF x
<1>3. /\ y \in StreamStates /\ Clears(x, y) /\ y.active = x.active /\ y.revision = x.revision
      /\ \A i \in DOMAIN x.marks : y.marks[i].positions = x.marks[i].positions
  BY <1>1, StreamClears
<1> HIDE DEF y
<1>4. MarksKept(y) /\ OldOrNew(x, y, log[0] + 1)
  BY <1>1, <1>3, ClearsKept, ClearsOldOrNew
<1>5. DOMAIN y.marks = DOMAIN x.marks
  BY <1>3 DEF Clears
<1>6. \A i \in DOMAIN y.marks : InPlace(y.marks[i].positions)
  <2> HIDE DEF InPlace
  <2> QED BY <1>1, <1>3, <1>5
<1> QED BY <1>1, <1>2, <1>3, <1>4, <1>6, StreamCommand DEF x

(* apply_activate_stream keeps the source sound.                           *)
LEMMA ActivateStreamKeeps ==
    ASSUME SourceInv, NEW s \in Streams, ActivateStream(s)
    PROVE  SourceInv'
<1> DEFINE x == streams[s]
           r == CatalogRevision + 1
           y == [x EXCEPT !.active = TRUE, !.revision = r]
           InPlace(ps) == /\ Len(ps) = Len(Placements[s])
                          /\ \A i \in DOMAIN Placements[s] : ps[i] <= TailIn(parts, PlaceOf(s, i))
<1>1. /\ x \in StreamStates /\ MarksKept(x)
      /\ \A i \in DOMAIN x.marks : InPlace(x.marks[i].positions)
  BY StreamOf
<1>2. Applies(0) /\ UNCHANGED parts /\ streams' = [streams EXCEPT ![s] = y]
  BY DEF ActivateStream
<1>3. r \in Nat /\ r # 0
  <2>1. CatalogRevision \in Nat
    BY RevisionIs DEF SourceInv, SourceTyped
  <2> QED BY <2>1
<1> HIDE DEF x, r
<1>4. /\ y \in StreamStates /\ y.active = TRUE /\ y.revision = r /\ y.marks = x.marks
      /\ y.ceiling = x.ceiling
  BY <1>1, <1>3 DEF StreamStates
<1> HIDE DEF y
<1>5. MarksKept(y) /\ OldOrNew(x, y, log[0] + 1)
  BY <1>1, <1>4 DEF MarksKept, OldOrNew
<1>6. \A i \in DOMAIN y.marks : InPlace(y.marks[i].positions)
  <2> HIDE DEF InPlace
  <2> QED BY <1>1, <1>4
<1> QED BY <1>2, <1>3, <1>4, <1>5, <1>6, StreamCommand DEF x

(* A fence takes an index of the group's log and changes no data.          *)
LEMMA FenceKeeps ==
    ASSUME SourceInv, NEW g \in SourceGroups, log' = [log EXCEPT ![g] = log[g] + 1],
           fencedAt' = [fencedAt EXCEPT ![g] = log[g] + 1], UNCHANGED <<parts, streams>>,
           SelectedSound(streams', phase', selected')
    PROVE  SourceInv'
<1>1. /\ parts \in [Parts -> PartitionStates] /\ streams \in [Streams -> StreamStates]
      /\ log \in [SourceGroups -> Nat] /\ fencedAt \in [SourceGroups -> Nat]
      /\ PartsSound(parts, log) /\ StreamsSound(streams, parts, log)
  BY DEF SourceInv, SourceTyped
<1>2. log[g] \in Nat /\ log[g] + 1 \in Nat
  BY <1>1
<1>3. log' \in [SourceGroups -> Nat] /\ fencedAt' \in [SourceGroups -> Nat] /\ \A h \in SourceGroups : log[h] <= log'[h]
  BY <1>1, <1>2
<1>4. log[0] <= log'[0]
  BY <1>3, Sizes
<1>5. PartsSound(parts, log')
  BY <1>1, <1>3, PartsStaySound
<1>6. \A p \in Parts : TailIn(parts, p) <= TailIn(parts, p)
  BY <1>1, TailsAreNat
<1>7. StreamsSound(streams, parts, log')
  BY <1>1, <1>3, <1>4, <1>6, StreamsStaySound
<1> QED BY <1>1, <1>3, <1>5, <1>7 DEF SourceInv, SourceTyped

(* apply_begin_export keeps the source sound and selects Active streams.   *)
LEMMA BeginExportKeeps ==
    ASSUME SourceInv, NEW sel \in SUBSET Streams, BeginExport(sel)
    PROVE  SourceInv'
<1>1. /\ log' = [log EXCEPT ![0] = log[0] + 1] /\ fencedAt' = [fencedAt EXCEPT ![0] = log[0] + 1]
      /\ UNCHANGED <<parts, streams>> /\ 0 \in SourceGroups
  BY Sizes DEF BeginExport
<1>2. SelectedSound(streams', phase', selected')
  BY DEF BeginExport, SelectedSound
<1> QED BY <1>1, <1>2, FenceKeeps

(* MutationFenceState::acquire keeps the source sound.                     *)
LEMMA FenceGroupKeeps ==
    ASSUME SourceInv, NEW g \in DataGroups, FenceGroup(g)
    PROVE  SourceInv'
<1>1. /\ log' = [log EXCEPT ![g] = log[g] + 1] /\ fencedAt' = [fencedAt EXCEPT ![g] = log[g] + 1]
      /\ UNCHANGED <<parts, streams>> /\ g \in SourceGroups
  BY DEF FenceGroup, SourceGroups
<1>2. SelectedSound(streams', phase', selected')
  BY DEF FenceGroup, SelectedSound, SourceInv
<1> QED BY <1>1, <1>2, FenceKeeps

(* The source stays sound when only the phase moves on.                    *)
LEMMA SourceStays ==
    ASSUME SourceInv, UNCHANGED <<parts, streams, log, fencedAt, selected>>,
           phase' = phase \/ phase # "Open"
    PROVE  SourceInv'
<1>1. SelectedSound(streams', phase', selected')
  BY DEF SourceInv, SelectedSound
<1> QED BY <1>1 DEF SourceInv, SourceTyped

(* A bootstrapped cluster is sound.                                        *)
LEMMA InitSource == LogicalInit => SourceInv
<1> SUFFICES ASSUME LogicalInit PROVE SourceInv
  OBVIOUS
<1>1. \A g \in SourceGroups : log[g] = 1 /\ fencedAt[g] = 0
  BY DEF LogicalInit
<1>2. log \in [SourceGroups -> Nat] /\ fencedAt \in [SourceGroups -> Nat]
  BY DEF LogicalInit
<1>3. EmptyPart \in PartitionStates /\ EmptyPart.marks = <<>> /\ EmptyPart.ceiling = 0
  BY DEF EmptyPart, PartitionStates
<1>4. parts \in [Parts -> PartitionStates] /\ \A p \in Parts : parts[p].marks = <<>> /\ MarksKept(parts[p])
  <2>1. parts = [p \in Parts |-> EmptyPart]
    BY DEF LogicalInit
  <2>2. MarksKept(EmptyPart)
    BY <1>3 DEF MarksKept
  <2> QED BY <1>3, <2>1, <2>2
<1>5. PartsSound(parts, log)
  BY <1>4 DEF PartsSound
<1>6. \A s \in Streams : /\ streams[s] \in StreamStates /\ streams[s].marks = <<>>
                         /\ streams[s].ceiling = 0 /\ streams[s].revision # 0
  <2> SUFFICES ASSUME NEW s \in Streams
               PROVE  /\ streams[s] \in StreamStates /\ streams[s].marks = <<>>
                      /\ streams[s].ceiling = 0 /\ streams[s].revision # 0
    OBVIOUS
  <2> DEFINE a == s \notin Late
             r == s + 1
  <2>1. streams[s] = [active |-> a, revision |-> r, ceiling |-> 0, marks |-> <<>>]
    BY DEF LogicalInit
  <2>2. a \in BOOLEAN /\ r \in Nat /\ r # 0
    <3>1. a \in BOOLEAN
      OBVIOUS
    <3>2. s \in Nat
      BY PlacementsAre
    <3>3. r \in Nat /\ r # 0
      BY <3>2
    <3> QED BY <3>1, <3>3
  <2> HIDE DEF a, r
  <2> QED BY <2>1, <2>2 DEF StreamStates
<1>7. streams \in [Streams -> StreamStates]
  <2>1. streams = [s \in Streams |-> streams[s]]
    BY DEF LogicalInit
  <2> QED BY <1>6, <2>1
<1>8. \A s \in Streams : MarksKept(streams[s])
  BY <1>6 DEF MarksKept
<1>9. StreamsSound(streams, parts, log)
  BY <1>6, <1>8 DEF StreamsSound
<1>10. SelectedSound(streams, phase, selected)
  BY DEF LogicalInit, SelectedSound
<1> QED BY <1>2, <1>4, <1>5, <1>7, <1>9, <1>10 DEF SourceInv, SourceTyped

\* The steps of the spool, the clients and the restores, which leave the
\* source alone.
LEMMA SourceIsLeftAlone ==
    ASSUME \/ RecoverReady \/ WriteArtifact \/ PublishReady \/ JoinTask
           \/ CancelTask \/ CrashServer \/ DamageReady \/ DownloadChunk \/ CheckDownload
           \/ Restoring \/ UNCHANGED logicalVars
    PROVE  UNCHANGED <<parts, streams, log, fencedAt, selected>> /\ (phase' = phase \/ phase # "Open")
<1>1. CASE RecoverReady \/ JoinTask
  BY <1>1 DEF RecoverReady, JoinTask, Rebuildable
<1>2. CASE \/ WriteArtifact \/ PublishReady \/ CancelTask \/ CrashServer \/ DamageReady
           \/ DownloadChunk \/ CheckDownload \/ UNCHANGED logicalVars
  BY <1>2 DEF WriteArtifact, PublishReady, CancelTask, CrashServer, DamageReady, DownloadChunk,
             CheckDownload, logicalVars, source
<1>3. CASE Restoring
  BY <1>3 DEF Restoring, StartRestore, ImportSection, PublishRestore, CrashRestore, DamageInput, source
<1> QED BY <1>1, <1>2, <1>3

(* Every step keeps the source sound.                                      *)
LEMMA SourceStep ==
    ASSUME SourceInv, [LogicalNext]_logicalVars
    PROVE  SourceInv'
<1>1. ASSUME NEW p \in Parts, NEW named \in BOOLEAN, Publish(p, named) PROVE SourceInv'
  BY <1>1, PublishKeeps
<1>2. ASSUME NEW p \in Parts, NEW offset \in 0 .. MaxCommands, CreateBookmark(p, offset) PROVE SourceInv'
  <2>1. offset \in Nat
    BY LogicalExportAssumption
  <2> QED BY <1>2, <2>1, CreateBookmarkKeeps
<1>3. ASSUME NEW p \in Parts, DeleteBookmark(p) \/ AdvanceFloor(p) PROVE SourceInv'
  BY <1>3, DeleteBookmarkKeeps, AdvanceFloorKeeps
<1>4. ASSUME NEW s \in Streams, CreateStreamBookmark(s) \/ DeleteStreamBookmark(s) \/ ActivateStream(s)
      PROVE  SourceInv'
  BY <1>4, CreateStreamBookmarkKeeps, DeleteStreamBookmarkKeeps, ActivateStreamKeeps
<1>5. ASSUME NEW sel \in SUBSET Streams, BeginExport(sel) PROVE SourceInv'
  BY <1>5, BeginExportKeeps
<1>6. ASSUME NEW g \in DataGroups, FenceGroup(g) PROVE SourceInv'
  BY <1>6, FenceGroupKeeps
<1>7. CASE \/ RecoverReady \/ WriteArtifact \/ PublishReady \/ JoinTask
           \/ CancelTask \/ CrashServer \/ DamageReady \/ DownloadChunk \/ CheckDownload
           \/ Restoring \/ UNCHANGED logicalVars
  BY <1>7, SourceIsLeftAlone, SourceStays
<1> QED BY <1>1, <1>2, <1>3, <1>4, <1>5, <1>6, <1>7 DEF LogicalNext, Mutations, Exporting

(***************************************************************************)
(* The spool and the download.                                             *)
(***************************************************************************)

ExportPhases == {"Open", "Preparing", "Materializing", "Available", "Aborted"}

\* From here on no group takes a command.
Frozen == phase \notin {"Open", "Preparing"}

Downloads == [state : {"idle", "downloading", "accepted", "refused"}, got : Seq(Int)]

\* A file in the spool is what was written, or damaged; what was written is
\* the artifact of the cut, which is Frozen; and a download is a prefix of it.
SpoolInv ==
    /\ phase \in ExportPhases
    /\ ~Frozen => task = NoTask /\ image = NoFile /\ building = NoFile /\ ready = NoFile
    /\ image # NoFile => image = Written(Document, DataSections) /\ Exportable(Document, DataSections)
    /\ building \in {NoFile, Whole} /\ ready \in {NoFile, Whole} \cup Damaged(Whole)
    /\ building # NoFile \/ ready # NoFile => image # NoFile
    /\ client \in Downloads /\ Len(client.got) <= GroupCount + 4
    /\ \A i \in 1 .. Len(client.got) : client.got[i] = i

(* The artifact of the cut is a file of the expected form, and not empty.  *)
LEMMA WrittenIsThere ==
    /\ IsWritten(Written(Document, DataSections), Document, DataSections, GroupCount)
    /\ Written(Document, DataSections) # NoFile
<1>1. GroupCount \in Nat /\ DOMAIN DataSections = 1 .. GroupCount
  BY Sizes, SectionsAre
<1>2. IsWritten(Written(Document, DataSections), Document, DataSections, GroupCount)
  BY <1>1, WrittenIs
<1>3. Len(Written(Document, DataSections)) = GroupCount + 4
  BY <1>2 DEF IsWritten
<1> DEFINE w == Written(Document, DataSections)
<1> HIDE DEF w
<1>4. w # NoFile
  BY <1>1, <1>3 DEF NoFile, w
<1> QED BY <1>2, <1>4 DEF w

(* open_ready accepts a file of the spool only if it is the artifact as it *)
(* was written.                                                            *)
LEMMA AcceptedIsWhole ==
    ASSUME SourceInv, SpoolInv
    PROVE  (Accepted(ready) => ready = Whole) /\ (Accepted(building) => building = Whole)
<1>1. SourceTyped
  BY DEF SourceInv
<1>2. ASSUME NEW f \in {NoFile, Whole} \cup Damaged(Whole), f # NoFile => image # NoFile, Accepted(f)
      PROVE  f = Whole
  <2>1. f # NoFile
    BY <1>2 DEF Accepted
  <2>2. image = Written(Document, DataSections)
    BY <1>2, <2>1 DEF SpoolInv
  <2>3. IsWritten(image, Document, DataSections, GroupCount)
    BY <2>2, WrittenIsThere
  <2> QED BY <1>1, <1>2, <2>3, OnlyWholeIsAccepted
<1>3. /\ ready \in {NoFile, Whole} \cup Damaged(Whole) /\ building \in {NoFile, Whole} \cup Damaged(Whole)
      /\ (ready # NoFile => image # NoFile) /\ (building # NoFile => image # NoFile)
  BY DEF SpoolInv
<1> QED BY <1>2, <1>3

(* The parts of a whole file do not change.                                *)
LEMMA WholeStays == UNCHANGED Whole
BY DEF Whole

\* What the steps that leave the files and the source alone keep.
LEMMA SpoolStays ==
    ASSUME SpoolInv, UNCHANGED <<task, image, building, ready, client>>,
           phase' \in ExportPhases, Frozen => Frozen',
           Frozen => UNCHANGED <<parts, streams, fencedAt, selected>>
    PROVE  SpoolInv'
<1>1. image = NoFile \/ Frozen
  BY DEF SpoolInv
<1>2. image' # NoFile => image' = Written(Document, DataSections)' /\ Exportable(Document, DataSections)'
  <2> SUFFICES ASSUME image # NoFile
               PROVE  image' = Written(Document', DataSections') /\ Exportable(Document', DataSections')
    OBVIOUS
  <2>1. Document' = Document /\ DataSections' = DataSections
    BY <1>1, CutStays
  <2>2. image = Written(Document, DataSections) /\ Exportable(Document, DataSections)
    BY DEF SpoolInv
  <2> QED BY <2>1, <2>2, Zenon
<1> QED BY <1>2 DEF SpoolInv

(* A download goes on with the next part of the committed artifact, or     *)
(* starts again, and its check changes no file.                            *)
LEMMA DownloadKeeps ==
    ASSUME SourceInv, SpoolInv, DownloadChunk \/ CheckDownload
    PROVE  SpoolInv'
<1>0. GroupCount \in Nat
  BY Sizes
<1>1. UNCHANGED <<source, spool>>
  BY DEF DownloadChunk, CheckDownload
<1>2. UNCHANGED <<Document, DataSections>>
  BY <1>1, CutStays DEF source
<1>3. client \in Downloads /\ client.got \in Seq(Int) /\ Len(client.got) <= GroupCount + 4
      /\ Len(client.got) \in Nat /\ \A i \in 1 .. Len(client.got) : client.got[i] = i
  BY DEF SpoolInv, Downloads
<1>4. /\ client' \in Downloads /\ Len(client'.got) <= GroupCount + 4
      /\ \A i \in 1 .. Len(client'.got) : client'.got[i] = i
  <2>1. CASE CheckDownload
    <3> DEFINE st == IF client.got = committed.sum THEN "accepted" ELSE "refused"
    <3>1. client' = [client EXCEPT !.state = st] /\ st \in {"accepted", "refused"}
      BY <2>1 DEF CheckDownload
    <3> HIDE DEF st
    <3>2. client' \in Downloads /\ client'.got = client.got
      BY <1>3, <3>1 DEF Downloads
    <3> QED BY <1>3, <3>2
  <2>2. CASE DownloadChunk
    <3> DEFINE k == Len(client.got)
               a == ready[k + 1]
               gt == Append(client.got, a)
    <3>1. /\ ReadyIs(committed) /\ k < Len(ready)
          /\ client' = [state |-> "downloading", got |-> gt]
      BY <2>2 DEF DownloadChunk
    <3>2. ready = Whole
      BY <3>1, AcceptedIsWhole DEF ReadyIs
    <3>3. k \in Nat /\ k < GroupCount + 4 /\ k + 1 \in 1 .. GroupCount + 4
      BY <1>0, <1>3, <3>1, <3>2, WholeIs
    <3>4. a = k + 1 /\ a \in Int
      BY <3>2, <3>3, WholeIs
    <3> HIDE DEF a
    <3>5. /\ gt \in Seq(Int) /\ Len(gt) = k + 1
          /\ \A i \in 1 .. k : gt[i] = client.got[i] /\ gt[k + 1] = a
      BY <1>3, <3>4
    <3>6. gt[k + 1] = a
      BY <1>3, <3>4
    <3> HIDE DEF gt, k
    <3>7. client' \in Downloads /\ client'.got = gt
      BY <3>1, <3>5 DEF Downloads
    <3>8. \A i \in 1 .. k + 1 : i \in 1 .. k \/ i = k + 1
      BY <3>3
    <3>9. \A i \in 1 .. k + 1 : gt[i] = i
      BY <1>3, <3>4, <3>5, <3>6, <3>8 DEF k
    <3> QED BY <1>0, <3>3, <3>5, <3>7, <3>9
  <2> QED BY <2>1, <2>2
<1>5. /\ phase' = phase /\ task' = task /\ image' = image /\ building' = building /\ ready' = ready
  BY <1>1 DEF source, spool
<1>6. image' # NoFile => image' = Written(Document, DataSections)' /\ Exportable(Document, DataSections)'
  <2> SUFFICES ASSUME image # NoFile
               PROVE  image' = Written(Document', DataSections') /\ Exportable(Document', DataSections')
    BY <1>5
  <2>1. image = Written(Document, DataSections) /\ Exportable(Document, DataSections)
    BY DEF SpoolInv
  <2> QED BY <1>2, <1>5, <2>1, Zenon
<1> QED BY <1>4, <1>5, <1>6 DEF SpoolInv, Frozen

\* The steps of the coordinator, its thread and the disk.
CoordinatorSteps ==
    \/ RecoverReady \/ WriteArtifact \/ PublishReady \/ JoinTask
    \/ CancelTask \/ CrashServer \/ DamageReady

(* The coordinator works only after the cut, which it leaves frozen.       *)
LEMMA FrozenStays ==
    ASSUME SpoolInv, CoordinatorSteps
    PROVE  Frozen /\ Frozen' /\ phase' \in ExportPhases
<1>1. CASE RecoverReady \/ JoinTask
  BY <1>1 DEF RecoverReady, JoinTask, Rebuildable, Frozen, ExportPhases, SpoolInv
<1>2. CASE CancelTask \/ CrashServer
  BY <1>2 DEF CancelTask, CrashServer, Rebuildable, Frozen, SpoolInv, source
<1>3. CASE WriteArtifact \/ PublishReady
  BY <1>3 DEF WriteArtifact, PublishReady, Frozen, SpoolInv, source, NoTask
<1>4. CASE DamageReady
  BY <1>4, WholeIs DEF DamageReady, Frozen, SpoolInv, source
<1> QED BY <1>1, <1>2, <1>3, <1>4 DEF CoordinatorSteps

(* Every step of reconcile_export_tick, its thread, a crash of the server  *)
(* and damage on disk keeps the spool sound.                               *)
LEMMA CoordinatorKeeps ==
    ASSUME SourceInv, SpoolInv, CoordinatorSteps
    PROVE  SpoolInv'
<1>1. UNCHANGED <<parts, streams, fencedAt, selected, client>>
  BY SourceIsLeftAlone DEF CoordinatorSteps, RecoverReady, WriteArtifact, PublishReady, JoinTask,
       CancelTask, CrashServer, DamageReady
<1>2. Document' = Document /\ DataSections' = DataSections
  BY <1>1, CutStays
<1>3. Frozen /\ Frozen' /\ phase' \in ExportPhases
  BY FrozenStays
<1>4. image' # NoFile => image' = Written(Document, DataSections)' /\ Exportable(Document, DataSections)'
  <2> SUFFICES ASSUME image' # NoFile
               PROVE  image' = Written(Document', DataSections') /\ Exportable(Document', DataSections')
    OBVIOUS
  <2>1. CASE image' = image
    <3>1. image = Written(Document, DataSections) /\ Exportable(Document, DataSections)
      BY <2>1 DEF SpoolInv
    <3> QED BY <1>2, <2>1, <3>1, Zenon
  <2>2. CASE image' = Written(Document, DataSections) /\ Exportable(Document, DataSections)
    BY <1>2, <2>2, Zenon
  <2>3. image' = image \/ (image' = Written(Document, DataSections) /\ Exportable(Document, DataSections))
    BY DEF CoordinatorSteps, RecoverReady, WriteArtifact, PublishReady, JoinTask,
           CancelTask, CrashServer, DamageReady, spool
  <2> QED BY <2>1, <2>2, <2>3
<1>5. /\ building' \in {NoFile, Whole} /\ ready' \in {NoFile, Whole} \cup Damaged(Whole)
      /\ (building' # NoFile \/ ready' # NoFile => image' # NoFile)
  <2>1. CASE RecoverReady \/ JoinTask
    BY <2>1 DEF RecoverReady, JoinTask, SpoolInv, spool
  <2>2. CASE CancelTask \/ CrashServer
    BY <2>2 DEF CancelTask, CrashServer, SpoolInv
  <2>3. CASE WriteArtifact
    <3>1. CASE building' = Whole /\ image' = Written(Document, DataSections) /\ UNCHANGED ready
      BY <3>1, WrittenIsThere DEF SpoolInv
    <3>2. CASE UNCHANGED <<image, building, ready>>
      BY <3>2 DEF SpoolInv
    <3> QED BY <2>3, <3>1, <3>2 DEF WriteArtifact
  <2>4. CASE PublishReady
    <3>1. building' = NoFile /\ ready' \in {ready, building} /\ image' = image
      BY <2>4 DEF PublishReady
    <3> QED BY <3>1 DEF SpoolInv
  <2>5. CASE DamageReady
    BY <2>5, WholeIs DEF DamageReady, SpoolInv
  <2> QED BY <2>1, <2>2, <2>3, <2>4, <2>5 DEF CoordinatorSteps
<1> QED BY <1>1, <1>3, <1>4, <1>5, WholeStays DEF SpoolInv

(* Every step keeps the spool and the download sound.                      *)
LEMMA SpoolStep ==
    ASSUME SourceInv, SpoolInv, [LogicalNext]_logicalVars
    PROVE  SpoolInv'
<1>1. CASE CoordinatorSteps
  BY <1>1, CoordinatorKeeps
<1>2. CASE DownloadChunk \/ CheckDownload
  BY <1>2, DownloadKeeps
<1>3. CASE Restoring \/ UNCHANGED logicalVars
  <2>1. UNCHANGED <<parts, streams, fencedAt, selected, phase, task, image, building, ready, client>>
    BY <1>3 DEF Restoring, StartRestore, ImportSection, PublishRestore, CrashRestore, DamageInput,
                logicalVars, source, spool
  <2> QED BY <2>1, SpoolStays DEF SpoolInv, Frozen
<1>4. ASSUME NEW g, Applies(g) PROVE SpoolInv'
  <2>1. /\ UNCHANGED <<phase, task, image, building, ready, client>> /\ ~Frozen
    BY <1>4 DEF Applies, Frozen, spool
  <2> QED BY <2>1, SpoolStays DEF SpoolInv
<1>5. CASE Mutations
  BY <1>4, <1>5 DEF Mutations, Publish, CreateBookmark, DeleteBookmark, AdvanceFloor,
                    CreateStreamBookmark, DeleteStreamBookmark, ActivateStream
<1>6. ASSUME NEW sel \in SUBSET Streams, BeginExport(sel) PROVE SpoolInv'
  <2>1. UNCHANGED <<task, image, building, ready, client>> /\ ~Frozen /\ phase' \in ExportPhases
    BY <1>6 DEF BeginExport, Frozen, spool, ExportPhases
  <2> QED BY <2>1, SpoolStays
<1>7. ASSUME NEW g \in DataGroups, FenceGroup(g) PROVE SpoolInv'
  <2>1. UNCHANGED <<task, image, building, ready, client>> /\ ~Frozen /\ phase' \in ExportPhases
    BY <1>7 DEF FenceGroup, Frozen, spool, ExportPhases
  <2> QED BY <2>1, SpoolStays
<1> QED BY <1>1, <1>2, <1>3, <1>5, <1>6, <1>7 DEF LogicalNext, Exporting, CoordinatorSteps

(* The spool is empty at first.                                            *)
LEMMA InitSpool == LogicalInit => SpoolInv
BY Sizes DEF LogicalInit, SpoolInv, ExportPhases, Frozen, NoFile, Downloads, NoDownload

(* Whatever streams, placements, commands and faults there are, what       *)
(* Client::export_to has received through download_export is a prefix of   *)
(* the artifact of the committed cut: a chunk is served only from a ready  *)
(* file that verifies and has the committed identity, so a file that was   *)
(* lost, damaged or built again between two requests never mixes into a    *)
(* download.                                                               *)
THEOREM DownloadsAlwaysFollowTheCut == LogicalSpec => []DownloadsTheCut
<1>1. LogicalInit => SourceInv /\ SpoolInv
  BY InitSource, InitSpool
<1>2. SourceInv /\ SpoolInv /\ [LogicalNext]_logicalVars => SourceInv' /\ SpoolInv'
  BY SourceStep, SpoolStep
<1>3. SpoolInv => DownloadsTheCut
  <2> SUFFICES ASSUME SpoolInv PROVE IsPrefix(client.got, Whole)
    BY DEF DownloadsTheCut
  <2> DEFINE s == client.got
             k == Len(s)
  <2>1. /\ s \in Seq(Int) /\ k \in Nat /\ k <= GroupCount + 4 /\ \A i \in 1 .. k : s[i] = i
        /\ GroupCount \in Nat
    BY Sizes DEF SpoolInv, Downloads
  <2> HIDE DEF s
  <2>2. Whole \in Seq(Int) /\ Len(Whole) = GroupCount + 4 /\ \A i \in 1 .. k : Whole[i] = i
    <3>1. \A i \in 1 .. k : i \in 1 .. GroupCount + 4
      BY <2>1
    <3> QED BY <3>1, WholeIs
  <2>3. SubSeq(s, 1, k) = [i \in 1 .. k |-> i]
    BY <2>1
  <2>4. SubSeq(Whole, 1, k) = [i \in 1 .. k |-> i]
    BY <2>1, <2>2
  <2> QED BY <2>1, <2>2, <2>3, <2>4 DEF IsPrefix, s
<1> QED BY <1>1, <1>2, <1>3, PTL DEF LogicalSpec

(***************************************************************************)
(* The restore.                                                            *)
(***************************************************************************)

(* The selection of an export: Active streams, ascending, each once.       *)
LEMMA SelectedIs ==
    ASSUME SourceInv, phase # "Open"
    PROVE  /\ selected \in Seq(Nat) /\ DOMAIN selected = 1 .. Len(selected) /\ Len(selected) \in Nat
           /\ Range(selected) \subseteq Streams /\ Range(selected) # {} /\ IsStrict(selected)
           /\ Len(selected) = Cardinality(Range(selected)) /\ Len(selected) > 0
           /\ \A i, j \in 1 .. Len(selected) : selected[i] = selected[j] => i = j
           /\ \A i \in 1 .. Len(selected) :
                selected[i] \in Range(selected) /\ selected[i] \in Streams
                /\ streams[selected[i]].active
           /\ \A s \in Range(selected) : s \in Streams /\ \E i \in 1 .. Len(selected) : selected[i] = s
<1>1. PICK S \in SUBSET Streams : S # {} /\ selected = Ascending(S) /\ \A s \in S : streams[s].active
  BY DEF SourceInv, SelectedSound
<1>2. S \in SUBSET Nat /\ IsFiniteSet(S)
  BY LogicalExportAssumption, FS_Subset
<1> DEFINE c == Cardinality(S)
<1>3. /\ selected \in Seq(S) /\ Len(selected) = c
      /\ DOMAIN selected = 1 .. c /\ c \in Nat
      /\ \A i, j \in 1 .. c : i < j => selected[i] < selected[j]
      /\ \A x \in S : \E i \in 1 .. c : selected[i] = x
      /\ Range(selected) = S /\ IsStrict(selected)
  BY <1>1, <1>2, AscendingLists
<1>4. c # 0
  BY <1>1, <1>2, FS_EmptySet
<1> HIDE DEF c
<1>5. \A i \in 1 .. c : selected[i] \in S /\ selected[i] \in Nat
  <2>1. \A i \in 1 .. c : selected[i] \in S
    BY <1>3
  <2> QED BY <1>2, <2>1
<1>6. ASSUME NEW i \in 1 .. c, NEW j \in 1 .. c, selected[i] = selected[j] PROVE i = j
  <2>1. i < j \/ j < i \/ i = j
    BY <1>3
  <2> QED BY <1>3, <1>5, <1>6, <2>1
<1>7. selected \in Seq(Nat)
  <2>1. selected \in [1 .. c -> Nat]
    BY <1>3, <1>5
  <2> QED BY <1>3, <2>1
<1>8. c > 0
  BY <1>3, <1>4
<1> QED BY <1>1, <1>3, <1>5, <1>6, <1>7, <1>8 DEF c

\* The partitions of the first r - 1 data sections.
ReadParts(r) ==
    {p \in Parts : p[1] \in Range(selected) /\ \E j \in 1 .. r - 1 : GroupOf(p) = Ascending(DataGroups)[j]}

\* What a staged store holds after r sections.
Holds(store, r) ==
    /\ store = [parts |-> store.parts, streams |-> store.streams]
    /\ r > 0 => /\ DOMAIN store.streams = Range(selected)
                /\ \A s \in Range(selected) : store.streams[s] = RestoredStream(StreamEntry(s))
    /\ DOMAIN store.parts = ReadParts(r)
    /\ \A p \in ReadParts(r) : store.parts[p] = RestoredPartition(PartitionEntry(p))

(* import_control_section leaves the selected streams, each as its entry   *)
(* has it.                                                                 *)
LEMMA ControlImports ==
    ASSUME SourceInv, phase # "Open"
    PROVE  /\ DOMAIN ImportControl(ControlSection) = Range(selected)
           /\ \A s \in Range(selected) :
                ImportControl(ControlSection)[s] = RestoredStream(StreamEntry(s))
<1> DEFINE ss == ControlSection.streams
           X == {x.stream : x \in Range(ss)}
<1>1. ss = [i \in DOMAIN selected |-> StreamEntry(selected[i])]
  BY DEF ControlSection
<1>2. Range(ss) = {StreamEntry(s) : s \in Range(selected)}
  BY <1>1 DEF Range
<1>3. \A s : StreamEntry(s).stream = s
  BY DEF StreamEntry
<1> HIDE DEF ss
<1>4. X = Range(selected)
  BY <1>2, <1>3
<1>5. ImportControl(ControlSection) =
        [s \in X |-> RestoredStream(CHOOSE x \in Range(ss) : x.stream = s)]
  BY DEF ImportControl, ss
<1>6. ASSUME NEW s \in Range(selected)
      PROVE  (CHOOSE x \in Range(ss) : x.stream = s) = StreamEntry(s)
  <2> DEFINE x == CHOOSE y \in Range(ss) : y.stream = s
  <2>1. \E y \in Range(ss) : y.stream = s
    BY <1>2, <1>3
  <2>2. x \in Range(ss) /\ x.stream = s
    BY <2>1, Zenon
  <2> HIDE DEF x
  <2>3. PICK t \in Range(selected) : x = StreamEntry(t)
    BY <1>2, <2>2
  <2>4. x = StreamEntry(s)
    BY <1>3, <2>2, <2>3
  <2> QED BY <2>4 DEF x
<1> HIDE DEF X
<1>7. \A s \in Range(selected) :
        ImportControl(ControlSection)[s] = RestoredStream(CHOOSE x \in Range(ss) : x.stream = s)
  BY <1>4, <1>5
<1> QED BY <1>4, <1>5, <1>6, <1>7

(* import_data_group leaves the partitions of its section, each as its     *)
(* entry has it.                                                           *)
LEMMA DataImports ==
    ASSUME NEW g
    PROVE  /\ DOMAIN ImportData(DataSection(g)) = PlannedPartitions(g)
           /\ \A p \in PlannedPartitions(g) :
                ImportData(DataSection(g))[p] = RestoredPartition(PartitionEntry(p))
<1> DEFINE ps == DataSection(g).partitions
           X == {Key(p) : p \in Range(ps)}
           k == Len(Planned(g))
<1>1. DOMAIN ps = 1 .. k /\ \A i \in 1 .. k : ps[i] = PartitionEntry(Planned(g)[i])
  BY SectionIs
<1>2. /\ \A i \in 1 .. k : Planned(g)[i] \in PlannedPartitions(g)
      /\ \A p \in PlannedPartitions(g) : \E i \in 1 .. k : Planned(g)[i] = p
  BY PlannedLists
<1> HIDE DEF ps, k
<1>3. Range(ps) = {PartitionEntry(p) : p \in PlannedPartitions(g)}
  BY <1>1, <1>2 DEF Range
<1>4. \A p \in PlannedPartitions(g) : Key(PartitionEntry(p)) = p
  <2> SUFFICES ASSUME NEW p \in PlannedPartitions(g) PROVE Key(PartitionEntry(p)) = p
    OBVIOUS
  <2>1. p = <<p[1], p[2]>>
    BY PartsAre DEF PlannedPartitions
  <2>2. PartitionEntry(p).stream = p[1] /\ PartitionEntry(p).partition = p[2]
    BY DEF PartitionEntry
  <2> QED BY <2>1, <2>2 DEF Key
<1>5. X = PlannedPartitions(g)
  BY <1>3, <1>4
<1>6. ImportData(DataSection(g)) = [x \in X |-> RestoredPartition(CHOOSE p \in Range(ps) : Key(p) = x)]
  BY DEF ImportData, ps
<1>7. ASSUME NEW p \in PlannedPartitions(g)
      PROVE  (CHOOSE q \in Range(ps) : Key(q) = p) = PartitionEntry(p)
  <2> DEFINE x == CHOOSE q \in Range(ps) : Key(q) = p
  <2>1. \E q \in Range(ps) : Key(q) = p
    BY <1>3, <1>4
  <2>2. x \in Range(ps) /\ Key(x) = p
    BY <2>1, Zenon
  <2> HIDE DEF x
  <2>3. PICK t \in PlannedPartitions(g) : x = PartitionEntry(t)
    BY <1>3, <2>2
  <2>4. x = PartitionEntry(p)
    BY <1>4, <2>2, <2>3
  <2> QED BY <2>4 DEF x
<1> HIDE DEF X
<1>8. \A p \in PlannedPartitions(g) :
        ImportData(DataSection(g))[p] = RestoredPartition(CHOOSE q \in Range(ps) : Key(q) = p)
  BY <1>5, <1>6
<1> QED BY <1>5, <1>6, <1>7, <1>8

(* One more data section brings the partitions of one more group.          *)
LEMMA ReadMore ==
    ASSUME NEW i \in 2 .. GroupCount + 1
    PROVE  ReadParts(i) = ReadParts(i - 1) \cup PlannedPartitions(Ascending(DataGroups)[i - 1])
<1>1. GroupCount \in Nat
  BY Sizes
<1>2. 1 .. i - 1 = (1 .. (i - 1) - 1) \cup {i - 1}
  BY <1>1
<1> QED BY <1>2 DEF ReadParts, PlannedPartitions

(* The control section brings no partition.                                *)
LEMMA ReadsNothing == ReadParts(0) = {} /\ ReadParts(1) = {}
<1>1. 1 .. 0 - 1 = {} /\ 1 .. 1 - 1 = {}
  OBVIOUS
<1> QED BY <1>1 DEF ReadParts

(* All the data sections bring every partition of the selected streams.    *)
LEMMA ReadsAll == ReadParts(GroupCount + 1) = {p \in Parts : p[1] \in Range(selected)}
<1>1. GroupCount \in Nat /\ (GroupCount + 1) - 1 = GroupCount
  BY Sizes
<1>2. \A p \in Parts : \E j \in 1 .. GroupCount : GroupOf(p) = Ascending(DataGroups)[j]
  BY PartsAre, Sizes
<1> QED BY <1>1, <1>2 DEF ReadParts

(* Importing the next section of the artifact extends what a staged store  *)
(* holds of the cut by that section.                                       *)
LEMMA ImportsOne ==
    ASSUME SourceInv, phase # "Open", NEW store, NEW i \in 1 .. GroupCount + 1, Holds(store, i - 1)
    PROVE  Holds(Imported(store, i, Framed(Document, DataSections, i).sum), i)
<1> DEFINE body == Framed(Document, DataSections, i).sum
           new == Imported(store, i, body)
<1>0. GroupCount \in Nat /\ i > 0
  BY Sizes
<1>1. /\ store = [parts |-> store.parts, streams |-> store.streams]
      /\ i - 1 > 0 => /\ DOMAIN store.streams = Range(selected)
                      /\ \A s \in Range(selected) : store.streams[s] = RestoredStream(StreamEntry(s))
      /\ DOMAIN store.parts = ReadParts(i - 1)
      /\ \A p \in ReadParts(i - 1) : store.parts[p] = RestoredPartition(PartitionEntry(p))
  BY DEF Holds
<1>2. CASE i = 1
  <2>1. body = ControlSection
    BY <1>2, SectionsAre DEF Framed, ControlFrame
  <2> DEFINE c == ImportControl(ControlSection)
  <2>2. new = [store EXCEPT !.streams = c]
    BY <1>2, <2>1 DEF Imported
  <2>3. DOMAIN c = Range(selected) /\ \A s \in Range(selected) : c[s] = RestoredStream(StreamEntry(s))
    BY ControlImports
  <2> HIDE DEF c, new, body
  <2>4. new = [parts |-> new.parts, streams |-> new.streams] /\ new.streams = c /\ new.parts = store.parts
    <3> DEFINE a == store.parts
               b == store.streams
    <3>1. store = [parts |-> a, streams |-> b]
      BY <1>1
    <3> HIDE DEF a, b
    <3>2. new.streams = c /\ new.parts = a
      BY <2>2, <3>1
    <3>3. new = [parts |-> a, streams |-> c]
      BY <2>2, <3>1
    <3> QED BY <3>2, <3>3 DEF a
  <2>5. ReadParts(i) = ReadParts(i - 1)
    BY <1>2, ReadsNothing
  <2> QED BY <1>0, <1>1, <2>3, <2>4, <2>5 DEF Holds, new, body
<1>3. CASE i # 1
  <2> DEFINE g == Ascending(DataGroups)[i - 1]
             d == ImportData(DataSection(g))
             ps == [k \in DOMAIN d \cup DOMAIN store.parts |-> IF k \in DOMAIN d THEN d[k] ELSE store.parts[k]]
  <2>0. i \in 2 .. GroupCount + 1 /\ i - 1 \in 1 .. GroupCount /\ i - 1 > 0
    BY <1>0, <1>3
  <2>1. body = DataSection(g)
    <3>1. Framed(Document, DataSections, i) = DataFrame(DataSections[i - 1])
      BY <1>3 DEF Framed
    <3>2. DataSections[i - 1] = DataSection(g)
      BY <2>0, SectionsAre
    <3> QED BY <3>1, <3>2 DEF DataFrame
  <2>2. new = [store EXCEPT !.parts = ps]
    BY <1>3, <2>1 DEF Imported
  <2>3. /\ DOMAIN d = PlannedPartitions(g)
        /\ \A p \in PlannedPartitions(g) : d[p] = RestoredPartition(PartitionEntry(p))
    BY DataImports
  <2>4. ReadParts(i) = ReadParts(i - 1) \cup PlannedPartitions(g)
    BY <2>0, ReadMore
  <2> HIDE DEF d, g
  <2>5. DOMAIN ps = ReadParts(i)
    BY <1>1, <2>3, <2>4
  <2>6. \A p \in ReadParts(i) : ps[p] = RestoredPartition(PartitionEntry(p))
    BY <1>1, <2>3, <2>4
  <2> HIDE DEF ps, new, body
  <2>7. new = [parts |-> new.parts, streams |-> new.streams] /\ new.parts = ps /\ new.streams = store.streams
    <3> DEFINE a == store.parts
               b == store.streams
    <3>1. store = [parts |-> a, streams |-> b]
      BY <1>1
    <3> HIDE DEF a, b
    <3>2. new.streams = b /\ new.parts = ps
      BY <2>2, <3>1
    <3>3. new = [parts |-> ps, streams |-> b]
      BY <2>2, <3>1
    <3> QED BY <3>2, <3>3 DEF b
  <2> QED BY <1>1, <2>0, <2>5, <2>6, <2>7 DEF Holds, new, body
<1> QED BY <1>2, <1>3

(* Entries depend only on the source.                                      *)
LEMMA EntriesStay ==
    ASSUME UNCHANGED <<parts, streams, selected>>
    PROVE  /\ \A s : UNCHANGED StreamEntry(s)
           /\ \A p : UNCHANGED PartitionEntry(p)
           /\ \A r : UNCHANGED ReadParts(r)
<1>1. parts' = parts /\ streams' = streams /\ selected' = selected
  OBVIOUS
<1>2. \A s : UNCHANGED StreamEntry(s)
  BY <1>1 DEF StreamEntry
<1>3. \A p : UNCHANGED PartitionEntry(p)
  BY <1>1 DEF PartitionEntry, TailOf
<1>4. \A r : UNCHANGED ReadParts(r)
  BY <1>1 DEF ReadParts
<1> QED BY <1>2, <1>3, <1>4

(* What a store holds depends only on the source.                          *)
LEMMA HoldsStays ==
    ASSUME UNCHANGED <<parts, streams, selected>>, NEW store, NEW r, Holds(store, r)
    PROVE  Holds(store, r)'
BY EntriesStay DEF Holds

\* A restore in progress has imported the first sections of the artifact,
\* whatever its input has become since; a destination has all of them.
RestoreInv ==
    /\ restore # NoRestore =>
        /\ restore = [state |-> "importing", file |-> restore.file, read |-> restore.read,
                      store |-> restore.store]
        /\ image # NoFile /\ FileTyped(restore.file)
        /\ restore.read \in 0 .. GroupCount + 1
        /\ Holds(restore.store, restore.read)
    /\ dest.there => Frozen /\ Holds(dest.store, GroupCount + 1)

(* Steps that leave a frozen source and the restore alone keep the restore *)
(* sound.                                                                  *)
LEMMA RestoreStays ==
    ASSUME RestoreInv, UNCHANGED <<restore, dest>>,
           (image # NoFile \/ Frozen) => /\ UNCHANGED <<parts, streams, selected>> /\ Frozen'
                                         /\ (image # NoFile => image' # NoFile)
    PROVE  RestoreInv'
<1>1. ASSUME restore # NoRestore
      PROVE  /\ (restore = [state |-> "importing", file |-> restore.file, read |-> restore.read,
                            store |-> restore.store])'
             /\ image' # NoFile /\ FileTyped(restore.file)'
             /\ (restore.read \in 0 .. GroupCount + 1)'
             /\ Holds(restore.store, restore.read)'
  <2>1. /\ restore = [state |-> "importing", file |-> restore.file, read |-> restore.read,
                      store |-> restore.store]
        /\ image # NoFile /\ FileTyped(restore.file)
        /\ restore.read \in 0 .. GroupCount + 1
        /\ Holds(restore.store, restore.read)
    BY <1>1 DEF RestoreInv
  <2>2. Holds(restore.store, restore.read)'
    BY <2>1, HoldsStays
  <2>3. FileTyped(restore.file)'
    BY <2>1 DEF FileTyped
  <2> QED BY <2>1, <2>2, <2>3
<1>2. ASSUME dest.there PROVE Frozen' /\ Holds(dest.store, GroupCount + 1)'
  <2>1. Frozen /\ Holds(dest.store, GroupCount + 1)
    BY <1>2 DEF RestoreInv
  <2>2. Holds(dest.store, GroupCount + 1)'
    BY <2>1, HoldsStays
  <2> QED BY <2>1, <2>2
<1> QED BY <1>1, <1>2 DEF RestoreInv

(* Damage that keeps the length of a file keeps its form.                  *)
LEMMA DamageOfTyped ==
    ASSUME NEW f, FileTyped(f), NEW e \in Damaged(f), Len(e) = Len(f)
    PROVE  FileTyped(e)
<1>0. GroupCount \in Nat
  BY Sizes
<1> DEFINE N == GroupCount + 4
<1>1. f \in [1 .. N -> Int] /\ \A i \in 1 .. N : f[i] = i \/ f[i] = -i
  BY DEF FileTyped
<1>2. f \in Seq(Int) /\ Len(f) = N /\ DOMAIN f = 1 .. N /\ N \in Nat
  BY <1>0, <1>1
<1> HIDE DEF N
<1>3. CASE e \in {SubSeq(f, 1, k) : k \in 1 .. Len(f) - 1}
  <2>1. PICK k \in 1 .. N - 1 : e = SubSeq(f, 1, k)
    BY <1>2, <1>3
  <2>2. Len(e) = k
    BY <1>2, <2>1
  <2> QED BY <1>2, <2>2
<1>4. CASE e \in {[f EXCEPT ![i] = -@] : i \in DOMAIN f}
  <2>1. PICK k \in 1 .. N : e = [f EXCEPT ![k] = -f[k]]
    BY <1>2, <1>4
  <2>2. e \in [1 .. N -> Int] /\ \A i \in 1 .. N : e[i] = i \/ e[i] = -i
    BY <1>1, <1>2, <2>1
  <2> QED BY <2>2 DEF FileTyped, N
<1> QED BY <1>3, <1>4 DEF Damaged

(* A whole file has the form of a file.                                    *)
LEMMA WholeTyped == FileTyped(Whole)
<1>1. GroupCount \in Nat
  BY Sizes
<1> QED BY <1>1, WholeIs DEF FileTyped

\* A section that reads is the section that was written, although the file
\* may have been damaged since it was verified.
LEMMA ReadsWhatWasWritten ==
    ASSUME IsWritten(image, Document, DataSections, GroupCount),
           NEW f, FileTyped(f), NEW i \in 1 .. GroupCount + 1,
           SectionReads(Contents(f), image[Len(Contents(f)) - 1], i)
    PROVE  Contents(f)[i + 1].body = Framed(Document, DataSections, i).sum
<1>0. GroupCount \in Nat
  BY Sizes
<1> DEFINE c == Contents(f)
           N == GroupCount + 4
           m == image[GroupCount + 3]
<1>1. DOMAIN f = 1 .. N
  BY DEF FileTyped
<1>2. Len(c) = N
  <2>1. DOMAIN c = 1 .. N /\ c = [j \in 1 .. N |-> c[j]]
    BY <1>1 DEF Contents
  <2> HIDE DEF c
  <2> QED BY <1>0, <2>1
<1>3. Len(c) - 1 = GroupCount + 3
  BY <1>0, <1>2
<1> HIDE DEF c
<1>4. SectionReads(c, m, i)
  BY <1>3 DEF c
<1>5. c[i + 1].sum = m.sections[i].sum /\ c[i + 1].body = c[i + 1].sum
  BY <1>4 DEF SectionReads
<1>6. m.sections[i] = Descriptor(Framed(Document, DataSections, i), i - 1)
  BY DEF IsWritten
<1>7. m.sections[i].sum = Framed(Document, DataSections, i).sum
  BY <1>6 DEF Descriptor
<1> QED BY <1>5, <1>7 DEF c

(* A restore starts from a file that has been verified, so from the        *)
(* artifact.                                                               *)
LEMMA StartRestoreKeeps ==
    ASSUME SourceInv, SpoolInv, RestoreInv, StartRestore(ready)
    PROVE  RestoreInv'
<1>1. /\ Accepted(ready) /\ UNCHANGED <<source, spool, dest>>
      /\ restore' = [state |-> "importing", file |-> ready, read |-> 0, store |-> EmptyStore]
  BY DEF StartRestore
<1>2. ready = Whole /\ FileTyped(ready) /\ image # NoFile
  BY <1>1, AcceptedIsWhole, WholeTyped, WholeIs DEF SpoolInv
<1>3. UNCHANGED <<parts, streams, selected, image, phase>>
  BY <1>1 DEF source, spool
<1>4. Holds(EmptyStore, 0)
  <2>1. EmptyStore.parts = <<>> /\ EmptyStore = [parts |-> EmptyStore.parts, streams |-> EmptyStore.streams]
    BY DEF EmptyStore
  <2>2. DOMAIN EmptyStore.parts = {}
    BY <2>1
  <2> QED BY <2>1, <2>2, ReadsNothing DEF Holds
<1>5. Holds(EmptyStore, 0)'
  BY <1>3, <1>4, HoldsStays
<1>6. /\ restore'.file = ready /\ restore'.read = 0 /\ restore'.store = EmptyStore
  BY <1>1
<1>7. Holds(restore.store, restore.read)'
  BY <1>5, <1>6
<1>8. GroupCount \in Nat /\ 0 \in 0 .. GroupCount + 1
  BY Sizes
<1>9. FileTyped(restore.file)'
  BY <1>2, <1>6 DEF FileTyped
<1>10. dest'.there => Frozen' /\ Holds(dest.store, GroupCount + 1)'
  <2> SUFFICES ASSUME dest.there PROVE Frozen' /\ Holds(dest.store, GroupCount + 1)'
    BY <1>1
  <2>1. Frozen /\ Holds(dest.store, GroupCount + 1) /\ dest' = dest
    BY <1>1 DEF RestoreInv
  <2> QED BY <1>3, <2>1, HoldsStays DEF Frozen
<1>11. /\ (restore = [state |-> "importing", file |-> restore.file, read |-> restore.read,
                      store |-> restore.store])'
       /\ image' # NoFile /\ (restore.read \in 0 .. GroupCount + 1)'
  BY <1>1, <1>2, <1>3, <1>6, <1>8
<1> QED BY <1>7, <1>9, <1>10, <1>11 DEF RestoreInv

(* A destination keeps what it holds.                                      *)
LEMMA DestStays ==
    ASSUME RestoreInv, UNCHANGED <<parts, streams, selected, phase, dest>>
    PROVE  dest'.there => Frozen' /\ Holds(dest.store, GroupCount + 1)'
<1> SUFFICES ASSUME dest.there PROVE Frozen' /\ Holds(dest.store, GroupCount + 1)'
  OBVIOUS
<1>1. Frozen /\ Holds(dest.store, GroupCount + 1) /\ dest' = dest
  BY DEF RestoreInv
<1> QED BY <1>1, HoldsStays DEF Frozen

(* A step of restore_into_staging imports a section that reads as the      *)
(* manifest says, or ends the restore.                                     *)
LEMMA ImportSectionKeeps ==
    ASSUME SourceInv, SpoolInv, RestoreInv, ImportSection
    PROVE  RestoreInv'
<1> DEFINE f == Contents(restore.file)
           m == image[Len(f) - 1]
           i == restore.read + 1
           st == Imported(restore.store, i, f[i + 1].body)
<1>0. GroupCount \in Nat /\ Cardinality(SourceGroups) = GroupCount + 1
  BY Sizes
<1>1. /\ restore.state = "importing" /\ restore.read < GroupCount + 1
      /\ restore' = IF ~SectionReads(f, m, i) THEN NoRestore
                    ELSE [restore EXCEPT !.read = i, !.store = st]
      /\ UNCHANGED <<source, spool, dest>>
  BY <1>0 DEF ImportSection
<1>2. UNCHANGED <<parts, streams, selected, image, phase, dest>>
  BY <1>1 DEF source, spool
<1>3. dest'.there => Frozen' /\ Holds(dest.store, GroupCount + 1)'
  BY <1>2, DestStays
<1>4. CASE ~SectionReads(f, m, i)
  <2>1. restore' = NoRestore
    BY <1>1, <1>4
  <2> QED BY <1>3, <2>1 DEF RestoreInv, NoRestore, NoFile, EmptyStore
<1>5. CASE SectionReads(f, m, i)
  <2>0. restore # NoRestore
    BY <1>1 DEF NoRestore
  <2>1. /\ restore = [state |-> "importing", file |-> restore.file, read |-> restore.read,
                      store |-> restore.store]
        /\ image # NoFile /\ FileTyped(restore.file)
        /\ restore.read \in 0 .. GroupCount + 1
        /\ Holds(restore.store, restore.read)
    BY <2>0 DEF RestoreInv
  <2>2. i \in 1 .. GroupCount + 1 /\ i - 1 = restore.read /\ i \in 0 .. GroupCount + 1
    BY <1>0, <1>1, <2>1
  <2>3. image = Written(Document, DataSections) /\ Frozen
    BY <2>1 DEF SpoolInv
  <2>4. IsWritten(image, Document, DataSections, GroupCount)
    BY <2>3, WrittenIsThere
  <2> HIDE DEF i
  <2>5. f[i + 1].body = Framed(Document, DataSections, i).sum
    BY <1>5, <2>1, <2>2, <2>4, ReadsWhatWasWritten
  <2>6. phase # "Open"
    BY <2>3 DEF Frozen
  <2>7. Holds(st, i)
    <3>1. Holds(restore.store, i - 1)
      BY <2>1, <2>2
    <3>2. Holds(Imported(restore.store, i, Framed(Document, DataSections, i).sum), i)
      BY <2>2, <2>6, <3>1, ImportsOne
    <3> QED BY <2>5, <3>2
  <2>8. restore' = [restore EXCEPT !.read = i, !.store = st]
    BY <1>1, <1>5 DEF i
  <2> DEFINE fl == restore.file
             rd == restore.read
             so == restore.store
  <2>9. restore = [state |-> "importing", file |-> fl, read |-> rd, store |-> so]
    BY <2>1
  <2> HIDE DEF st, fl, rd, so, f, m
  <2>10. restore' = [state |-> "importing", file |-> fl, read |-> i, store |-> st]
    BY <2>8, <2>9
  <2>11. restore'.file = fl /\ restore'.read = i /\ restore'.store = st
    BY <2>10
  <2>12. Holds(restore'.store, restore'.read)
    BY <2>7, <2>11
  <2>13. Holds(restore.store, restore.read)'
    BY <1>2, <2>12, EntriesStay DEF Holds
  <2>14. FileTyped(restore.file)'
    BY <2>1, <2>11 DEF FileTyped, fl
  <2>15. /\ (restore = [state |-> "importing", file |-> restore.file, read |-> restore.read,
                        store |-> restore.store])'
         /\ image' # NoFile /\ (restore.read \in 0 .. GroupCount + 1)'
    BY <1>2, <2>1, <2>2, <2>10, <2>11
  <2> QED BY <1>3, <2>13, <2>14, <2>15 DEF RestoreInv
<1> QED BY <1>4, <1>5

(* A restore is renamed into its destination only after all sections.      *)
LEMMA PublishRestoreKeeps ==
    ASSUME SourceInv, SpoolInv, RestoreInv, PublishRestore
    PROVE  RestoreInv'
<1>0. GroupCount \in Nat /\ Cardinality(SourceGroups) = GroupCount + 1
  BY Sizes
<1>1. /\ restore.state = "importing" /\ restore.read = GroupCount + 1
      /\ dest' = [there |-> TRUE, store |-> restore.store, artifact |-> Identity(Whole)]
      /\ restore' = NoRestore /\ UNCHANGED <<source, spool>>
  BY <1>0 DEF PublishRestore
<1>2. UNCHANGED <<parts, streams, selected, image, phase>>
  BY <1>1 DEF source, spool
<1>3. restore # NoRestore
  BY <1>1 DEF NoRestore
<1>4. image # NoFile /\ Holds(restore.store, GroupCount + 1)
  BY <1>1, <1>3 DEF RestoreInv
<1>5. Frozen'
  BY <1>2, <1>4 DEF SpoolInv, Frozen
<1>6. dest'.store = restore.store
  BY <1>1
<1>7. Holds(dest'.store, GroupCount + 1)
  BY <1>4, <1>6
<1>8. Holds(dest.store, GroupCount + 1)'
  BY <1>2, <1>7, EntriesStay DEF Holds
<1> QED BY <1>1, <1>5, <1>8 DEF RestoreInv, NoRestore, NoFile, EmptyStore

(* A restore that dies leaves no destination behind.                       *)
LEMMA CrashRestoreKeeps ==
    ASSUME RestoreInv, CrashRestore
    PROVE  RestoreInv'
<1>1. restore' = NoRestore /\ UNCHANGED <<source, spool, dest>>
  BY DEF CrashRestore
<1>2. UNCHANGED <<parts, streams, selected, phase, dest>>
  BY <1>1 DEF source, spool
<1>3. dest'.there => Frozen' /\ Holds(dest.store, GroupCount + 1)'
  BY <1>2, DestStays
<1> QED BY <1>1, <1>3 DEF RestoreInv, NoRestore, NoFile, EmptyStore

(* Damage to the input of a restore after its verification leaves what was *)
(* imported.                                                               *)
LEMMA DamageInputKeeps ==
    ASSUME RestoreInv, DamageInput
    PROVE  RestoreInv'
<1>1. /\ restore.state = "importing" /\ UNCHANGED <<source, spool, dest>>
      /\ \E e \in Damaged(restore.file) :
            Len(e) = Len(restore.file) /\ restore' = [restore EXCEPT !.file = e]
  BY DEF DamageInput
<1>2. UNCHANGED <<parts, streams, selected, image, phase, dest>>
  BY <1>1 DEF source, spool
<1>3. dest'.there => Frozen' /\ Holds(dest.store, GroupCount + 1)'
  BY <1>2, DestStays
<1>4. PICK e \in Damaged(restore.file) :
        Len(e) = Len(restore.file) /\ restore' = [restore EXCEPT !.file = e]
  BY <1>1
<1>5. restore # NoRestore
  BY <1>1 DEF NoRestore
<1>6. /\ restore = [state |-> "importing", file |-> restore.file, read |-> restore.read,
                    store |-> restore.store]
      /\ image # NoFile /\ FileTyped(restore.file)
      /\ restore.read \in 0 .. GroupCount + 1
      /\ Holds(restore.store, restore.read)
  BY <1>5 DEF RestoreInv
<1>7. FileTyped(e)
  BY <1>4, <1>6, DamageOfTyped
<1> DEFINE fl == restore.file
           rd == restore.read
           so == restore.store
<1>8. restore = [state |-> "importing", file |-> fl, read |-> rd, store |-> so]
  BY <1>6
<1> HIDE DEF fl, rd, so
<1>9. restore' = [state |-> "importing", file |-> e, read |-> rd, store |-> so]
  BY <1>4, <1>8
<1>10. restore'.file = e /\ restore'.read = rd /\ restore'.store = so
  BY <1>9
<1>11. Holds(restore'.store, restore'.read)
  BY <1>6, <1>10 DEF rd, so
<1>12. Holds(restore.store, restore.read)'
  BY <1>2, <1>11, EntriesStay DEF Holds
<1>13. FileTyped(restore.file)'
  BY <1>7, <1>10 DEF FileTyped
<1>14. /\ (restore = [state |-> "importing", file |-> restore.file, read |-> restore.read,
                      store |-> restore.store])'
       /\ image' # NoFile /\ (restore.read \in 0 .. GroupCount + 1)'
  BY <1>2, <1>6, <1>9, <1>10 DEF rd
<1> QED BY <1>3, <1>12, <1>13, <1>14 DEF RestoreInv

(* Every step keeps the restore sound.                                     *)
LEMMA RestoreStep ==
    ASSUME SourceInv, SpoolInv, RestoreInv, [LogicalNext]_logicalVars
    PROVE  RestoreInv'
<1>1. CASE Restoring
  BY <1>1, StartRestoreKeeps, ImportSectionKeeps, PublishRestoreKeeps, CrashRestoreKeeps,
     DamageInputKeeps DEF Restoring
<1>2. ASSUME UNCHANGED <<restore, dest>>, ~Frozen PROVE RestoreInv'
  <2>1. image = NoFile
    BY <1>2 DEF SpoolInv
  <2> QED BY <1>2, <2>1, RestoreStays
<1>3. ASSUME NEW g, Applies(g) PROVE RestoreInv'
  BY <1>2, <1>3 DEF Applies, Frozen
<1>4. CASE Mutations
  BY <1>3, <1>4 DEF Mutations, Publish, CreateBookmark, DeleteBookmark, AdvanceFloor,
                    CreateStreamBookmark, DeleteStreamBookmark, ActivateStream
<1>5. ASSUME NEW sel \in SUBSET Streams, BeginExport(sel) PROVE RestoreInv'
  BY <1>2, <1>5 DEF BeginExport, Frozen
<1>6. ASSUME NEW g \in DataGroups, FenceGroup(g) PROVE RestoreInv'
  BY <1>2, <1>6 DEF FenceGroup, Frozen
<1>7. CASE CoordinatorSteps
  <2>1. UNCHANGED <<parts, streams, selected, restore, dest>>
    BY <1>7, SourceIsLeftAlone DEF CoordinatorSteps, RecoverReady, WriteArtifact, PublishReady, JoinTask,
         CancelTask, CrashServer, DamageReady
  <2>2. Frozen'
    BY <1>7, FrozenStays
  <2>3. image # NoFile => image' # NoFile
    BY <1>7, WrittenIsThere DEF CoordinatorSteps, RecoverReady, WriteArtifact, PublishReady, JoinTask,
           CancelTask, CrashServer, DamageReady, spool
  <2> QED BY <2>1, <2>2, <2>3, RestoreStays
<1>8. CASE DownloadChunk \/ CheckDownload \/ UNCHANGED logicalVars
  <2>1. UNCHANGED <<parts, streams, selected, restore, dest, image, phase>>
    BY <1>8 DEF DownloadChunk, CheckDownload, logicalVars, source, spool
  <2>2. (image # NoFile \/ Frozen) => Frozen'
    BY <2>1 DEF SpoolInv, Frozen
  <2> QED BY <2>1, <2>2, RestoreStays
<1> QED BY <1>1, <1>4, <1>5, <1>6, <1>7, <1>8 DEF LogicalNext, Exporting, CoordinatorSteps

(* There is no restore at first.                                           *)
LEMMA InitRestore == LogicalInit => RestoreInv
BY DEF LogicalInit, RestoreInv, NoDest

(* A stream restored field by field is the stream with other bookmarks.    *)
LEMMA StreamRestored ==
    ASSUME NEW x \in StreamStates, NEW v
    PROVE  [active |-> x.active, revision |-> x.revision, ceiling |-> x.ceiling, marks |-> v]
           = [x EXCEPT !.marks = v]
<1> DEFINE R == [active : BOOLEAN, revision : Nat, ceiling : Nat, marks : {v}]
           p == [active |-> x.active, revision |-> x.revision, ceiling |-> x.ceiling, marks |-> v]
           q == [x EXCEPT !.marks = v]
<1>1. \A a, b \in R : a.active = b.active /\ a.revision = b.revision /\ a.ceiling = b.ceiling
                       /\ a.marks = b.marks => a = b
  OBVIOUS
<1>2. p \in R /\ p.active = x.active /\ p.revision = x.revision /\ p.ceiling = x.ceiling /\ p.marks = v
  BY DEF StreamStates
<1>3. q \in R /\ q.active = x.active /\ q.revision = x.revision /\ q.ceiling = x.ceiling /\ q.marks = v
  BY DEF StreamStates
<1> HIDE DEF p, q, R
<1>4. p = q
  BY <1>1, <1>2, <1>3
<1> QED BY <1>4 DEF p, q

(* A partition restored field by field is the partition with other         *)
(* bookmarks.                                                              *)
LEMMA PartitionRestored ==
    ASSUME NEW x \in PartitionStates, NEW v
    PROVE  [floor |-> x.floor, ceiling |-> x.ceiling, marks |-> v, records |-> x.records]
           = [x EXCEPT !.marks = v]
<1> DEFINE R == [floor : Nat, ceiling : Nat, marks : {v}, records : {x.records}]
           p == [floor |-> x.floor, ceiling |-> x.ceiling, marks |-> v, records |-> x.records]
           q == [x EXCEPT !.marks = v]
<1>1. \A a, b \in R : a.floor = b.floor /\ a.ceiling = b.ceiling /\ a.marks = b.marks
                       /\ a.records = b.records => a = b
  OBVIOUS
<1>2. p \in R /\ p.floor = x.floor /\ p.ceiling = x.ceiling /\ p.marks = v /\ p.records = x.records
  BY DEF PartitionStates
<1>3. q \in R /\ q.floor = x.floor /\ q.ceiling = x.ceiling /\ q.marks = v /\ q.records = x.records
  BY DEF PartitionStates
<1> HIDE DEF p, q, R
<1>4. p = q
  BY <1>1, <1>2, <1>3
<1> QED BY <1>4 DEF p, q

(* Reading an entry and restoring it gives back what the source has, its   *)
(* bookmarks rewritten to the new cluster.                                 *)
LEMMA EntriesRestore ==
    ASSUME SourceTyped
    PROVE  /\ \A s \in Streams : RestoredStream(StreamEntry(s))
                = [streams[s] EXCEPT !.marks = Rewritten(streams[s].marks)]
           /\ \A p \in Parts : RestoredPartition(PartitionEntry(p))
                = [parts[p] EXCEPT !.marks = Rewritten(parts[p].marks)]
<1>1. ASSUME NEW s \in Streams
      PROVE  RestoredStream(StreamEntry(s)) = [streams[s] EXCEPT !.marks = Rewritten(streams[s].marks)]
  <2> DEFINE x == streams[s]
             v == Rewritten(x.marks)
  <2>1. x \in StreamStates
    BY DEF SourceTyped
  <2>2. RestoredStream(StreamEntry(s)) =
          [active |-> x.active, revision |-> x.revision, ceiling |-> x.ceiling, marks |-> v]
    BY DEF RestoredStream, StreamEntry
  <2> HIDE DEF x, v
  <2>3. [active |-> x.active, revision |-> x.revision, ceiling |-> x.ceiling, marks |-> v]
        = [x EXCEPT !.marks = v]
    BY <2>1, StreamRestored
  <2> QED BY <2>2, <2>3 DEF x, v
<1>2. ASSUME NEW p \in Parts
      PROVE  RestoredPartition(PartitionEntry(p)) = [parts[p] EXCEPT !.marks = Rewritten(parts[p].marks)]
  <2> DEFINE x == parts[p]
             v == Rewritten(x.marks)
             e == PartitionEntry(p)
             rs == [i \in DOMAIN e.records |-> e.records[i].payload]
  <2>1. x \in PartitionStates /\ x.records \in Seq(Nat)
    BY TailsAreNat DEF SourceTyped
  <2>2. /\ e.floor = x.floor /\ e.ceiling = x.ceiling /\ e.marks = x.marks
        /\ e.records = [i \in DOMAIN x.records |-> [offset |-> x.floor + i - 1, payload |-> x.records[i]]]
    BY DEF PartitionEntry
  <2>3. rs = [i \in DOMAIN x.records |-> x.records[i]]
    <3>1. DOMAIN e.records = DOMAIN x.records /\ \A i \in DOMAIN x.records : e.records[i].payload = x.records[i]
      BY <2>2
    <3> QED BY <3>1
  <2>4. rs = x.records
    BY <2>1, <2>3
  <2>5. RestoredPartition(e) =
          [floor |-> x.floor, ceiling |-> x.ceiling, marks |-> v, records |-> rs]
    BY <2>2 DEF RestoredPartition
  <2> HIDE DEF x, v, e, rs
  <2>6. [floor |-> x.floor, ceiling |-> x.ceiling, marks |-> v, records |-> x.records]
        = [x EXCEPT !.marks = v]
    BY <2>1, PartitionRestored
  <2> QED BY <2>4, <2>5, <2>6 DEF x, v, e
<1> QED BY <1>1, <1>2

(* Whatever streams, placements, commands and faults there are, the store  *)
(* that restore_from_path renames into place holds exactly the selected    *)
(* streams and their partitions as they were at the cut: the source no     *)
(* longer changes once an artifact is written, only the artifact verifies, *)
(* and every section is compared with its digest again when                *)
(* restore_into_staging reads it, so damage between the verification and   *)
(* the import ends the restore.                                            *)
THEOREM RestoresAreTheCut == LogicalSpec => []RestoredIsTheCut
<1>1. LogicalInit => SourceInv /\ SpoolInv /\ RestoreInv
  BY InitSource, InitSpool, InitRestore
<1>2. SourceInv /\ SpoolInv /\ RestoreInv /\ [LogicalNext]_logicalVars => SourceInv' /\ SpoolInv' /\ RestoreInv'
  BY SourceStep, SpoolStep, RestoreStep
<1>3. SourceInv /\ RestoreInv => RestoredIsTheCut
  <2> SUFFICES ASSUME SourceInv, RestoreInv, dest.there
               PROVE  /\ DOMAIN dest.store.streams = Range(selected)
                      /\ DOMAIN dest.store.parts = {p \in Parts : p[1] \in Range(selected)}
                      /\ \A s \in DOMAIN dest.store.streams :
                            dest.store.streams[s] = [streams[s] EXCEPT !.marks = Rewritten(streams[s].marks)]
                      /\ \A p \in DOMAIN dest.store.parts :
                            dest.store.parts[p] = [parts[p] EXCEPT !.marks = Rewritten(parts[p].marks)]
    BY DEF RestoredIsTheCut
  <2>1. Frozen /\ Holds(dest.store, GroupCount + 1)
    BY DEF RestoreInv
  <2>2. phase # "Open" /\ SourceTyped /\ GroupCount + 1 > 0
    BY <2>1, Sizes DEF Frozen, SourceInv
  <2>3. Range(selected) \subseteq Streams
    BY <2>2, SelectedIs
  <2>4. /\ DOMAIN dest.store.streams = Range(selected)
        /\ \A s \in Range(selected) : dest.store.streams[s] = RestoredStream(StreamEntry(s))
        /\ DOMAIN dest.store.parts = ReadParts(GroupCount + 1)
        /\ \A p \in ReadParts(GroupCount + 1) : dest.store.parts[p] = RestoredPartition(PartitionEntry(p))
    BY <2>1, <2>2 DEF Holds
  <2>5. ReadParts(GroupCount + 1) = {p \in Parts : p[1] \in Range(selected)}
    BY ReadsAll
  <2>6. /\ \A s \in Streams : RestoredStream(StreamEntry(s))
                = [streams[s] EXCEPT !.marks = Rewritten(streams[s].marks)]
        /\ \A p \in Parts : RestoredPartition(PartitionEntry(p))
                = [parts[p] EXCEPT !.marks = Rewritten(parts[p].marks)]
    BY <2>2, EntriesRestore
  <2> QED BY <2>3, <2>4, <2>5, <2>6
<1> QED BY <1>1, <1>2, <1>3, PTL DEF LogicalSpec

(***************************************************************************)
(* A cut within the limits is canonical.                                   *)
(***************************************************************************)

(* Pairs has one element for every element of every set.                   *)
LEMMA PairsAre ==
    ASSUME NEW f
    PROVE  /\ \A i \in DOMAIN f : \A j \in f[i] : <<i, j>> \in Pairs(f)
           /\ \A x \in Pairs(f) : x = <<x[1], x[2]>> /\ x[1] \in DOMAIN f /\ x[2] \in f[x[1]]
BY DEF Pairs

(* Pairs of finitely many finite sets is finite.                           *)
LEMMA PairsAreFinite ==
    ASSUME NEW f, IsFiniteSet(DOMAIN f), \A i \in DOMAIN f : IsFiniteSet(f[i])
    PROVE  IsFiniteSet(Pairs(f)) /\ Cardinality(Pairs(f)) \in Nat
<1> DEFINE P(i) == {i} \X f[i]
           S == {P(i) : i \in DOMAIN f}
           h == [i \in DOMAIN f |-> P(i)]
<1>1. ASSUME NEW i \in DOMAIN f PROVE IsFiniteSet(P(i))
  <2>1. IsFiniteSet({i}) /\ IsFiniteSet(f[i])
    BY FS_Singleton
  <2> QED BY <2>1, FS_Product
<1>2. Pairs(f) = UNION S
  BY DEF Pairs
<1> HIDE DEF P
<1>3. h \in Surjection(DOMAIN f, S)
  BY DEF Surjection
<1>4. \A T \in S : IsFiniteSet(T)
  BY <1>1
<1> HIDE DEF S, h
<1>5. IsFiniteSet(S)
  BY <1>3, FS_Surjection
<1>6. IsFiniteSet(Pairs(f))
  BY <1>2, <1>4, <1>5, FS_UNION
<1> QED BY <1>6, FS_CardinalityType

(* Bookmarks the source keeps pass the rules of the format on numbers, ids *)
(* and names.                                                              *)
LEMMA KeptIsComplete ==
    ASSUME NEW x, MarksKept(x),
           \A i, j \in DOMAIN x.marks : x.marks[i].id = x.marks[j].id => i = j
    PROVE  MarksAreComplete(x.marks, x.ceiling)
<1> DEFINE ids == [i \in DOMAIN x.marks |-> x.marks[i].id]
<1>1. Distinct(ids)
  BY DEF Distinct
<1> QED BY <1>1 DEF MarksAreComplete, MarksKept

(* The fields materialize_data_group reads of a partition.                 *)
LEMMA PartitionEntryIs ==
    ASSUME NEW p
    PROVE  /\ PartitionEntry(p).cluster = "source" /\ PartitionEntry(p).stream = p[1]
           /\ PartitionEntry(p).partition = p[2] /\ PartitionEntry(p).floor = parts[p].floor
           /\ PartitionEntry(p).tail = TailIn(parts, p) /\ PartitionEntry(p).ceiling = parts[p].ceiling
           /\ PartitionEntry(p).marks = parts[p].marks
           /\ PartitionEntry(p).records = [i \in DOMAIN parts[p].records |->
                [offset |-> parts[p].floor + i - 1, payload |-> parts[p].records[i]]]
           /\ Key(PartitionEntry(p)) = <<p[1], p[2]>>
<1> DEFINE rs == [i \in DOMAIN parts[p].records |->
                    [offset |-> parts[p].floor + i - 1, payload |-> parts[p].records[i]]]
           e == PartitionEntry(p)
<1>1. e = [cluster |-> "source", stream |-> p[1], partition |-> p[2], floor |-> parts[p].floor,
           tail |-> TailOf(p), ceiling |-> parts[p].ceiling, marks |-> parts[p].marks, records |-> rs]
  BY DEF PartitionEntry
<1>2. TailOf(p) = TailIn(parts, p)
  BY DEF TailOf, TailIn
<1> HIDE DEF e, rs
<1>3. /\ e.cluster = "source" /\ e.stream = p[1] /\ e.partition = p[2] /\ e.floor = parts[p].floor
      /\ e.tail = TailIn(parts, p) /\ e.ceiling = parts[p].ceiling /\ e.marks = parts[p].marks
      /\ e.records = rs
  BY <1>1, <1>2
<1>4. Key(e) = <<p[1], p[2]>>
  BY <1>3 DEF Key
<1> QED BY <1>3, <1>4 DEF e, rs

(* The fields prepare_from_control_snapshot reads of a stream.             *)
LEMMA StreamEntryIs ==
    ASSUME NEW s
    PROVE  /\ StreamEntry(s).stream = s /\ StreamEntry(s).name = s /\ StreamEntry(s).cluster = "source"
           /\ StreamEntry(s).active = streams[s].active /\ StreamEntry(s).revision = streams[s].revision
           /\ StreamEntry(s).placements = Placements[s]
           /\ StreamEntry(s).ready = Ascending({x.group : x \in Range(Placements[s])})
           /\ StreamEntry(s).ceiling = streams[s].ceiling /\ StreamEntry(s).marks = streams[s].marks
BY DEF StreamEntry

(* The fields of the control section.                                      *)
LEMMA ControlIs ==
    ASSUME SourceInv, phase # "Open"
    PROVE  /\ ControlSection.cluster = "source" /\ ControlSection.export = "export"
           /\ ControlSection.cut = fencedAt[0] /\ ControlSection.revision = CatalogRevision
           /\ ControlSection.maxStreams = Cardinality(Streams)
           /\ ControlSection.groups = Ascending(DataGroups)
           /\ DOMAIN ControlSection.streams = 1 .. Len(selected)
           /\ Len(ControlSection.streams) = Len(selected)
           /\ \A i \in 1 .. Len(selected) : ControlSection.streams[i] = StreamEntry(selected[i])
           /\ Range(ControlSection.streams) = {StreamEntry(s) : s \in Range(selected)}
<1> DEFINE ss == [i \in DOMAIN selected |-> StreamEntry(selected[i])]
           c == ControlSection
           n == Len(selected)
<1>1. c = [cluster |-> "source", export |-> "export", cut |-> fencedAt[0], revision |-> CatalogRevision,
           maxStreams |-> Cardinality(Streams), groups |-> Ascending(DataGroups), streams |-> ss]
  BY DEF ControlSection
<1>2. DOMAIN selected = 1 .. n /\ n \in Nat
  BY SelectedIs
<1>3. /\ DOMAIN ss = 1 .. n /\ \A i \in 1 .. n : ss[i] = StreamEntry(selected[i])
      /\ ss = [i \in 1 .. n |-> ss[i]]
  BY <1>2
<1>4. Range(ss) = {StreamEntry(s) : s \in Range(selected)}
  BY DEF Range
<1> HIDE DEF ss, c, n
<1>5. Len(ss) = n
  BY <1>2, <1>3
<1>6. /\ c.cluster = "source" /\ c.export = "export" /\ c.cut = fencedAt[0] /\ c.revision = CatalogRevision
      /\ c.maxStreams = Cardinality(Streams) /\ c.groups = Ascending(DataGroups) /\ c.streams = ss
  BY <1>1
<1> QED BY <1>3, <1>4, <1>5, <1>6 DEF c, n

(* The fields of the document.                                             *)
LEMMA DocumentIs ==
    /\ Document.cluster = "source" /\ Document.export = "export" /\ Document.selected = selected
    /\ Document.cut = fencedAt /\ Document.control = ControlSection
BY DEF Document

\* The partitions of the selected streams.
Chosen == {p \in Parts : p[1] \in Range(selected)}

(* The control section places the partitions of the selected streams in    *)
(* their groups.                                                           *)
LEMMA PlacedIs ==
    ASSUME SourceInv, phase # "Open"
    PROVE  Placed(ControlSection) = {<<p[1], p[2], GroupOf(p)>> : p \in Chosen}
<1> DEFINE Of(s) == {<<s.stream, p.partition, p.group>> : p \in Range(s.placements)}
           At(s) == {<<s, Placements[s][i].partition, Placements[s][i].group>> : i \in DOMAIN Placements[s]}
           R == Range(ControlSection.streams)
           P == {<<p[1], p[2], GroupOf(p)>> : p \in Chosen}
<1>1. R = {StreamEntry(s) : s \in Range(selected)}
  BY ControlIs
<1>2. ASSUME NEW s PROVE Of(StreamEntry(s)) = At(s)
  <2> DEFINE e == StreamEntry(s)
             ps == Placements[s]
  <2>1. e.stream = s /\ e.placements = ps
    BY StreamEntryIs
  <2> HIDE DEF e, ps
  <2>2. Of(e) = {<<s, ps[i].partition, ps[i].group>> : i \in DOMAIN ps}
    BY <2>1 DEF Range
  <2> QED BY <2>2 DEF e, ps
<1>3. Placed(ControlSection) = UNION {Of(s) : s \in R}
  BY DEF Placed
<1> HIDE DEF Of, R
<1>4. Placed(ControlSection) = UNION {At(s) : s \in Range(selected)}
  BY <1>1, <1>2, <1>3
<1>5. Range(selected) \subseteq Streams
  BY SelectedIs
<1>6. ASSUME NEW s \in Range(selected), NEW i \in DOMAIN Placements[s]
      PROVE  <<s, Placements[s][i].partition, Placements[s][i].group>> \in P
  <2> DEFINE p == PlaceOf(s, i)
  <2>1. p \in Parts /\ GroupOf(p) = Placements[s][i].group
    BY <1>5, PartsAre
  <2>2. p[1] = s /\ p[2] = Placements[s][i].partition
    BY DEF PlaceOf
  <2> HIDE DEF p
  <2>3. p \in Chosen
    BY <2>1, <2>2 DEF Chosen
  <2> QED BY <2>1, <2>2, <2>3
<1>7. ASSUME NEW p \in Chosen PROVE <<p[1], p[2], GroupOf(p)>> \in At(p[1])
  <2>1. p \in Parts
    BY DEF Chosen
  <2>2. PICK i \in DOMAIN Placements[p[1]] : p = PlaceOf(p[1], i)
    BY <2>1, PartsAre
  <2>3. p[1] \in Streams
    BY <2>1, PartsAre
  <2>4. GroupOf(p) = Placements[p[1]][i].group
    BY <2>2, <2>3, PartsAre
  <2>5. p[2] = Placements[p[1]][i].partition
    BY <2>2 DEF PlaceOf
  <2> QED BY <2>4, <2>5
<1>8. Placed(ControlSection) \subseteq P
  <2> HIDE DEF P
  <2> QED BY <1>4, <1>6
<1>9. P \subseteq Placed(ControlSection)
  <2> HIDE DEF At
  <2> QED BY <1>4, <1>7 DEF Chosen
<1> QED BY <1>8, <1>9

(* What SourceInv says of the bookmarks and the tail of one partition.     *)
LEMMA PartIsSound ==
    ASSUME SourceInv, NEW p \in Parts
    PROVE  /\ parts[p] \in PartitionStates /\ MarksKept(parts[p]) /\ parts[p].floor \in Nat
           /\ parts[p].records \in Seq(Nat) /\ TailIn(parts, p) \in Nat
           /\ parts[p].marks \in Seq(PartitionMarks)
           /\ TailIn(parts, p) = parts[p].floor + Len(parts[p].records)
           /\ \A i, j \in DOMAIN parts[p].marks : parts[p].marks[i].id = parts[p].marks[j].id => i = j
           /\ \A i \in DOMAIN parts[p].marks :
                parts[p].marks[i].offset <= TailIn(parts, p) /\ parts[p].marks[i].cluster = "source"
<1>1. parts \in [Parts -> PartitionStates] /\ PartsSound(parts, log)
  BY DEF SourceInv, SourceTyped
<1>2. /\ TailIn(parts, p) \in Nat /\ parts[p] \in PartitionStates /\ parts[p].floor \in Nat
      /\ parts[p].marks \in Seq(PartitionMarks) /\ parts[p].records \in Seq(Nat)
  BY <1>1, TailsAreNat
<1>3. /\ MarksKept(parts[p])
      /\ \A i, j \in DOMAIN parts[p].marks : parts[p].marks[i].id = parts[p].marks[j].id => i = j
      /\ \A i \in DOMAIN parts[p].marks : parts[p].marks[i].offset <= TailIn(parts, p)
  BY <1>1 DEF PartsSound
<1>4. \A i \in DOMAIN parts[p].marks : parts[p].marks[i] \in PartitionMarks
  BY <1>1, PartMarksTyped
<1>5. \A b \in PartitionMarks : b.cluster = "source"
  BY DEF PartitionMarks
<1> QED BY <1>2, <1>3, <1>4, <1>5 DEF TailIn

(* A partition read from the source passes validate_data_group.            *)
LEMMA EntryIsValid ==
    ASSUME SourceInv, NEW p \in Parts
    PROVE  PartitionIsValid(Document, PartitionEntry(p))
<1> DEFINE e == PartitionEntry(p)
           x == parts[p]
           t == TailIn(parts, p)
           n == Len(x.records)
           rs == [i \in DOMAIN x.records |-> [offset |-> x.floor + i - 1, payload |-> x.records[i]]]
<1>1. /\ e.cluster = "source" /\ e.floor = x.floor /\ e.tail = t /\ e.ceiling = x.ceiling
      /\ e.marks = x.marks /\ e.records = rs
  BY PartitionEntryIs
<1>2. /\ MarksKept(x) /\ x.floor \in Nat /\ x.records \in Seq(Nat) /\ t \in Nat /\ t = x.floor + n
      /\ \A i, j \in DOMAIN x.marks : x.marks[i].id = x.marks[j].id => i = j
      /\ \A i \in DOMAIN x.marks : x.marks[i].offset <= t /\ x.marks[i].cluster = "source"
  BY PartIsSound
<1>3. Document.cluster = "source"
  BY DocumentIs
<1> HIDE DEF e, x, t
<1>4. n \in Nat /\ DOMAIN x.records = 1 .. n
  BY <1>2
<1>5. /\ DOMAIN rs = 1 .. n /\ \A i \in 1 .. n : rs[i].offset = x.floor + i - 1
      /\ rs = [i \in 1 .. n |-> rs[i]]
  BY <1>4
<1> HIDE DEF rs, n
<1>6. Len(rs) = n
  BY <1>4, <1>5
<1>7. e.floor <= e.tail /\ Len(e.records) = e.tail - e.floor
  BY <1>1, <1>2, <1>4, <1>6
<1>8. MarksAreComplete(e.marks, e.ceiling)
  BY <1>1, <1>2, KeptIsComplete
<1>9. \A b \in Range(e.marks) : b.cluster = Document.cluster /\ b.offset <= e.tail
  BY <1>1, <1>2, <1>3 DEF Range
<1>10. \A i \in DOMAIN e.records : e.records[i].offset = e.floor + i - 1
  BY <1>1, <1>5
<1> QED BY <1>1, <1>3, <1>7, <1>8, <1>9, <1>10 DEF PartitionIsValid, e

(* A data section read from the source passes validate_data_group.         *)
LEMMA SectionIsValid ==
    ASSUME SourceInv, phase # "Open", NEW g \in DataGroups
    PROVE  DataIsValid(Document, ControlSection, g, DataSection(g))
<1> DEFINE b == DataSection(g)
           ps == b.partitions
           pl == Planned(g)
           k == Len(pl)
<1>1. /\ b.cluster = "source" /\ b.export = "export" /\ b.group = g /\ b.cut = fencedAt[g]
      /\ DOMAIN ps = 1 .. k /\ Len(ps) = k /\ \A i \in 1 .. k : ps[i] = PartitionEntry(pl[i])
  BY SectionIs
<1>2. /\ k \in Nat /\ \A i \in 1 .. k : pl[i] \in PlannedPartitions(g) /\ pl[i] \in Parts
      /\ \A i, j \in 1 .. k : i < j => Before(pl[i], pl[j])
      /\ \A i, j \in 1 .. k : pl[i] = pl[j] => i = j
  BY PlannedLists
<1>3. Document.cluster = "source" /\ Document.export = "export" /\ Document.cut = fencedAt
  BY DocumentIs
<1> HIDE DEF b, ps, pl, k
<1>4. \A i \in 1 .. k : Key(ps[i]) = pl[i] /\ GroupOf(pl[i]) = g /\ pl[i] \in Chosen
                         /\ ps[i].stream = pl[i][1] /\ ps[i].partition = pl[i][2]
                         /\ ps[i].marks = parts[pl[i]].marks
  <2> SUFFICES ASSUME NEW i \in 1 .. k
               PROVE  /\ Key(ps[i]) = pl[i] /\ GroupOf(pl[i]) = g /\ pl[i] \in Chosen
                      /\ ps[i].stream = pl[i][1] /\ ps[i].partition = pl[i][2]
                      /\ ps[i].marks = parts[pl[i]].marks
    OBVIOUS
  <2>1. pl[i] \in Parts /\ GroupOf(pl[i]) = g /\ pl[i] \in Chosen
    BY <1>2 DEF PlannedPartitions, Chosen
  <2>2. pl[i] = <<pl[i][1], pl[i][2]>>
    BY <2>1, PartsAre
  <2>3. Key(ps[i]) = <<pl[i][1], pl[i][2]>> /\ ps[i].stream = pl[i][1] /\ ps[i].partition = pl[i][2]
        /\ ps[i].marks = parts[pl[i]].marks
    <3> DEFINE p == pl[i]
    <3>1. ps[i] = PartitionEntry(p)
      BY <1>1
    <3> HIDE DEF p
    <3>2. /\ Key(PartitionEntry(p)) = <<p[1], p[2]>> /\ PartitionEntry(p).stream = p[1]
          /\ PartitionEntry(p).partition = p[2] /\ PartitionEntry(p).marks = parts[p].marks
      BY PartitionEntryIs
    <3> QED BY <3>1, <3>2 DEF p
  <2> QED BY <2>1, <2>2, <2>3
<1>5. KeysAscend(ps)
  <2> SUFFICES ASSUME NEW i \in 1 .. k - 1 PROVE Before(Key(ps[i]), Key(ps[i + 1]))
    BY <1>1 DEF KeysAscend
  <2>1. i \in 1 .. k /\ i + 1 \in 1 .. k /\ i < i + 1
    BY <1>2
  <2> QED BY <1>2, <1>4, <2>1
<1>6. IdsAreDistinct(ps)
  <2> DEFINE f == [i \in DOMAIN ps |-> DOMAIN ps[i].marks]
  <2>1. DOMAIN f = 1 .. k /\ \A i \in 1 .. k : f[i] = DOMAIN parts[pl[i]].marks
    BY <1>1, <1>4
  <2> HIDE DEF f
  <2> SUFFICES ASSUME NEW x \in Pairs(f), NEW y \in Pairs(f),
                      ps[x[1]].marks[x[2]].id = ps[y[1]].marks[y[2]].id
               PROVE  x = y
    BY DEF IdsAreDistinct, f
  <2>2. /\ x = <<x[1], x[2]>> /\ x[1] \in DOMAIN f /\ x[2] \in f[x[1]]
        /\ y = <<y[1], y[2]>> /\ y[1] \in DOMAIN f /\ y[2] \in f[y[1]]
    BY PairsAre
  <2> DEFINE i == x[1]
             j == y[1]
             p == pl[i]
             q == pl[j]
  <2>3. i \in 1 .. k /\ j \in 1 .. k
    BY <2>1, <2>2
  <2>4. p \in Parts /\ q \in Parts /\ GroupOf(p) = GroupOf(q)
    BY <1>2, <1>4, <2>3
  <2>5. x[2] \in DOMAIN parts[p].marks /\ y[2] \in DOMAIN parts[q].marks
    BY <2>1, <2>2, <2>3
  <2>6. parts[p].marks[x[2]].id = parts[q].marks[y[2]].id
    BY <1>4, <2>3
  <2>7. p = q /\ x[2] = y[2]
    <3> HIDE DEF p, q
    <3> QED BY <2>4, <2>5, <2>6 DEF SourceInv, PartsSound
  <2>8. i = j
    BY <1>2, <2>3, <2>7
  <2> QED BY <2>2, <2>7, <2>8
<1>7. ASSUME NEW p \in Range(ps)
      PROVE  <<p.stream, p.partition, g>> \in Placed(ControlSection) /\ PartitionIsValid(Document, p)
  <2>1. PICK i \in 1 .. k : p = ps[i]
    BY <1>1 DEF Range
  <2>2. PartitionIsValid(Document, p)
    BY <1>1, <1>2, <2>1, EntryIsValid
  <2>3. <<pl[i][1], pl[i][2], GroupOf(pl[i])>> \in Placed(ControlSection)
    BY <1>4, PlacedIs
  <2> QED BY <1>4, <2>1, <2>2, <2>3
<1>8. b.cluster = Document.cluster /\ b.export = Document.export /\ b.group = g /\ b.cut = Document.cut[g]
  BY <1>1, <1>3
<1>9. KeysAscend(b.partitions) /\ IdsAreDistinct(b.partitions)
      /\ \A p \in Range(b.partitions) :
            /\ <<p.stream, p.partition, g>> \in Placed(ControlSection)
            /\ PartitionIsValid(Document, p)
  BY <1>5, <1>6, <1>7 DEF ps
<1> QED BY <1>8, <1>9 DEF DataIsValid, b

(* The data sections deliver every partition of the selected streams, and  *)
(* each once.                                                              *)
LEMMA DeliveredOnce ==
    ASSUME SourceInv, phase # "Open"
    PROVE  /\ \A x \in Places(DataSections) :
                \E p \in Chosen : PartitionAt(DataSections, x) = PartitionEntry(p)
           /\ \A p \in Chosen : \E x \in Places(DataSections) :
                PartitionAt(DataSections, x) = PartitionEntry(p)
           /\ \A x, y \in Places(DataSections) :
                Key(PartitionAt(DataSections, x)) = Key(PartitionAt(DataSections, y)) => x = y
<1> DEFINE data == DataSections
           f == [i \in DOMAIN data |-> DOMAIN data[i].partitions]
           g(i) == Ascending(DataGroups)[i]
           pl(i) == Planned(g(i))
           n == GroupCount
<1>1. /\ n \in Nat /\ DOMAIN data = 1 .. n
      /\ \A i \in 1 .. n : data[i] = DataSection(g(i))
  BY Sizes, SectionsAre
<1>2. \A i \in 1 .. n : DOMAIN data[i].partitions = 1 .. Len(pl(i))
        /\ \A j \in 1 .. Len(pl(i)) : data[i].partitions[j] = PartitionEntry(pl(i)[j])
  BY <1>1, SectionIs
<1>3. DOMAIN f = 1 .. n /\ \A i \in 1 .. n : f[i] = 1 .. Len(pl(i))
  BY <1>1, <1>2
<1>4. Places(data) = Pairs(f)
  BY DEF Places
<1>5. \A x : PartitionAt(data, x) = data[x[1]].partitions[x[2]]
  BY DEF PartitionAt
<1> HIDE DEF f, data, g
<1>6. ASSUME NEW x \in Places(data)
      PROVE  /\ x = <<x[1], x[2]>> /\ x[1] \in 1 .. n /\ x[2] \in 1 .. Len(pl(x[1]))
             /\ PartitionAt(data, x) = PartitionEntry(pl(x[1])[x[2]])
             /\ pl(x[1])[x[2]] \in PlannedPartitions(g(x[1]))
             /\ Key(PartitionAt(data, x)) = pl(x[1])[x[2]]
  <2>1. x = <<x[1], x[2]>> /\ x[1] \in 1 .. n /\ x[2] \in 1 .. Len(pl(x[1]))
    <3> HIDE DEF pl, n
    <3>1. x \in Pairs(f)
      BY <1>4
    <3>2. x = <<x[1], x[2]>> /\ x[1] \in DOMAIN f /\ x[2] \in f[x[1]]
      BY ONLY <3>1, PairsAre
    <3> QED BY <1>3, <3>2
  <2> DEFINE p == pl(x[1])[x[2]]
  <2>2. p \in PlannedPartitions(g(x[1])) /\ p \in Parts
    BY <2>1, PlannedLists
  <2>3. PartitionAt(data, x) = PartitionEntry(p)
    BY <1>2, <1>5, <2>1
  <2> HIDE DEF p
  <2>4. Key(PartitionEntry(p)) = p
    BY <2>2, PartitionEntryIs, PartsAre
  <2> QED BY <2>1, <2>2, <2>3, <2>4 DEF p
<1>7. \A x \in Places(data) : \E p \in Chosen : PartitionAt(data, x) = PartitionEntry(p)
  BY <1>6 DEF PlannedPartitions, Chosen
<1>8. ASSUME NEW p \in Chosen PROVE \E x \in Places(data) : PartitionAt(data, x) = PartitionEntry(p)
  <2>1. GroupOf(p) \in DataGroups
    BY PartsAre DEF Chosen
  <2>2. PICK i \in 1 .. n : g(i) = GroupOf(p)
    BY <2>1, Sizes DEF g
  <2>3. p \in PlannedPartitions(g(i))
    BY <2>2 DEF PlannedPartitions, Chosen
  <2>4. PICK j \in 1 .. Len(pl(i)) : pl(i)[j] = p
    BY <2>3, PlannedLists
  <2> DEFINE x == <<i, j>>
  <2>5. x \in Places(data) /\ x[1] = i /\ x[2] = j
    <3>1. i \in DOMAIN f /\ j \in f[i]
      BY <1>3
    <3>2. <<i, j>> \in Pairs(f)
      BY ONLY <3>1, PairsAre
    <3> QED BY <1>4, <3>2
  <2> HIDE DEF x
  <2>6. PartitionAt(data, x) = PartitionEntry(p)
    BY <1>6, <2>4, <2>5
  <2> QED BY <2>5, <2>6
<1>9. ASSUME NEW x \in Places(data), NEW y \in Places(data),
             Key(PartitionAt(data, x)) = Key(PartitionAt(data, y))
      PROVE  x = y
  <2> DEFINE p == pl(x[1])[x[2]]
             q == pl(y[1])[y[2]]
  <2>1. /\ x = <<x[1], x[2]>> /\ x[1] \in 1 .. n /\ x[2] \in 1 .. Len(pl(x[1]))
        /\ p \in PlannedPartitions(g(x[1])) /\ Key(PartitionAt(data, x)) = p
    BY <1>6
  <2>2. /\ y = <<y[1], y[2]>> /\ y[1] \in 1 .. n /\ y[2] \in 1 .. Len(pl(y[1]))
        /\ q \in PlannedPartitions(g(y[1])) /\ Key(PartitionAt(data, y)) = q
    BY <1>6
  <2>3. p = q
    BY <1>9, <2>1, <2>2
  <2>4. g(x[1]) = GroupOf(p) /\ g(y[1]) = GroupOf(q)
    BY <2>1, <2>2 DEF PlannedPartitions
  <2>5. x[1] = y[1]
    BY <2>1, <2>2, <2>3, <2>4, Sizes DEF g
  <2>6. x[2] = y[2]
    BY <2>1, <2>2, <2>3, <2>5, PlannedLists
  <2> QED BY <2>1, <2>2, <2>5, <2>6
<1> QED BY <1>7, <1>8, <1>9 DEF data

(* The cut has every group, and its order is that of the sections.         *)
LEMMA GroupsOfCut ==
    ASSUME SourceInv
    PROVE  DOMAIN fencedAt = SourceGroups /\ GroupsOf(fencedAt) = Ascending(DataGroups)
           /\ Cardinality(DOMAIN fencedAt) - 1 = GroupCount
<1>1. DOMAIN fencedAt = SourceGroups
  BY DEF SourceInv, SourceTyped
<1>2. GroupsOf(fencedAt) = Ascending(DataGroups)
  BY <1>1, Sizes DEF GroupsOf
<1> QED BY <1>1, <1>2, Sizes

\* What the control section says of one selected stream.
LEMMA StreamEntryIsValid ==
    ASSUME SourceInv, NEW s \in Streams, streams[s].active
    PROVE  LET e == StreamEntry(s)
           IN  /\ e.cluster = "source" /\ e.active /\ e.placements # <<>>
               /\ IsStrict([i \in DOMAIN e.placements |-> e.placements[i].partition])
               /\ IsStrict(e.ready)
               /\ Range(e.ready) = {p.group : p \in Range(e.placements)}
               /\ Range(e.ready) \subseteq DataGroups
               /\ StreamMarksAreValid(e)
<1> DEFINE e == StreamEntry(s)
           ps == Placements[s]
           G == {x.group : x \in Range(ps)}
           h == [i \in DOMAIN ps |-> ps[i].group]
           x == streams[s]
<1>1. /\ e.cluster = "source" /\ e.active = x.active /\ e.placements = ps /\ e.ready = Ascending(G)
      /\ e.ceiling = x.ceiling /\ e.marks = x.marks
  BY StreamEntryIs
<1>2. /\ ps # <<>> /\ ps \in Seq([partition : Nat, group : DataGroups])
      /\ IsStrict([i \in DOMAIN ps |-> ps[i].partition])
      /\ \A i \in DOMAIN ps : ps[i].group \in DataGroups
  BY PlacementsAre
<1>3. G \in SUBSET DataGroups /\ IsFiniteSet(G)
  <2>1. G = {ps[i].group : i \in DOMAIN ps}
    BY DEF Range
  <2> HIDE DEF ps
  <2>2. G \in SUBSET DataGroups
    BY <1>2, <2>1
  <2>3. IsFiniteSet(DataGroups)
    BY LogicalExportAssumption
  <2> HIDE DEF G
  <2> QED BY <2>2, <2>3, FS_Subset
<1>4. G \in SUBSET Nat
  BY <1>3, LogicalExportAssumption
<1>5. Range(e.ready) = G /\ IsStrict(e.ready)
  <2> HIDE DEF G, e
  <2> QED BY <1>1, <1>3, <1>4, AscendingLists
<1>6. /\ MarksKept(x) /\ x.marks \in Seq(StreamMarks)
      /\ \A i \in DOMAIN x.marks : Len(x.marks[i].positions) = Len(ps)
  BY StreamOf
<1>7. \A i, j \in DOMAIN x.marks : x.marks[i].id = x.marks[j].id => i = j
  BY DEF SourceInv, StreamsSound
<1>8. MarksAreComplete(x.marks, x.ceiling)
  BY <1>6, <1>7, KeptIsComplete
<1> HIDE DEF e, x, ps, G
<1>9. StreamMarksAreValid(e)
  BY <1>1, <1>6, <1>8 DEF StreamMarksAreValid, Range
<1>10. e.active
  BY <1>1 DEF x
<1>11. Range(e.ready) = {p.group : p \in Range(e.placements)}
  BY <1>1, <1>5 DEF G
<1>12. IsStrict([i \in DOMAIN e.placements |-> e.placements[i].partition]) /\ e.placements # <<>>
  BY <1>1, <1>2
<1>13. Range(e.ready) \subseteq DataGroups
  BY <1>3, <1>5
<1> QED BY <1>1, <1>5, <1>9, <1>10, <1>11, <1>12, <1>13 DEF e

(* Stream bookmarks of different streams have different ids, since both    *)
(* are indexes of the control group's log.                                 *)
LEMMA StreamIdsAreDistinct ==
    ASSUME SourceInv, phase # "Open"
    PROVE  IdsAreDistinct(ControlSection.streams)
<1> DEFINE ss == ControlSection.streams
           n == Len(selected)
           f == [i \in DOMAIN ss |-> DOMAIN ss[i].marks]
<1>1. DOMAIN ss = 1 .. n /\ \A i \in 1 .. n : ss[i] = StreamEntry(selected[i])
  BY ControlIs
<1>2. /\ \A i, j \in 1 .. n : selected[i] = selected[j] => i = j
      /\ \A i \in 1 .. n : selected[i] \in Streams
  BY SelectedIs
<1> HIDE DEF ss, n
<1>3. \A i \in 1 .. n : ss[i].marks = streams[selected[i]].marks
  <2>1. \A s : StreamEntry(s).marks = streams[s].marks
    BY StreamEntryIs
  <2> QED BY <1>1, <2>1
<1>4. DOMAIN f = 1 .. n /\ \A i \in 1 .. n : f[i] = DOMAIN streams[selected[i]].marks
  BY <1>1, <1>3
<1> HIDE DEF f
<1> SUFFICES ASSUME NEW x \in Pairs(f), NEW y \in Pairs(f), ss[x[1]].marks[x[2]].id = ss[y[1]].marks[y[2]].id
             PROVE  x = y
  BY DEF IdsAreDistinct, f, ss
<1>5. /\ x = <<x[1], x[2]>> /\ x[1] \in DOMAIN f /\ x[2] \in f[x[1]]
      /\ y = <<y[1], y[2]>> /\ y[1] \in DOMAIN f /\ y[2] \in f[y[1]]
  BY PairsAre
<1> DEFINE s == selected[x[1]]
           t == selected[y[1]]
<1>6. x[1] \in 1 .. n /\ y[1] \in 1 .. n /\ s \in Streams /\ t \in Streams
  BY <1>2, <1>4, <1>5
<1>7. /\ x[2] \in DOMAIN streams[s].marks /\ y[2] \in DOMAIN streams[t].marks
      /\ streams[s].marks[x[2]].id = streams[t].marks[y[2]].id
  BY <1>3, <1>4, <1>5, <1>6
<1>8. s = t /\ x[2] = y[2]
  <2> HIDE DEF s, t
  <2> QED BY <1>6, <1>7 DEF SourceInv, StreamsSound
<1>9. x[1] = y[1]
  BY <1>2, <1>6, <1>8
<1> QED BY <1>5, <1>8, <1>9

(* The control section read from the source passes validate_control.       *)
LEMMA ControlSectionIsValid ==
    ASSUME SourceInv, phase # "Open", Len(selected) <= MaxStreams
    PROVE  ControlIsValid(Document, ControlSection)
<1> DEFINE c == ControlSection
           d == Document
           n == Len(selected)
<1>1. /\ c.cluster = "source" /\ c.export = "export" /\ c.cut = fencedAt[0] /\ c.revision = CatalogRevision
      /\ c.maxStreams = Cardinality(Streams) /\ c.groups = Ascending(DataGroups)
      /\ DOMAIN c.streams = 1 .. n
      /\ \A i \in 1 .. n : c.streams[i] = StreamEntry(selected[i])
      /\ Range(c.streams) = {StreamEntry(s) : s \in Range(selected)}
  BY ControlIs
<1>2. d.cluster = "source" /\ d.export = "export" /\ d.selected = selected /\ d.cut = fencedAt
  BY DocumentIs
<1>3. /\ selected \in Seq(Nat) /\ DOMAIN selected = 1 .. n /\ n \in Nat /\ n > 0 /\ IsStrict(selected)
      /\ Range(selected) \subseteq Streams /\ Range(selected) # {}
      /\ n = Cardinality(Range(selected))
      /\ \A i, j \in 1 .. n : selected[i] = selected[j] => i = j
      /\ \A s \in Range(selected) : s \in Streams /\ \E i \in 1 .. n : selected[i] = s
      /\ \A i \in 1 .. n : streams[selected[i]].active
  BY SelectedIs
<1>4. GroupsOf(fencedAt) = Ascending(DataGroups)
  BY GroupsOfCut
<1>5. n <= Cardinality(Streams)
  <2>1. IsFiniteSet(Streams)
    BY LogicalExportAssumption
  <2> QED BY <1>3, <2>1, FS_Subset
<1>6. selected # <<>>
  BY <1>3
<1>7. Ascending(DataGroups) # <<>>
  <2>1. PICK s \in Range(selected) : s \in Streams
    BY <1>3
  <2>2. 1 \in DOMAIN Placements[s] /\ Placements[s][1].group \in DataGroups
    <3>1. DOMAIN Placements[s] = 1 .. Len(Placements[s]) /\ Len(Placements[s]) \in Nat /\ Len(Placements[s]) > 0
      BY <2>1, PlacementsAre
    <3>2. 1 \in DOMAIN Placements[s]
      BY <3>1
    <3> QED BY <2>1, <3>2, PlacementsAre
  <2>3. PICK i \in 1 .. GroupCount : Ascending(DataGroups)[i] = Placements[s][1].group
    BY <2>2, Sizes
  <2>4. Len(Ascending(DataGroups)) = GroupCount /\ GroupCount \in Nat
    BY Sizes
  <2>5. Len(Ascending(DataGroups)) > 0
    BY <2>4
  <2> QED BY <2>5
<1>8. [i \in DOMAIN c.streams |-> c.streams[i].stream] = selected
  <2>0. \A s : StreamEntry(s).stream = s
    BY StreamEntryIs
  <2>1. \A i \in 1 .. n : c.streams[i].stream = selected[i]
    BY <1>1, <2>0
  <2>2. selected = [i \in 1 .. n |-> selected[i]]
    BY <1>3
  <2> HIDE DEF c, n
  <2> QED BY <1>1, <2>1, <2>2
<1>9. c.revision # 0 /\ \A s \in Range(c.streams) : s.revision <= c.revision
  <2>1. streams \in [Streams -> StreamStates] /\ Streams # {}
    BY <1>3 DEF SourceInv, SourceTyped
  <2>2. /\ CatalogRevision \in Nat /\ \A s \in Streams : streams[s].revision <= CatalogRevision
        /\ \E s \in Streams : CatalogRevision = streams[s].revision
    BY <2>1, RevisionIs
  <2>3. \A s \in Streams : streams[s].revision # 0
    BY DEF SourceInv, StreamsSound
  <2>4. \A s \in Range(selected) : StreamEntry(s).revision <= CatalogRevision
    BY <1>3, <2>2, StreamEntryIs
  <2> QED BY <1>1, <2>2, <2>3, <2>4
<1>10. Distinct([i \in DOMAIN c.streams |-> c.streams[i].name])
  <2> DEFINE names == [i \in DOMAIN c.streams |-> c.streams[i].name]
  <2>0. \A s : StreamEntry(s).name = s
    BY StreamEntryIs
  <2>1. \A i \in 1 .. n : c.streams[i].name = selected[i]
    BY <1>1, <2>0
  <2> HIDE DEF c, n
  <2>2. DOMAIN names = 1 .. n /\ \A i \in 1 .. n : names[i] = selected[i]
    BY <1>1, <2>1
  <2> HIDE DEF names
  <2>3. Distinct(names)
    BY <1>3, <2>2 DEF Distinct
  <2> QED BY <2>3 DEF names
<1>11. ASSUME NEW e \in Range(c.streams)
       PROVE  /\ e.cluster = d.cluster /\ e.active /\ e.placements # <<>>
              /\ IsStrict([i \in DOMAIN e.placements |-> e.placements[i].partition])
              /\ IsStrict(e.ready)
              /\ Range(e.ready) = {p.group : p \in Range(e.placements)}
              /\ Range(e.ready) \subseteq Range(c.groups)
              /\ StreamMarksAreValid(e)
  <2>1. PICK s \in Range(selected) : e = StreamEntry(s)
    BY <1>1
  <2>2. s \in Streams /\ streams[s].active
    BY <1>3
  <2>3. Range(c.groups) = DataGroups
    BY <1>1, Sizes
  <2> HIDE DEF c, d
  <2> QED BY <1>2, <2>1, <2>2, <2>3, StreamEntryIsValid
<1>12. IdsAreDistinct(c.streams)
  BY StreamIdsAreDistinct
<1> HIDE DEF c, d, n
<1>13. c.cluster = d.cluster /\ c.export = d.export /\ c.cut = d.cut[0]
  BY <1>1, <1>2
<1>14. d.selected # <<>> /\ IsStrict(d.selected)
  BY <1>2, <1>3, <1>6
<1>15. c.maxStreams >= Len(d.selected) /\ Len(d.selected) <= MaxStreams
  <2>1. Cardinality(Streams) \in Nat
    BY LogicalExportAssumption, FS_CardinalityType
  <2> QED BY <1>1, <1>2, <1>3, <1>5, <2>1 DEF n
<1>16. c.groups = GroupsOf(d.cut) /\ c.groups # <<>>
  BY <1>1, <1>2, <1>4, <1>7
<1>17. [i \in DOMAIN c.streams |-> c.streams[i].stream] = d.selected
  BY <1>2, <1>8
<1>18. ControlIsValid(d, c)
  BY <1>9, <1>10, <1>11, <1>12, <1>13, <1>14, <1>15, <1>16, <1>17 DEF ControlIsValid
<1> QED BY <1>18 DEF c, d

(* The data sections pass finish_validation: nothing is missing and stream *)
(* bookmarks point inside their partitions, although the control group was *)
(* fenced before the data groups.                                          *)
LEMMA DataSectionsAreComplete ==
    ASSUME SourceInv, phase # "Open"
    PROVE  DataIsComplete(ControlSection, DataSections)
<1> DEFINE c == ControlSection
           data == DataSections
           K == {Key(PartitionAt(data, x)) : x \in Places(data)}
           L == {<<z[1], z[2]>> : z \in Placed(c)}
<1>1. /\ \A x \in Places(data) : \E p \in Chosen : PartitionAt(data, x) = PartitionEntry(p)
      /\ \A p \in Chosen : \E x \in Places(data) : PartitionAt(data, x) = PartitionEntry(p)
      /\ \A x, y \in Places(data) : Key(PartitionAt(data, x)) = Key(PartitionAt(data, y)) => x = y
  BY DeliveredOnce
<1>2. Placed(c) = {<<p[1], p[2], GroupOf(p)>> : p \in Chosen}
  BY PlacedIs
<1>3. \A p \in Chosen : Key(PartitionEntry(p)) = <<p[1], p[2]>> /\ p = <<p[1], p[2]>>
  BY PartitionEntryIs, PartsAre DEF Chosen
<1>4. Range(c.streams) = {StreamEntry(s) : s \in Range(selected)} /\ Range(selected) \subseteq Streams
  BY ControlIs, SelectedIs
<1> HIDE DEF c, data
<1>5. L = Chosen
  <2> DEFINE z(p) == <<p[1], p[2], GroupOf(p)>>
  <2>1. \A p \in Chosen : z(p)[1] = p[1] /\ z(p)[2] = p[2] /\ z(p) \in Placed(c)
    BY <1>2
  <2>2. Placed(c) = {z(p) : p \in Chosen}
    BY <1>2
  <2> HIDE DEF z
  <2>3. \A p \in Chosen : <<z(p)[1], z(p)[2]>> = p
    BY <1>3, <2>1
  <2>4. L = {<<z(p)[1], z(p)[2]>> : p \in Chosen}
    BY <2>2
  <2> QED BY <2>3, <2>4
<1>6. K = Chosen
  <2>1. K \subseteq Chosen
    BY <1>1, <1>3
  <2>2. ASSUME NEW p \in Chosen PROVE p \in K
    <3>1. PICK x \in Places(data) : PartitionAt(data, x) = PartitionEntry(p)
      BY <1>1
    <3>2. Key(PartitionAt(data, x)) = p
      BY <1>3, <3>1
    <3> QED BY <3>2
  <2> QED BY <2>1, <2>2
<1>7. ASSUME NEW e \in Range(c.streams), NEW b \in Range(e.marks), NEW i \in DOMAIN b.positions
      PROVE  \E x \in Places(data) :
                /\ Key(PartitionAt(data, x)) = <<e.stream, e.placements[i].partition>>
                /\ b.positions[i] <= PartitionAt(data, x).tail
  <2>1. PICK s \in Range(selected) : e = StreamEntry(s)
    BY <1>4
  <2>2. s \in Streams
    BY <1>4
  <2>3. e.stream = s /\ e.placements = Placements[s] /\ e.marks = streams[s].marks
    BY <2>1, StreamEntryIs
  <2>4. PICK j \in DOMAIN streams[s].marks : b = streams[s].marks[j]
    BY <2>3 DEF Range
  <2>5. /\ Len(b.positions) = Len(Placements[s]) /\ b.positions \in Seq(Nat)
        /\ \A k \in DOMAIN Placements[s] : b.positions[k] <= TailIn(parts, PlaceOf(s, k))
    <3>1. streams \in [Streams -> StreamStates]
      BY DEF SourceInv, SourceTyped
    <3>2. streams[s].marks[j].positions \in Seq(Nat)
      BY <2>2, <3>1, StreamMarksTyped
    <3> QED BY <2>2, <2>4, <3>2, StreamOf
  <2>6. i \in DOMAIN Placements[s]
    <3>1. DOMAIN b.positions = 1 .. Len(b.positions)
      BY <2>5
    <3>2. DOMAIN Placements[s] = 1 .. Len(Placements[s])
      BY <2>2, PlacementsAre
    <3> QED BY <2>5, <3>1, <3>2
  <2> DEFINE p == PlaceOf(s, i)
  <2>7. p \in Parts /\ p[1] = s /\ p = <<s, Placements[s][i].partition>>
    BY <2>2, <2>6, PartsAre DEF PlaceOf
  <2>8. b.positions[i] <= TailIn(parts, p)
    BY <2>5, <2>6
  <2> HIDE DEF p
  <2>9. p \in Chosen
    BY <2>7 DEF Chosen
  <2>10. PICK x \in Places(data) : PartitionAt(data, x) = PartitionEntry(p)
    BY <1>1, <2>9
  <2>11. Key(PartitionAt(data, x)) = p /\ PartitionAt(data, x).tail = TailIn(parts, p)
    BY <1>3, <2>9, <2>10, PartitionEntryIs
  <2> QED BY <2>3, <2>7, <2>8, <2>10, <2>11
<1>8. DataIsComplete(c, data)
  BY <1>1, <1>5, <1>6, <1>7 DEF DataIsComplete
<1> QED BY <1>8 DEF c, data

\* Whatever the groups have applied before the cut, an export that is within
\* its limits passes every rule of the format.
LEMMA CutIsCanonical ==
    ASSUME SourceInv, phase # "Open", WithinBudget(Document, ControlSection, DataSections)
    PROVE  Exportable(Document, DataSections)
<1>1. Len(selected) <= MaxStreams
  <2>1. Document.selected = selected /\ Len(ControlSection.streams) = Len(selected) /\ Len(selected) \in Nat
    BY DocumentIs, ControlIs, SelectedIs
  <2>2. Len(selected) + Len(selected) <= MaxStreams
    BY <2>1 DEF WithinBudget, StreamsCharged
  <2> QED BY <2>1, <2>2, LogicalExportAssumption
<1>2. ControlIsValid(Document, ControlSection)
  BY <1>1, ControlSectionIsValid
<1>3. /\ Document.cut = fencedAt /\ Document.control = ControlSection
      /\ GroupsOf(fencedAt) = Ascending(DataGroups) /\ Cardinality(DOMAIN fencedAt) - 1 = GroupCount
  BY DocumentIs, GroupsOfCut
<1>4. /\ Len(DataSections) = GroupCount /\ DOMAIN DataSections = 1 .. GroupCount
      /\ \A i \in 1 .. GroupCount : DataSections[i] = DataSection(Ascending(DataGroups)[i])
      /\ \A i \in 1 .. GroupCount : Ascending(DataGroups)[i] \in DataGroups
  BY SectionsAre, Sizes
<1>5. \A i \in DOMAIN DataSections :
        DataIsValid(Document, ControlSection, GroupsOf(Document.cut)[i], DataSections[i])
  BY <1>3, <1>4, SectionIsValid
<1>6. DataIsComplete(ControlSection, DataSections)
  BY DataSectionsAreComplete
<1>7. DocumentIsValid(Document, DataSections)
  BY <1>2, <1>3, <1>4, <1>5, <1>6 DEF DocumentIsValid
<1> QED BY <1>3, <1>7 DEF Exportable

(***************************************************************************)
(* The verifier accepts what write_v1 leaves behind.                       *)
(***************************************************************************)

\* A manifest carries what the sections are held to.
SameContext(m, d) ==
    m.cluster = d.cluster /\ m.export = d.export /\ m.selected = d.selected /\ m.cut = d.cut

(* The verifier, which has the manifest, holds the sections to the same    *)
(* rules as the writer, which has the document.                            *)
LEMMA ContextIsKept ==
    ASSUME NEW m, NEW d, SameContext(m, d), NEW c, NEW data
    PROVE  /\ ControlIsValid(d, c) => ControlIsValid(m, c)
           /\ \A g, s : DataIsValid(d, c, g, s) => DataIsValid(m, c, g, s)
           /\ WithinBudget(d, c, data) => WithinBudget(m, c, data)
           /\ Totals(m, c, data) = Totals(d, c, data)
<1>1. m.cluster = d.cluster /\ m.export = d.export /\ m.selected = d.selected /\ m.cut = d.cut
  BY DEF SameContext
<1>2. ControlIsValid(d, c) => ControlIsValid(m, c)
  BY <1>1 DEF ControlIsValid
<1>3. ASSUME NEW p, PartitionIsValid(d, p) PROVE PartitionIsValid(m, p)
  BY <1>1, <1>3 DEF PartitionIsValid
<1>4. ASSUME NEW g, NEW s, DataIsValid(d, c, g, s) PROVE DataIsValid(m, c, g, s)
  BY <1>1, <1>3, <1>4 DEF DataIsValid
<1>5. WithinBudget(d, c, data) => WithinBudget(m, c, data)
  BY <1>1 DEF WithinBudget, StreamsCharged
<1>6. Totals(m, c, data) = Totals(d, c, data)
  BY <1>1 DEF Totals
<1> QED BY <1>2, <1>4, <1>5, <1>6

(* All but the last part of a file, and the last.                          *)
LEMMA FrontOf ==
    ASSUME NEW f, NEW k \in Nat, DOMAIN f = 1 .. k + 1, Len(f) = k + 1
    PROVE  Front(f) = [i \in 1 .. k |-> f[i]] /\ Last(f) = f[k + 1]
<1>1. Len(f) - 1 = k
  OBVIOUS
<1>2. Front(f) = SubSeq(f, 1, k)
  BY <1>1 DEF Front
<1>3. SubSeq(f, 1, k) = [i \in 1 .. k |-> f[i]]
  OBVIOUS
<1> QED BY <1>2, <1>3 DEF Last

(* The fields of a frame.                                                  *)
LEMMA FrameIs ==
    ASSUME NEW d, NEW data, NEW i
    PROVE  /\ i = 1 => /\ Framed(d, data, i).kind = "Control" /\ Framed(d, data, i).group = 0
                       /\ Framed(d, data, i).items = Len(d.control.streams)
                       /\ Framed(d, data, i).sum = d.control /\ Framed(d, data, i).body = d.control
           /\ i # 1 => /\ Framed(d, data, i).kind = "DataGroup"
                       /\ Framed(d, data, i).group = data[i - 1].group
                       /\ Framed(d, data, i).items = Len(data[i - 1].partitions)
                       /\ Framed(d, data, i).sum = data[i - 1] /\ Framed(d, data, i).body = data[i - 1]
<1>1. CASE i = 1
  BY <1>1 DEF Framed, ControlFrame
<1>2. CASE i # 1
  <2> DEFINE g == data[i - 1]
  <2>1. Framed(d, data, i) = DataFrame(g)
    BY <1>2 DEF Framed
  <2> HIDE DEF g
  <2>2. /\ DataFrame(g).kind = "DataGroup" /\ DataFrame(g).group = g.group
        /\ DataFrame(g).items = Len(g.partitions) /\ DataFrame(g).sum = g /\ DataFrame(g).body = g
    BY DEF DataFrame
  <2> QED BY <1>2, <2>1, <2>2 DEF g
<1> QED BY <1>1, <1>2

(* The verifier accepts what write_v1 leaves behind for a valid document   *)
(* within the limits.                                                      *)
LEMMA WrittenVerifies ==
    ASSUME NEW d, NEW data, NEW n \in Nat, NEW f, IsWritten(f, d, data, n), DOMAIN data = 1 .. n,
           data = [i \in 1 .. n |-> data[i]], Cardinality(DOMAIN d.cut) = n + 1,
           Len(d.selected) \in Nat, Len(d.control.streams) \in Nat,
           PartitionsCharged(d.control, data) <= MaxPartitions,
           Cardinality(Places(data)) <= PartitionsCharged(d.control, data),
           Cardinality(Places(data)) \in Nat, PartitionsCharged(d.control, data) \in Nat,
           DocumentIsValid(d, data), WithinBudget(d, d.control, data)
    PROVE  Verified(f)
<1> DEFINE m == f[n + 3]
           c == d.control
<1>1. /\ DOMAIN f = 1 .. n + 4 /\ Len(f) = n + 4 /\ f[1] = Prologue
      /\ \A i \in 1 .. n + 1 : f[i + 1] = Framed(d, data, i)
      /\ m.kind = "Manifest" /\ SameContext(m, d)
      /\ Len(m.sections) = n + 1 /\ DOMAIN m.sections = 1 .. n + 1
      /\ \A i \in 1 .. n + 1 : m.sections[i] = Descriptor(Framed(d, data, i), i - 1)
      /\ m.totals = Totals(d, c, data)
      /\ f[n + 4].kind = "Trailer" /\ f[n + 4].manifest = n + 3 /\ f[n + 4].length = n + 4
      /\ f[n + 4].sum = [i \in 1 .. n + 3 |-> f[i]]
  BY DEF IsWritten, SameContext
<1>2. /\ ControlIsValid(d, c) /\ \A i \in 1 .. n : DataIsValid(d, c, GroupsOf(d.cut)[i], data[i])
      /\ DataIsComplete(c, data)
  BY DEF DocumentIsValid
<1>3. m.cut = d.cut /\ m.selected = d.selected
  BY <1>1 DEF SameContext
<1>4. /\ ControlIsValid(m, c) /\ \A i \in 1 .. n : DataIsValid(m, c, GroupsOf(m.cut)[i], data[i])
      /\ WithinBudget(m, c, data) /\ m.totals = Totals(m, c, data)
  <2> HIDE DEF m, c
  <2>1. c = d.control /\ WithinBudget(d, c, data)
    BY DEF c
  <2> QED BY <1>1, <1>2, <1>3, <2>1, ContextIsKept
<1> HIDE DEF m, c
<1>5. TrailerFits(f) /\ Last(f).sum = Front(f)
  <2>1. n + 4 >= 4 /\ (n + 3) + 1 = n + 4 /\ n + 3 \in Nat /\ (n + 4) - 1 = n + 3
    OBVIOUS
  <2>2. Front(f) = [i \in 1 .. n + 3 |-> f[i]] /\ Last(f) = f[n + 4]
    <3> DEFINE k == n + 3
    <3>1. k \in Nat /\ DOMAIN f = 1 .. k + 1 /\ Len(f) = k + 1 /\ k + 1 = n + 4
      BY <1>1, <2>1
    <3> HIDE DEF k
    <3>2. Front(f) = [i \in 1 .. k |-> f[i]] /\ Last(f) = f[k + 1]
      BY <3>1, FrontOf
    <3> QED BY <3>1, <3>2 DEF k
  <2> QED BY <1>1, <2>1, <2>2 DEF TrailerFits, m
<1>6. f[Len(f) - 1] = m
  BY <1>1 DEF m
<1>7. ManifestIsValid(m)
  <2> DEFINE t == Totals(d, c, data)
  <2>1. /\ t.streams = Len(c.streams) /\ t.partitions = Cardinality(Places(data))
        /\ t.groups = Cardinality(DOMAIN d.cut) - 1
    BY DEF Totals
  <2>2. IsStrict(m.selected)
    BY <1>4 DEF ControlIsValid
  <2>3. Len(d.selected) + Len(c.streams) <= MaxStreams
    BY DEF WithinBudget, StreamsCharged, c
  <2> HIDE DEF t
  <2>4. t.streams <= MaxStreams
    <3> DEFINE a == Len(d.selected)
               b == Len(c.streams)
    <3>1. a \in Nat /\ b \in Nat /\ MaxStreams \in Nat /\ a + b <= MaxStreams
      BY <2>3, LogicalExportAssumption DEF c
    <3>2. t.streams = b
      BY <2>1
    <3> HIDE DEF a, b
    <3> QED BY ONLY <3>1, <3>2
  <2>5. t.partitions <= MaxPartitions
    BY <2>1, LogicalExportAssumption
  <2>6. m.totals = t
    BY <1>1 DEF t
  <2> QED BY <1>3, <2>1, <2>2, <2>4, <2>5, <2>6 DEF ManifestIsValid
<1>8. ControlOf(f) = c /\ Len(c.streams) = f[2].items
  <2>1. 1 \in 1 .. n + 1 /\ 1 + 1 = 2
    OBVIOUS
  <2>2. f[2] = Framed(d, data, 1)
    BY <1>1, <2>1
  <2> QED BY <2>2, FrameIs DEF ControlOf, c
<1>9. ASSUME NEW i \in 1 .. n PROVE f[i + 2].body = data[i] /\ Len(data[i].partitions) = f[i + 2].items
  <2>1. i + 1 \in 1 .. n + 1 /\ (i + 1) + 1 = i + 2 /\ (i + 1) - 1 = i /\ i + 1 # 1
    OBVIOUS
  <2>2. f[i + 2] = Framed(d, data, i + 1)
    BY <1>1, <2>1
  <2>3. Framed(d, data, i + 1).body = data[(i + 1) - 1] /\ Framed(d, data, i + 1).items = Len(data[(i + 1) - 1].partitions)
    BY <2>1, FrameIs
  <2> QED BY <2>1, <2>2, <2>3
<1>10. DataOf(f) = data
  <2>1. Len(f) - 4 = n
    BY <1>1
  <2>2. DataOf(f) = [i \in 1 .. n |-> f[i + 2].body]
    BY <2>1 DEF DataOf
  <2> QED BY <1>9, <2>2
<1>11. ASSUME NEW i \in 1 .. n + 1 PROVE SectionReads(f, m, i)
  <2> DEFINE x == Framed(d, data, i)
             e == m.sections[i]
  <2>1. f[i + 1] = x /\ e = Descriptor(x, i - 1)
    BY <1>1
  <2>2. /\ e.ordinal = i - 1 /\ e.at = (i - 1) + 2 /\ e.kind = x.kind /\ e.group = x.group
        /\ e.items = x.items /\ e.sum = x.sum
    <3> HIDE DEF x, e
    <3> QED BY <2>1 DEF Descriptor
  <2>3. (i - 1) + 2 = i + 1
    OBVIOUS
  <2>4. x.kind = (IF i = 1 THEN "Control" ELSE "DataGroup") /\ x.body = x.sum
    BY FrameIs
  <2>5. x.group = (IF i = 1 THEN 0 ELSE GroupsOf(m.cut)[i - 1])
    <3>1. CASE i = 1
      BY <3>1, FrameIs
    <3>2. CASE i # 1
      <4>1. i - 1 \in 1 .. n
        BY <3>2
      <4>2. data[i - 1].group = GroupsOf(m.cut)[i - 1]
        BY <1>4, <4>1 DEF DataIsValid
      <4>3. x.group = data[i - 1].group
        BY <3>2, FrameIs
      <4> QED BY <3>2, <4>2, <4>3
    <3> QED BY <3>1, <3>2
  <2> HIDE DEF x
  <2> QED BY <2>1, <2>2, <2>3, <2>4, <2>5 DEF SectionReads
<1>12. SectionsAreValid(f, m)
  <2>1. Len(m.sections) = Cardinality(DOMAIN m.cut) /\ Len(f) = Len(m.sections) + 3
    BY <1>1, <1>3
  <2>2. \A i \in DOMAIN m.sections : SectionReads(f, m, i)
    BY <1>1, <1>11
  <2>3. \A i \in DOMAIN DataOf(f) :
            /\ Len(DataOf(f)[i].partitions) = f[i + 2].items
            /\ DataIsValid(m, ControlOf(f), GroupsOf(m.cut)[i], DataOf(f)[i])
    BY <1>4, <1>8, <1>9, <1>10
  <2>4. /\ ControlIsValid(m, ControlOf(f)) /\ Len(ControlOf(f).streams) = f[2].items
        /\ DataIsComplete(ControlOf(f), DataOf(f)) /\ WithinBudget(m, ControlOf(f), DataOf(f))
        /\ m.totals = Totals(m, ControlOf(f), DataOf(f))
    BY <1>2, <1>4, <1>8, <1>10
  <2> QED BY <2>1, <2>2, <2>3, <2>4 DEF SectionsAreValid
<1> QED BY <1>1, <1>5, <1>6, <1>7, <1>12 DEF Verified

(* The budget counts finitely many partitions, those delivered among them. *)
LEMMA ChargesAreNumbers ==
    ASSUME SourceInv, phase # "Open"
    PROVE  /\ PartitionsCharged(ControlSection, DataSections) \in Nat
           /\ Cardinality(Places(DataSections)) \in Nat
           /\ Cardinality(Places(DataSections)) <= PartitionsCharged(ControlSection, DataSections)
<1> DEFINE c == ControlSection
           n == Len(selected)
           placed == [i \in DOMAIN c.streams |-> DOMAIN c.streams[i].placements]
           positions == [i \in DOMAIN c.streams |-> PositionsOf(c.streams[i])]
           places == [i \in DOMAIN DataSections |-> DOMAIN DataSections[i].partitions]
<1>1. DOMAIN c.streams = 1 .. n /\ \A i \in 1 .. n : c.streams[i] = StreamEntry(selected[i])
  BY ControlIs
<1>2. n \in Nat /\ \A i \in 1 .. n : selected[i] \in Streams
  BY SelectedIs
<1>3. \A k \in Nat : IsFiniteSet(1 .. k)
  BY FS_Interval
<1> HIDE DEF c
<1>4. ASSUME NEW s \in Streams PROVE IsFiniteSet(DOMAIN Placements[s]) /\ IsFiniteSet(PositionsOf(StreamEntry(s)))
  <2> DEFINE ms == streams[s].marks
             f == [j \in DOMAIN ms |-> DOMAIN ms[j].positions]
  <2>1. PositionsOf(StreamEntry(s)) = Pairs(f)
    <3>1. StreamEntry(s).marks = ms
      BY StreamEntryIs
    <3> QED BY <3>1 DEF PositionsOf
  <2>2. streams \in [Streams -> StreamStates]
    BY DEF SourceInv, SourceTyped
  <2>3. /\ DOMAIN ms = 1 .. Len(ms) /\ Len(ms) \in Nat
        /\ \A j \in DOMAIN ms : ms[j].positions \in Seq(Nat)
    BY <2>2, StreamMarksTyped
  <2> HIDE DEF ms
  <2>4. \A j \in DOMAIN ms : IsFiniteSet(DOMAIN ms[j].positions)
    <3> SUFFICES ASSUME NEW j \in DOMAIN ms PROVE IsFiniteSet(DOMAIN ms[j].positions)
      OBVIOUS
    <3> DEFINE q == ms[j].positions
    <3>1. q \in Seq(Nat)
      BY <2>3
    <3> HIDE DEF q
    <3>2. DOMAIN q = 1 .. Len(q) /\ Len(q) \in Nat
      BY <3>1
    <3>3. IsFiniteSet(DOMAIN q)
      BY <1>3, <3>2
    <3> QED BY <3>3 DEF q
  <2>5. IsFiniteSet(DOMAIN f) /\ \A j \in DOMAIN f : IsFiniteSet(f[j])
    BY <1>3, <2>3, <2>4
  <2> HIDE DEF f
  <2>6. IsFiniteSet(Pairs(f))
    BY <2>5, PairsAreFinite
  <2>7. DOMAIN Placements[s] = 1 .. Len(Placements[s]) /\ Len(Placements[s]) \in Nat
    BY PlacementsAre
  <2> QED BY <1>3, <2>1, <2>6, <2>7
<1>5. Cardinality(Pairs(placed)) \in Nat
  <2>1. \A s : StreamEntry(s).placements = Placements[s]
    BY StreamEntryIs
  <2>2. DOMAIN placed = 1 .. n /\ \A i \in 1 .. n : placed[i] = DOMAIN Placements[selected[i]]
    BY <1>1, <2>1
  <2> HIDE DEF placed, n
  <2>3. IsFiniteSet(DOMAIN placed) /\ \A i \in DOMAIN placed : IsFiniteSet(placed[i])
    BY <1>2, <1>3, <1>4, <2>2
  <2> QED BY <2>3, PairsAreFinite
<1>6. Cardinality(Pairs(positions)) \in Nat
  <2>1. DOMAIN positions = 1 .. n /\ \A i \in 1 .. n : positions[i] = PositionsOf(StreamEntry(selected[i]))
    BY <1>1
  <2> HIDE DEF positions, n
  <2>2. IsFiniteSet(DOMAIN positions) /\ \A i \in DOMAIN positions : IsFiniteSet(positions[i])
    BY <1>2, <1>3, <1>4, <2>1
  <2> QED BY <2>2, PairsAreFinite
<1>7. Cardinality(Pairs(places)) \in Nat
  <2>1. /\ DOMAIN DataSections = 1 .. GroupCount /\ GroupCount \in Nat
        /\ \A i \in 1 .. GroupCount : DataSections[i] = DataSection(Ascending(DataGroups)[i])
    BY Sizes, SectionsAre
  <2>2. \A g : DOMAIN DataSection(g).partitions = 1 .. Len(Planned(g)) /\ Len(Planned(g)) \in Nat
    BY SectionIs, PlannedLists
  <2>3. DOMAIN places = 1 .. GroupCount /\ \A i \in 1 .. GroupCount : IsFiniteSet(places[i])
    BY <1>3, <2>1, <2>2
  <2> HIDE DEF places
  <2>4. IsFiniteSet(DOMAIN places)
    BY <1>3, <2>1, <2>3
  <2> QED BY <2>3, <2>4, PairsAreFinite
<1>8. Cardinality(Places(DataSections)) = Cardinality(Pairs(places))
  BY DEF Places
<1> DEFINE a == Cardinality(Pairs(placed))
           b == Cardinality(Pairs(positions))
           e == Cardinality(Places(DataSections))
<1>9. PartitionsCharged(c, DataSections) = a + b + e
  BY DEF PartitionsCharged
<1>10. a \in Nat /\ b \in Nat /\ e \in Nat
  BY <1>5, <1>6, <1>7, <1>8
<1> HIDE DEF a, b, e
<1>11. a + b + e \in Nat /\ e <= a + b + e
  BY ONLY <1>10
<1> QED BY <1>9, <1>10, <1>11 DEF c, e

\* The file as it was written is accepted.
LEMMA WholeIsAccepted ==
    ASSUME SourceInv, phase # "Open", Exportable(Document, DataSections),
           image = Written(Document, DataSections)
    PROVE  Accepted(Whole)
<1>1. IsWritten(image, Document, DataSections, GroupCount)
  BY WrittenIsThere
<1>2. /\ DOMAIN DataSections = 1 .. GroupCount /\ GroupCount \in Nat
      /\ DataSections = [i \in 1 .. GroupCount |-> DataSections[i]]
      /\ Document.control = ControlSection
  BY Sizes, SectionsAre
<1>3. Cardinality(DOMAIN Document.cut) = GroupCount + 1
  BY DocumentIs, GroupsOfCut, Sizes
<1>4. Len(Document.selected) \in Nat /\ Len(Document.control.streams) \in Nat
  BY DocumentIs, SelectedIs, ControlIs
<1>5. DocumentIsValid(Document, DataSections) /\ WithinBudget(Document, Document.control, DataSections)
  BY DEF Exportable
<1>6. PartitionsCharged(Document.control, DataSections) <= MaxPartitions
  BY <1>5 DEF WithinBudget
<1>7. Verified(image)
  BY <1>1, <1>2, <1>3, <1>4, <1>5, <1>6, ChargesAreNumbers, WrittenVerifies
<1>8. Contents(Whole) = image
  <2>1. DOMAIN Whole = 1 .. GroupCount + 4 /\ \A i \in 1 .. GroupCount + 4 : Whole[i] = i
    BY WholeIs
  <2>2. \A i \in 1 .. GroupCount + 4 : i > 0
    BY <1>2
  <2>3. Contents(Whole) = [i \in 1 .. GroupCount + 4 |-> image[i]]
    BY <2>1, <2>2 DEF Contents
  <2> QED BY <1>1, <2>3 DEF IsWritten
<1> QED BY <1>7, <1>8, WholeIs DEF Accepted

\* A materialization starts without a ready file, and fails only over a limit.
TaskInv ==
    /\ task.state = "running" => ready = NoFile
    /\ task.state = "failed" \/ phase = "Aborted" =>
        ~WithinBudget(Document, ControlSection, DataSections)

(* Every step keeps the materialization sound.                             *)
LEMMA TaskStep ==
    ASSUME SourceInv, SpoolInv, TaskInv, [LogicalNext]_logicalVars
    PROVE  TaskInv'
<1> DEFINE fits == WithinBudget(Document, ControlSection, DataSections)
<1>0. NoTask.state = "none"
  BY DEF NoTask
<1>1. ASSUME UNCHANGED <<parts, streams, fencedAt, selected>> PROVE fits' = fits
  BY <1>1, CutStays
<1>2. ASSUME CoordinatorSteps PROVE fits' = fits /\ phase # "Open"
  <2>1. UNCHANGED <<parts, streams, fencedAt, selected>>
    BY <1>2, SourceIsLeftAlone DEF CoordinatorSteps
  <2>2. Frozen
    BY <1>2, FrozenStays
  <2> QED BY <1>1, <2>1, <2>2 DEF Frozen
<1>3. CASE RecoverReady
  <2>1. phase \in {"Materializing", "Available"} /\ task = NoTask
    BY <1>3 DEF RecoverReady, Rebuildable
  <2>2. CASE phase' = "Available" /\ UNCHANGED spool
    BY <1>0, <2>1, <2>2 DEF TaskInv, spool
  <2>3. CASE task' = [state |-> "running", result |-> NoFile] /\ ready' = NoFile /\ phase' = phase
    BY <2>1, <2>3 DEF TaskInv
  <2> QED BY <1>3, <2>2, <2>3 DEF RecoverReady
<1>4. CASE WriteArtifact
  <2>1. task.state = "running" /\ UNCHANGED <<phase, ready>>
    BY <1>4 DEF WriteArtifact, source
  <2>2. ready = NoFile /\ fits' = fits /\ phase # "Open"
    BY <1>2, <1>4, <2>1 DEF TaskInv, CoordinatorSteps
  <2>3. CASE Exportable(Document, DataSections)
    <3>1. task' = task
      BY <1>4, <2>2, <2>3 DEF WriteArtifact
    <3> QED BY <2>1, <2>2, <3>1 DEF TaskInv
  <2>4. CASE ~Exportable(Document, DataSections)
    <3>1. task' = [state |-> "failed", result |-> NoFile]
      BY <1>4, <2>4 DEF WriteArtifact
    <3>2. ~fits
      BY <2>2, <2>4, CutIsCanonical
    <3> QED BY <2>1, <2>2, <3>1, <3>2 DEF TaskInv
  <2> QED BY <2>3, <2>4
<1>5. CASE PublishReady
  <2>1. task.state = "running" /\ building # NoFile /\ UNCHANGED phase
    BY <1>5 DEF PublishReady, source
  <2>2. /\ building = Whole /\ image = Written(Document, DataSections)
        /\ Exportable(Document, DataSections) /\ fits' = fits /\ phase # "Open"
    BY <1>2, <1>5, <2>1 DEF SpoolInv, CoordinatorSteps
  <2>3. Accepted(building)
    BY <2>2, WholeIsAccepted
  <2>4. task' = [state |-> "finished", result |-> Identity(building)]
    BY <1>5, <2>3 DEF PublishReady
  <2> QED BY <2>1, <2>2, <2>4 DEF TaskInv
<1>6. CASE JoinTask
  <2>1. task' = NoTask /\ (phase' = "Aborted" => task.state = "failed") /\ fits' = fits
    BY <1>2, <1>6 DEF JoinTask, CoordinatorSteps, Rebuildable
  <2> QED BY <1>0, <2>1 DEF TaskInv
<1>7. CASE CancelTask \/ CrashServer
  <2>1. task' = NoTask /\ phase' = phase /\ phase # "Aborted"
    BY <1>7 DEF CancelTask, CrashServer, Rebuildable, source
  <2> QED BY <1>0, <2>1 DEF TaskInv
<1>8. CASE DamageReady
  <2>1. ready = Whole /\ UNCHANGED <<task, phase>> /\ fits' = fits
    BY <1>2, <1>8 DEF DamageReady, CoordinatorSteps, source
  <2>2. task.state # "running"
    BY <2>1, WholeIs DEF TaskInv
  <2> QED BY <2>1, <2>2 DEF TaskInv
<1>9. CASE DownloadChunk \/ CheckDownload \/ Restoring \/ UNCHANGED logicalVars
  <2>1. UNCHANGED <<source, spool>>
    BY <1>9 DEF DownloadChunk, CheckDownload, Restoring, StartRestore, ImportSection, PublishRestore,
                CrashRestore, DamageInput, logicalVars
  <2>2. UNCHANGED <<task, ready, phase, parts, streams, fencedAt, selected>>
    BY <2>1 DEF source, spool
  <2> QED BY <1>1, <2>2 DEF TaskInv
<1>10. ASSUME ~Frozen, UNCHANGED spool, phase' # "Aborted" PROVE TaskInv'
  <2>1. task = NoTask
    BY <1>10 DEF SpoolInv
  <2>2. task' = NoTask
    BY <1>10, <2>1 DEF spool
  <2> QED BY <1>0, <1>10, <2>2 DEF TaskInv
<1>11. ASSUME NEW g, Applies(g) PROVE TaskInv'
  <2>1. ~Frozen /\ UNCHANGED spool /\ phase' # "Aborted"
    BY <1>11 DEF Applies, Frozen
  <2> QED BY <1>10, <2>1
<1>12. CASE Mutations
  BY <1>11, <1>12 DEF Mutations, Publish, CreateBookmark, DeleteBookmark, AdvanceFloor,
                      CreateStreamBookmark, DeleteStreamBookmark, ActivateStream
<1>13. ASSUME NEW sel \in SUBSET Streams, BeginExport(sel) PROVE TaskInv'
  <2>1. ~Frozen /\ UNCHANGED spool /\ phase' # "Aborted"
    BY <1>13 DEF BeginExport, Frozen
  <2> QED BY <1>10, <2>1
<1>14. ASSUME NEW g \in DataGroups, FenceGroup(g) PROVE TaskInv'
  <2>1. ~Frozen /\ UNCHANGED spool /\ phase' # "Aborted"
    BY <1>14 DEF FenceGroup, Frozen
  <2> QED BY <1>10, <2>1
<1> QED BY <1>3, <1>4, <1>5, <1>6, <1>7, <1>8, <1>9, <1>12, <1>13, <1>14 DEF LogicalNext, Exporting

(* Every cut within the limits of the format can be exported: what the     *)
(* materialization thread reads from the fenced groups always passes the   *)
(* rules of write_v1 and of the verifier, and no earlier step of the       *)
(* coordinator leaves a file in its way, so an export that is aborted was  *)
(* over a limit.                                                           *)
THEOREM EveryCutIsAlwaysExportable == LogicalSpec => []EveryCutIsExportable
<1>1. LogicalInit => SourceInv /\ SpoolInv /\ TaskInv
  <2>1. LogicalInit => TaskInv
    BY DEF LogicalInit, TaskInv, NoTask
  <2> QED BY <2>1, InitSource, InitSpool
<1>2. SourceInv /\ SpoolInv /\ TaskInv /\ [LogicalNext]_logicalVars => SourceInv' /\ SpoolInv' /\ TaskInv'
  BY SourceStep, SpoolStep, TaskStep
<1>3. TaskInv => EveryCutIsExportable
  BY DEF TaskInv, EveryCutIsExportable
<1> QED BY <1>1, <1>2, <1>3, PTL DEF LogicalSpec
=============================================================================
