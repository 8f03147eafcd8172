---------------------------- MODULE ServingProofs ----------------------------
(***************************************************************************)
(* Proofs about Serving, for every set of tasks, bootstrap policy and      *)
(* security mutations: the policy lease never goes back, what has been     *)
(* revoked is refused, a draining node is not ready, and the teardown      *)
(* finds the node quiet.                                                   *)
(***************************************************************************)
EXTENDS Serving, TLAPS

Pcs == {"idle", "asking", "read", "deciding", "writing", "abandoned", "renewing", "proposing"}
Kinds == {None, "call", "refresh", "append", "policy", "again"}

Task == [pc : Pcs, kind : Kinds, rev : Nat, rpc : Offered \cup {None},
         cred : Credentials \cup {None}, mutation : DOMAIN Mutations \cup {None}]

-----------------------------------------------------------------------------
(* The policies.                                                           *)

WellFormed(p) == IsPolicy(p) /\ \A t, u \in p.tokens : SameToken(t, u) => t = u

(* A credential that one policy revokes is revoked in all later ones.      *)
RevokedForGood ==
    \A i, j \in 1 .. Len(policies) : i <= j =>
        \A cred : Revoked(policies[i], cred) => Revoked(policies[j], cred)

PolicyInv ==
    /\ \E S : policies \in Seq(S)
    /\ Len(policies) # 0
    /\ \A i \in 1 .. Len(policies) : WellFormed(policies[i])
    /\ RevokedForGood
    /\ receipts \in [DOMAIN Mutations -> {Rejected} \cup 0 .. Len(policies)]

(* A change that a policy accepts keeps the policy well formed, and every  *)
(* revocation in it: the generation it adds is newer than all of its id.   *)
LEMMA SucceedingKeepsRevoked ==
    ASSUME NEW p, WellFormed(p), NEW m \in DOMAIN Mutations, Accepts(p, Mutations[m])
    PROVE  /\ WellFormed(Succeeding(p, Mutations[m].change))
           /\ \A cred : Revoked(p, cred) => Revoked(Succeeding(p, Mutations[m].change), cred)
<1> DEFINE c == Mutations[m].change
           q == Succeeding(p, c)
<1>1. /\ c.kind \in ChangeKinds
      /\ c.kind = "AddTokenGeneration" => IsToken(c.token)
  BY MutationsAssumption
<1>2. Possible(p, c) /\ Validate(q)
  BY DEF Accepts
<1>3. \A t, u \in q.tokens : SameToken(t, u) => t = u
  BY <1>2 DEF Validate
<1>4. DOMAIN q = {"revision", "grants", "tokens", "certificates"} /\ q.tokens = Changed(p, c).tokens
  BY <1>1 DEF Succeeding, Changed, ChangeKinds, WellFormed, IsPolicy
<1>5. CASE c.kind = "AddTokenGeneration"
  <2>1. q.tokens = p.tokens \cup {c.token}
    BY <1>4, <1>5 DEF Changed, WellFormed, IsPolicy
  <2> QED
    BY <1>1, <1>3, <1>4, <1>5, <2>1 DEF WellFormed, IsPolicy, Revoked
<1>6. CASE c.kind = "RevokeTokenGeneration"
  <2> DEFINE gone == {t \in p.tokens : SameToken(t, c.token)}
  <2>1. q.tokens = (p.tokens \ gone) \cup {[e EXCEPT !.status = "revoked"] : e \in gone}
    BY <1>4, <1>6 DEF Changed, Withdraw, WellFormed, IsPolicy
  <2>2. \A e \in gone : /\ IsToken([e EXCEPT !.status = "revoked"])
                        /\ [e EXCEPT !.status = "revoked"].id = e.id
                        /\ [e EXCEPT !.status = "revoked"].generation = e.generation
                        /\ [e EXCEPT !.status = "revoked"].status = "revoked"
    BY DEF WellFormed, IsPolicy, IsToken
  <2>3. \A t \in q.tokens : IsToken(t)
    BY <2>1, <2>2 DEF WellFormed, IsPolicy
  <2>4. ASSUME NEW cred, Revoked(p, cred) PROVE Revoked(q, cred)
    <3>1. PICK t \in p.tokens : SameToken(t, cred) /\ t.status = "revoked"
      BY <2>4 DEF Revoked
    <3>2. CASE t \in gone
      <4> DEFINE u == [t EXCEPT !.status = "revoked"]
      <4>1. u \in q.tokens /\ u.id = t.id /\ u.generation = t.generation /\ u.status = "revoked"
        BY <2>1, <2>2, <3>2
      <4> HIDE DEF u
      <4> QED BY <4>1, <3>1 DEF Revoked, SameToken
    <3> QED BY <2>1, <3>1, <3>2 DEF Revoked
  <2> QED BY <1>3, <1>4, <2>3, <2>4 DEF WellFormed, IsPolicy
<1>7. CASE c.kind \notin {"AddTokenGeneration", "RevokeTokenGeneration"}
  <2>1. q.tokens = p.tokens
    BY <1>1, <1>4, <1>7 DEF Changed, ChangeKinds, WellFormed, IsPolicy
  <2> QED BY <1>3, <1>4, <2>1 DEF WellFormed, IsPolicy, Revoked
<1> QED BY <1>5, <1>6, <1>7

(* A commit of the control group keeps what holds of the policies, and     *)
(* adds at most one.                                                       *)
LEMMA CommitsStep ==
    ASSUME PolicyInv, NEW m \in DOMAIN Mutations, Commits(m)
    PROVE  /\ PolicyInv'
           /\ Len(policies') >= Len(policies)
           /\ Outcome(m) \in {Rejected} \cup 1 .. Len(policies')
<1> DEFINE q == Succeeding(policies[Latest], Mutations[m].change)
<1>1. PICK S : policies \in Seq(S)
  BY DEF PolicyInv
<1>2. Len(policies) \in Nat \ {0}
  BY <1>1 DEF PolicyInv
<1>3. Outcome(m) \in {Rejected} \cup 1 .. Len(policies) + 1
  BY <1>2 DEF Outcome, PolicyInv, Rejected, Latest
<1>4. CASE Outcome(m) = Latest + 1
  <2>1. Accepts(policies[Latest], Mutations[m])
    BY <1>2, <1>4 DEF Outcome, PolicyInv, Rejected, Latest
  <2>2. WellFormed(q) /\ \A cred : Revoked(policies[Latest], cred) => Revoked(q, cred)
    BY <2>1, <1>2, SucceedingKeepsRevoked DEF PolicyInv, Latest
  <2> HIDE DEF q
  <2>3. policies' = Append(policies, q)
    BY <1>4 DEF Commits, q
  <2>4. policies \in Seq(S \cup {q})
    BY <1>1
  <2>5. /\ policies' \in Seq(S \cup {q}) /\ Len(policies') = Len(policies) + 1
        /\ \A i \in 1 .. Len(policies) : policies'[i] = policies[i]
        /\ policies'[Len(policies) + 1] = q
    BY <2>3, <2>4
  <2>6. \A i \in 1 .. Len(policies') : WellFormed(policies'[i])
    BY <1>2, <2>2, <2>5 DEF PolicyInv
  <2>7. ASSUME NEW i \in 1 .. Len(policies'), NEW j \in 1 .. Len(policies'), i <= j,
               NEW cred, Revoked(policies'[i], cred)
        PROVE  Revoked(policies'[j], cred)
    <3>1. CASE j \in 1 .. Len(policies)
      <4>1. i \in 1 .. Len(policies) /\ Revoked(policies[i], cred)
        BY <1>2, <2>5, <2>7, <3>1
      <4> QED BY <2>5, <2>7, <3>1, <4>1 DEF PolicyInv, RevokedForGood
    <3>2. CASE j = Len(policies) + 1 /\ i \in 1 .. Len(policies)
      <4>1. Revoked(policies[Len(policies)], cred)
        BY <1>2, <2>5, <2>7, <3>2 DEF PolicyInv, RevokedForGood
      <4> QED BY <2>2, <2>5, <3>2, <4>1 DEF Latest
    <3>3. CASE j = Len(policies) + 1 /\ i = Len(policies) + 1
      BY <2>7, <3>3
    <3> QED BY <1>2, <2>5, <3>1, <3>2, <3>3
  <2>8. receipts' \in [DOMAIN Mutations -> {Rejected} \cup 0 .. Len(policies')]
    BY <1>2, <1>3, <2>5 DEF Commits, PolicyInv
  <2> QED
    BY <1>2, <1>3, <2>5, <2>6, <2>7, <2>8 DEF PolicyInv, RevokedForGood
<1>5. CASE Outcome(m) # Latest + 1
  <2>1. policies' = policies /\ Outcome(m) \in {Rejected} \cup 1 .. Len(policies)
    BY <1>2, <1>3, <1>5 DEF Commits, Latest
  <2>2. receipts' \in [DOMAIN Mutations -> {Rejected} \cup 0 .. Len(policies')]
    BY <2>1 DEF Commits, PolicyInv
  <2> QED BY <1>2, <2>1, <2>2 DEF PolicyInv, RevokedForGood
<1> QED BY <1>4, <1>5
-----------------------------------------------------------------------------
(* The lease.                                                              *)

(* A task never holds a revision this node has not applied, and decides by *)
(* one the lease has caught up with.                                       *)
RevisionsAreKnown ==
    \A t \in Tasks :
        /\ tasks[t].pc \in {"read", "renewing"} => tasks[t].rev \in 1 .. applied
        /\ tasks[t].pc = "deciding" => tasks[t].rev <= lease.rev
        /\ tasks[t].pc = "asking" => tasks[t].rev = 0

LeaseInv ==
    /\ PolicyInv
    /\ tasks \in [Tasks -> Task]
    /\ lease \in [rev : Nat, age : Ages]
    /\ applied \in 1 .. Len(policies) /\ lease.rev \in 1 .. applied /\ acked \in 1 .. lease.rev
    /\ RevisionsAreKnown

LEMMA LenIsNat == ASSUME PolicyInv PROVE Len(policies) \in Nat \ {0}
BY DEF PolicyInv

LEMMA MaxOfTwo ==
    ASSUME NEW a \in Int, NEW b \in Int
    PROVE  Max({a, b}) = IF a >= b THEN a ELSE b
BY DEF Max

LEMMA IdleIsTask == Idle \in Task
BY DEF Idle, Task, Pcs, Kinds

LEMMA LeaseInit == Init => LeaseInv
<1> SUFFICES ASSUME Init PROVE LeaseInv
  OBVIOUS
<1>1. policies \in Seq({Bootstrap}) /\ Len(policies) = 1 /\ policies[1] = Bootstrap
  BY DEF Init
<1>2. WellFormed(Bootstrap)
  BY BootstrapAssumption DEF WellFormed, Validate
<1>3. PolicyInv
  <2>1. \A i \in 1 .. Len(policies) : i = 1
    BY <1>1
  <2>2. RevokedForGood
    BY <2>1 DEF RevokedForGood
  <2>3. receipts \in [DOMAIN Mutations -> {Rejected} \cup 0 .. Len(policies)]
    BY <1>1 DEF Init
  <2> QED BY <1>1, <1>2, <2>1, <2>2, <2>3 DEF PolicyInv
<1>4. tasks \in [Tasks -> Task] /\ \A t \in Tasks : tasks[t].pc = "idle"
  BY IdleIsTask DEF Init, Idle
<1> QED
  BY <1>1, <1>3, <1>4 DEF LeaseInv, RevisionsAreKnown, Init, Ages

(* A step of one task alone, which leaves it with a revision it may have.  *)
StepsTo(t, task) ==
    /\ task \in Task /\ tasks' = [tasks EXCEPT ![t] = task]
    /\ UNCHANGED <<policies, receipts>>
    /\ applied' \in applied .. Len(policies)
    /\ lease' \in [rev : Nat, age : Ages] /\ lease'.rev \in lease.rev .. applied'
    /\ acked' \in 1 .. lease'.rev
    /\ task.pc \in {"read", "renewing"} => task.rev \in 1 .. applied'
    /\ task.pc = "deciding" => task.rev <= lease'.rev
    /\ task.pc = "asking" => task.rev = 0

LEMMA OneTask ==
    ASSUME LeaseInv, NEW t \in Tasks, NEW task, StepsTo(t, task)
    PROVE  LeaseInv'
<1> USE DEF StepsTo
<1>0. Len(policies) \in Nat \ {0}
  BY LenIsNat DEF LeaseInv
<1>1. PolicyInv'
  BY DEF LeaseInv, PolicyInv, RevokedForGood
<1>2. tasks' \in [Tasks -> Task] /\ tasks'[t] = task
      /\ \A u \in Tasks \ {t} : tasks'[u] = tasks[u]
  BY DEF LeaseInv
<1>3. \A u \in Tasks : tasks[u].rev \in Nat
  BY DEF LeaseInv, Task
<1>4. RevisionsAreKnown'
  BY <1>0, <1>2, <1>3 DEF LeaseInv, RevisionsAreKnown
<1> QED
  BY <1>0, <1>1, <1>2, <1>4 DEF LeaseInv

(* Every step keeps the lease between what this node has acknowledged and  *)
(* what it has applied.                                                    *)
LEMMA LeaseStep == LeaseInv /\ [Next]_vars => LeaseInv'
<1> SUFFICES ASSUME LeaseInv, [Next]_vars PROVE LeaseInv'
  OBVIOUS
<1>0. /\ Len(policies) \in Nat \ {0} /\ tasks \in [Tasks -> Task]
      /\ lease \in [rev : Nat, age : Ages] /\ applied \in 1 .. Len(policies)
      /\ lease.rev \in 1 .. applied /\ acked \in 1 .. lease.rev
      /\ \A t \in Tasks : tasks[t].rev \in Nat
  BY LenIsNat DEF LeaseInv, Task
<1>i. Idle \in Task /\ Idle.pc = "idle" /\ Idle.rev = 0
  BY IdleIsTask DEF Idle
<1>e. ASSUME NEW t \in Tasks, End(t), UNCHANGED <<policies, receipts, applied, lease, acked>>
      PROVE  LeaseInv'
  <2>1. StepsTo(t, Idle)
    BY <1>e, <1>0, <1>i DEF End, StepsTo
  <2> QED BY <2>1, OneTask
<1>1. ASSUME NEW t \in Tasks, NEW kind \in {"call", "refresh"}, Begin(t, kind) PROVE LeaseInv'
  <2> DEFINE task == [Idle EXCEPT !.pc = "asking", !.kind = kind]
  <2>1. task \in Task /\ task.pc = "asking" /\ task.rev = 0
    BY <1>i DEF Idle, Task, Pcs, Kinds
  <2>2. tasks' = [tasks EXCEPT ![t] = task] /\ UNCHANGED <<policies, receipts, applied, lease, acked>>
    BY <1>1 DEF Begin, policy
  <2> HIDE DEF task
  <2>3. StepsTo(t, task)
    BY <1>0, <2>1, <2>2 DEF StepsTo
  <2> QED BY <2>3, OneTask
<1>2. ASSUME NEW t \in Tasks, ConfirmPolicy(t) PROVE LeaseInv'
  <2> DEFINE task == [tasks[t] EXCEPT !.pc = "read", !.rev = applied]
  <2>0. applied \in Nat /\ tasks[t] \in Task
    BY <1>0
  <2>1. task \in Task /\ task.pc = "read" /\ task.rev = applied
    BY <2>0 DEF Task, Pcs
  <2>2. tasks' = [tasks EXCEPT ![t] = task] /\ UNCHANGED <<policies, receipts, applied, lease, acked>>
    BY <1>2, <1>0 DEF ConfirmPolicy, policy
  <2> HIDE DEF task
  <2>3. StepsTo(t, task)
    BY <1>0, <2>1, <2>2 DEF StepsTo
  <2> QED BY <2>3, OneTask
<1>m. ASSUME NEW t \in Tasks, NEW pc \in Pcs, Move(t, pc),
             UNCHANGED <<policies, receipts, applied, acked>>,
             lease' \in [rev : Nat, age : Ages], lease'.rev \in lease.rev .. applied,
             pc \in {"abandoned"} \/ (pc = "deciding" /\ tasks[t].rev <= lease'.rev)
      PROVE  LeaseInv'
  <2> DEFINE task == [tasks[t] EXCEPT !.pc = pc]
  <2>1. task \in Task /\ task.pc = pc /\ task.rev = tasks[t].rev
    BY <1>0 DEF Task
  <2>2. tasks' = [tasks EXCEPT ![t] = task]
    BY <1>m, <1>0 DEF Move
  <2> HIDE DEF task
  <2>3. StepsTo(t, task)
    BY <1>0, <1>m, <2>1, <2>2 DEF StepsTo
  <2> QED BY <2>3, OneTask
<1>3. ASSUME NEW t \in Tasks, NotProved(t) PROVE LeaseInv'
  <2>1. tasks[t].rev = 0 /\ UNCHANGED <<policies, receipts, applied, lease, acked>>
    BY <1>3 DEF NotProved, policy, LeaseInv, RevisionsAreKnown
  <2>2. CASE Move(t, "deciding")
    BY <1>0, <1>m, <2>1, <2>2 DEF Pcs
  <2> QED BY <1>3, <1>e, <2>1, <2>2 DEF NotProved
<1>4. ASSUME NEW t \in Tasks, RenewPolicy(t) PROVE LeaseInv'
  <2>1. tasks[t].rev \in 1 .. applied /\ lease' = Renewed(tasks[t].rev)
        /\ UNCHANGED <<policies, receipts, applied>>
    BY <1>4 DEF RenewPolicy, policy, LeaseInv, RevisionsAreKnown
  <2>2. lease' \in [rev : Nat, age : Ages] /\ lease'.rev \in lease.rev .. applied
        /\ (~Conflicts(tasks[t].rev) => lease'.rev = tasks[t].rev)
    BY <1>0, <2>1 DEF Renewed, Conflicts, Ages
  <2>3. acked' \in acked .. lease'.rev
    BY <1>0, <1>4, <2>1, <2>2, MaxOfTwo DEF RenewPolicy, Conflicts
  <2>4. CASE End(t)
    <3>1. StepsTo(t, Idle)
      BY <1>0, <1>i, <2>1, <2>2, <2>3, <2>4 DEF End, StepsTo
    <3> QED BY <3>1, OneTask
  <2>5. CASE Move(t, "deciding") /\ ~Conflicts(tasks[t].rev)
    <3> DEFINE task == [tasks[t] EXCEPT !.pc = "deciding"]
    <3>1. task \in Task /\ task.pc = "deciding" /\ task.rev = tasks[t].rev
      BY <1>0 DEF Task, Pcs
    <3>2. tasks' = [tasks EXCEPT ![t] = task]
      BY <2>5, <1>0 DEF Move
    <3> HIDE DEF task
    <3>3. StepsTo(t, task)
      BY <1>0, <2>1, <2>2, <2>3, <2>5, <3>1, <3>2 DEF StepsTo
    <3> QED BY <3>3, OneTask
  <2> QED BY <1>4, <2>4, <2>5 DEF RenewPolicy
<1>5. ASSUME NEW t \in Tasks, Refuse(t) \/ Reauthorize(t) \/ ExportEnds(t) PROVE LeaseInv'
  BY <1>5, <1>e DEF Refuse, Reauthorize, ExportEnds, policy
<1>s. ASSUME NEW t \in Tasks, NEW m \in DOMAIN Mutations \cup {None},
             NEW pc \in {"writing", "proposing"}, Start(t, pc, m),
             UNCHANGED <<policies, receipts, applied, lease, acked>>
      PROVE  LeaseInv'
  <2> DEFINE task == [Idle EXCEPT !.pc = pc, !.mutation = m]
  <2>1. task \in Task /\ task.pc = pc
    BY <1>i DEF Idle, Task, Pcs
  <2>2. tasks' = [tasks EXCEPT ![t] = task]
    BY <1>s DEF Start
  <2> HIDE DEF task
  <2>3. StepsTo(t, task)
    BY <1>0, <1>s, <2>1, <2>2 DEF StepsTo
  <2> QED BY <2>3, OneTask
<1>6. ASSUME NEW t \in Tasks, NEW rpc \in Offered, NEW cred \in Credentials,
             NEW claimed \in Principals, Decide(t, rpc, cred, claimed)
      PROVE  LeaseInv'
  <2>1. UNCHANGED <<policies, receipts, applied, lease, acked>>
    BY <1>6 DEF Decide, policy
  <2>2. Operations[rpc] \in {"local", "read", "lookup", "write", "export", "policy", "security"}
    BY BootstrapAssumption, EveryRpcHasItsOperation
  <2>3. \/ End(t) \/ LookUp(t, rpc, cred) \/ ProposeExport(t)
        \/ tasks' = [tasks EXCEPT ![t] = [Idle EXCEPT !.pc = "asking", !.kind = "policy"]]
        \/ \E m \in DOMAIN Mutations \cup {None} : Propose(t, m)
    BY <1>6, <2>2 DEF Decide
  <2>4. CASE End(t)
    BY <1>e, <2>1, <2>4
  <2>5. CASE LookUp(t, rpc, cred)
    <3> DEFINE task == [Idle EXCEPT !.pc = "asking", !.kind = "again", !.rpc = rpc, !.cred = cred]
    <3>1. task \in Task /\ task.pc = "asking" /\ task.rev = 0
      BY <1>i DEF Idle, Task, Pcs, Kinds
    <3>2. tasks' = [tasks EXCEPT ![t] = task]
      BY <2>5 DEF LookUp
    <3> HIDE DEF task
    <3>3. StepsTo(t, task)
      BY <1>0, <2>1, <3>1, <3>2 DEF StepsTo
    <3> QED BY <3>3, OneTask
  <2>6. CASE ProposeExport(t)
    BY <1>e, <1>s, <2>1, <2>6 DEF ProposeExport
  <2>7. CASE tasks' = [tasks EXCEPT ![t] = [Idle EXCEPT !.pc = "asking", !.kind = "policy"]]
    <3> DEFINE task == [Idle EXCEPT !.pc = "asking", !.kind = "policy"]
    <3>1. task \in Task /\ task.pc = "asking" /\ task.rev = 0
      BY <1>i DEF Idle, Task, Pcs, Kinds
    <3>2. tasks' = [tasks EXCEPT ![t] = task]
      BY <2>7
    <3> HIDE DEF task
    <3>3. StepsTo(t, task)
      BY <1>0, <2>1, <3>1, <3>2 DEF StepsTo
    <3> QED BY <3>3, OneTask
  <2>8. ASSUME NEW m \in DOMAIN Mutations \cup {None}, Propose(t, m) PROVE LeaseInv'
    BY <1>e, <1>s, <2>1, <2>8 DEF Propose
  <2> QED BY <2>3, <2>4, <2>5, <2>6, <2>7, <2>8
<1>7. ASSUME NEW t \in Tasks, WriteEnds(t) PROVE LeaseInv'
  <2>1. CASE End(t) /\ UNCHANGED <<policies, receipts, applied>>
    BY <1>7, <1>e, <2>1 DEF WriteEnds
  <2>2. CASE ~(End(t) /\ UNCHANGED <<policies, receipts, applied>>)
    <3> DEFINE m == tasks[t].mutation
               task == [Idle EXCEPT !.pc = "renewing", !.rev = Outcome(m)]
    <3>1. /\ m \in DOMAIN Mutations /\ Commits(m) /\ applied' = Len(policies')
          /\ UNCHANGED <<lease, acked>>
          /\ \/ End(t)
             \/ Outcome(m) # Rejected /\ tasks' = [tasks EXCEPT ![t] = task]
      BY <1>0, <1>7, <2>2 DEF WriteEnds, Task
    <3>2. /\ PolicyInv' /\ Len(policies') >= Len(policies)
          /\ Outcome(m) \in {Rejected} \cup 1 .. Len(policies')
      BY <3>1, CommitsStep DEF LeaseInv
    <3>3. Len(policies') \in Nat \ {0}
      BY <3>2 DEF PolicyInv
    <3>4. CASE End(t)
      <4>1. tasks' \in [Tasks -> Task] /\ tasks'[t] = Idle
            /\ \A u \in Tasks \ {t} : tasks'[u] = tasks[u]
        BY <1>0, <1>i, <3>4 DEF End
      <4>2. RevisionsAreKnown'
        BY <1>0, <1>i, <3>1, <3>2, <3>3, <4>1 DEF LeaseInv, RevisionsAreKnown
      <4> QED BY <1>0, <3>1, <3>2, <3>3, <4>1, <4>2 DEF LeaseInv
    <3>5. CASE Outcome(m) # Rejected /\ tasks' = [tasks EXCEPT ![t] = task]
      <4>1. task \in Task /\ task.pc = "renewing" /\ task.rev \in 1 .. Len(policies')
        <5>1. Outcome(m) \in Nat /\ Outcome(m) \in 1 .. Len(policies')
          BY <3>2, <3>3, <3>5
        <5> QED BY <1>i, <5>1 DEF Idle, Task, Pcs
      <4> HIDE DEF task
      <4>2. tasks' \in [Tasks -> Task] /\ tasks'[t] = task
            /\ \A u \in Tasks \ {t} : tasks'[u] = tasks[u]
        BY <1>0, <4>1, <3>5
      <4>3. RevisionsAreKnown'
        BY <1>0, <3>1, <3>2, <3>3, <4>1, <4>2 DEF LeaseInv, RevisionsAreKnown
      <4> QED BY <1>0, <3>1, <3>2, <3>3, <4>2, <4>3 DEF LeaseInv
    <3> QED BY <3>1, <3>4, <3>5
  <2> QED BY <2>1, <2>2
<1>8. ASSUME NEW t \in Tasks, WriteTimesOut(t) PROVE LeaseInv'
  BY <1>0, <1>8, <1>m DEF WriteTimesOut, policy, Pcs
<1>9. ASSUME NEW t \in Tasks, AcknowledgeMutation(t) PROVE LeaseInv'
  <2>1. tasks[t].rev \in 1 .. applied /\ lease' = Renewed(tasks[t].rev)
        /\ UNCHANGED <<policies, receipts, applied>> /\ End(t)
    BY <1>9 DEF AcknowledgeMutation, policy, LeaseInv, RevisionsAreKnown
  <2>2. lease' \in [rev : Nat, age : Ages] /\ lease'.rev \in lease.rev .. applied
        /\ (~Conflicts(tasks[t].rev) => lease'.rev = tasks[t].rev)
    BY <1>0, <2>1 DEF Renewed, Conflicts, Ages
  <2>3. acked' \in acked .. lease'.rev
    BY <1>0, <1>9, <2>1, <2>2, MaxOfTwo DEF AcknowledgeMutation, Conflicts
  <2>4. StepsTo(t, Idle)
    BY <1>0, <1>i, <2>1, <2>2, <2>3 DEF End, StepsTo
  <2> QED BY <2>4, OneTask
<1>10. ASSUME NEW t \in Tasks, AppendEntries(t) PROVE LeaseInv'
  <2> DEFINE task == [Idle EXCEPT !.pc = "read", !.kind = "append", !.rev = applied']
  <2>1. /\ applied' \in applied .. Len(policies) /\ tasks' = [tasks EXCEPT ![t] = task]
        /\ UNCHANGED <<policies, receipts, lease, acked>>
    BY <1>10 DEF AppendEntries, Latest
  <2>a. applied' \in Nat
    BY <1>0, <2>1
  <2>2. task \in Task /\ task.pc = "read" /\ task.rev = applied'
    BY <1>i, <2>a DEF Idle, Task, Pcs, Kinds
  <2> HIDE DEF task
  <2>3. StepsTo(t, task)
    BY <1>0, <2>1, <2>2 DEF StepsTo
  <2> QED BY <2>3, OneTask
<1>a. ASSUME UNCHANGED <<policies, receipts, tasks>>, applied' \in applied .. Len(policies),
             lease' \in [rev : Nat, age : Ages], lease'.rev = lease.rev, UNCHANGED acked
      PROVE  LeaseInv'
  <2>1. PolicyInv'
    BY <1>a DEF LeaseInv, PolicyInv, RevokedForGood
  <2>2. RevisionsAreKnown'
    BY <1>0, <1>a DEF LeaseInv, RevisionsAreKnown
  <2> QED BY <1>0, <1>a, <2>1, <2>2 DEF LeaseInv
<1>11. CASE ApplyCommitted \/ BecomeLeader \/ StepDown \/ Sampling \/ StartDrain \/ FinishDrain
            \/ UNCHANGED vars
  <2>1. /\ UNCHANGED <<policies, receipts, tasks, lease, acked>>
        /\ applied' \in applied .. Len(policies)
    BY <1>0, <1>11 DEF ApplyCommitted, BecomeLeader, StepDown, Sampling, BeginSample, TakeSample,
       CommitReadiness, StartDrain, FinishDrain, policy, vars, Latest
  <2> QED BY <1>0, <1>a, <2>1
<1>12. ASSUME NEW m \in DOMAIN Mutations, CommitElsewhere(m) PROVE LeaseInv'
  <2>1. Commits(m) /\ UNCHANGED <<applied, lease, acked, tasks>>
    BY <1>12 DEF CommitElsewhere
  <2>2. PolicyInv' /\ Len(policies') >= Len(policies)
    BY <2>1, CommitsStep DEF LeaseInv
  <2>3. Len(policies') \in Nat
    BY <2>2 DEF PolicyInv
  <2>4. RevisionsAreKnown'
    BY <2>1 DEF LeaseInv, RevisionsAreKnown
  <2> QED BY <1>0, <2>1, <2>2, <2>3, <2>4 DEF LeaseInv
<1>13. CASE Tick
  <2>1. lease' \in [rev : Nat, age : Ages] /\ lease'.rev = lease.rev
    BY <1>0, <1>13 DEF Tick, Ages
  <2> QED BY <1>0, <1>13, <1>a, <2>1 DEF Tick, policy
<1>q. ASSUME UNCHANGED <<policies, receipts, applied, acked>>,
             lease' \in [rev : Nat, age : Ages], lease'.rev \in lease.rev .. applied,
             tasks' \in [Tasks -> Task],
             \A t \in Tasks : tasks'[t] = tasks[t] \/ tasks'[t] = Idle
                               \/ tasks'[t] = [tasks[t] EXCEPT !.pc = "abandoned"]
      PROVE  LeaseInv'
  <2>1. \A t \in Tasks : tasks'[t] = tasks[t] \/ tasks'[t].pc \in {"idle", "abandoned"}
    BY <1>0, <1>i, <1>q DEF Task, Pcs
  <2>2. PolicyInv'
    BY <1>q DEF LeaseInv, PolicyInv, RevokedForGood
  <2>3. RevisionsAreKnown'
    BY <1>0, <1>q, <2>1 DEF LeaseInv, RevisionsAreKnown
  <2> QED BY <1>0, <1>q, <2>2, <2>3 DEF LeaseInv
<1>14. CASE StopMaintenance
  <2>1. UNCHANGED tasks \/ tasks' = [t \in Tasks |-> IF tasks[t].pc = "proposing" THEN Idle ELSE tasks[t]]
    BY <1>14 DEF StopMaintenance
  <2>2. UNCHANGED <<policies, receipts, applied, lease, acked>>
    BY <1>14 DEF StopMaintenance, policy
  <2>3. tasks' \in [Tasks -> Task]
    BY <1>0, <1>i, <2>1
  <2> QED BY <1>0, <1>q, <2>1, <2>2, <2>3
<1>15. CASE JoinServers
  <2>1. tasks' = [t \in Tasks |->
                    IF tasks[t].pc = "writing" THEN [tasks[t] EXCEPT !.pc = "abandoned"]
                    ELSE IF tasks[t].pc \in {"abandoned", "proposing"} \/ tasks[t].kind = "refresh"
                    THEN tasks[t] ELSE Idle]
        /\ UNCHANGED <<policies, receipts, applied, lease, acked>>
    BY <1>15 DEF JoinServers, policy
  <2>2. \A t \in Tasks : [tasks[t] EXCEPT !.pc = "abandoned"] \in Task
    BY <1>0 DEF Task, Pcs
  <2>3. tasks' \in [Tasks -> Task]
    BY <1>0, <1>i, <2>1, <2>2
  <2> QED BY <1>0, <1>q, <2>1, <2>3
<1>16. CASE JoinRefreshers
  <2>1. tasks' = [t \in Tasks |-> IF tasks[t].kind = "refresh" THEN Idle ELSE tasks[t]]
        /\ UNCHANGED <<policies, receipts, applied, lease, acked>>
    BY <1>16 DEF JoinRefreshers, policy
  <2>2. tasks' \in [Tasks -> Task]
    BY <1>0, <1>i, <2>1
  <2> QED BY <1>0, <1>q, <2>1, <2>2
<1>17. CASE Exit \/ Restart
  <2>1. tasks' = [t \in Tasks |-> Idle] /\ UNCHANGED <<policies, receipts, applied, acked>>
    BY <1>17 DEF Exit, Restart
  <2>2. lease' \in [rev : Nat, age : Ages] /\ lease'.rev \in lease.rev .. applied
    BY <1>0, <1>17 DEF Exit, Restart, Ages
  <2>3. tasks' \in [Tasks -> Task]
    BY <1>i, <2>1
  <2> QED BY <1>q, <2>1, <2>2, <2>3
<1> QED
  BY <1>1, <1>2, <1>3, <1>4, <1>5, <1>6, <1>7, <1>8, <1>9, <1>10, <1>11, <1>12, <1>13, <1>14,
     <1>15, <1>16, <1>17 DEF Next, Confirming, ShuttingDown

(* The policy decisions are made by never gets older (PolicyLease::renew), *)
(* whichever confirmation, mutation result or reply reaches it last, and   *)
(* across a restart, for every set of tasks and mutations.                 *)
THEOREM LeaseIsMonotone == Spec => LeaseNeverGoesBack
<1>1. ASSUME LeaseInv, [Next]_vars PROVE [lease'.rev >= lease.rev]_vars
  <2>1. CASE UNCHANGED lease \/ Tick
    BY <1>1, <2>1 DEF Tick, LeaseInv
  <2>2. ASSUME NEW rev \in Int, lease' = Renewed(rev) PROVE lease'.rev >= lease.rev
    BY <1>1, <2>2 DEF Renewed, LeaseInv
  <2>3. ASSUME NEW t \in Tasks, RenewPolicy(t) \/ AcknowledgeMutation(t)
        PROVE  lease'.rev >= lease.rev
    <3>1. tasks[t].rev \in Int
      BY <1>1 DEF LeaseInv, Task
    <3> QED BY <2>2, <2>3, <3>1 DEF RenewPolicy, AcknowledgeMutation
  <2>4. CASE Restart
    BY <1>1, <2>4 DEF Restart, LeaseInv
  <2>5. ASSUME NEW t \in Tasks,
               \/ \E kind \in {"call", "refresh"} : Begin(t, kind)
               \/ ConfirmPolicy(t) \/ NotProved(t) \/ Refuse(t) \/ Reauthorize(t)
               \/ WriteEnds(t) \/ WriteTimesOut(t) \/ ExportEnds(t) \/ AppendEntries(t)
               \/ \E rpc \in Offered, cred \in Credentials, claimed \in Principals :
                      Decide(t, rpc, cred, claimed)
        PROVE  UNCHANGED lease
    BY <2>5 DEF Begin, ConfirmPolicy, NotProved, Refuse, Reauthorize, WriteEnds, WriteTimesOut,
       ExportEnds, AppendEntries, Decide
  <2>6. CASE \/ ApplyCommitted \/ BecomeLeader \/ StepDown \/ Sampling \/ StartDrain
             \/ ShuttingDown \/ \E m \in DOMAIN Mutations : CommitElsewhere(m)
    BY <2>1, <2>6 DEF ApplyCommitted, BecomeLeader, StepDown, Sampling, BeginSample, TakeSample,
       CommitReadiness, StartDrain, ShuttingDown, StopMaintenance, FinishDrain, JoinServers,
       JoinRefreshers, Exit, CommitElsewhere
  <2> QED
    BY <1>1, <2>1, <2>3, <2>4, <2>5, <2>6 DEF Next, Confirming
<1> QED
  BY <1>1, LeaseInit, LeaseStep, PTL DEF Spec, LeaseNeverGoesBack

(* Once this node has acknowledged a policy that revokes a credential, or  *)
(* has proved leadership after its revocation, it accepts no call made     *)
(* with it (RuntimeSecurityConfig::authorize, reauthorize), for every      *)
(* history of policies.                                                    *)
THEOREM RevokedIsRefused == Spec => RevokedMeansRefused
<1>1. ASSUME LeaseInv, NEW t \in Tasks, tasks[t].pc = "deciding", NEW cred,
             Revoked(policies[Max({acked, tasks[t].rev})], cred)
      PROVE  Authenticate(LeasePolicy, cred) = {}
  <2>1. /\ Len(policies) \in Nat /\ applied \in 1 .. Len(policies) /\ lease.rev \in 1 .. applied
        /\ acked \in 1 .. lease.rev /\ tasks[t].rev \in Nat /\ tasks[t].rev <= lease.rev
    BY <1>1, LenIsNat DEF LeaseInv, Task, RevisionsAreKnown
  <2>2. Max({acked, tasks[t].rev}) \in 1 .. lease.rev
    BY <2>1, MaxOfTwo
  <2>3. /\ lease.rev \in 1 .. Len(policies)
        /\ Max({acked, tasks[t].rev}) \in 1 .. Len(policies)
        /\ Max({acked, tasks[t].rev}) <= lease.rev
    BY <2>1, <2>2
  <2>4. Revoked(policies[lease.rev], cred) /\ WellFormed(policies[lease.rev])
    BY <1>1, <2>3 DEF LeaseInv, PolicyInv, RevokedForGood
  <2>5. \A u, v \in policies[lease.rev].tokens :
            SameToken(u, cred) /\ SameToken(v, cred) => u = v
    BY <2>4 DEF WellFormed, SameToken
  <2> QED BY <2>4, <2>5 DEF Authenticate, LeasePolicy, Active, Revoked
<1>2. ASSUME LeaseInv,
             NEW t \in {u \in Tasks : tasks[u].pc = "deciding" /\ tasks'[u].pc # "deciding"}
      PROVE  LET known == policies[Max({acked, tasks[t].rev})] IN
             /\ Reauthorize(t) => ~Revoked(known, tasks[t].cred)
             /\ \A rpc \in Offered, cred \in Credentials, claimed \in Principals :
                   Decide(t, rpc, cred, claimed) => ~Revoked(known, cred)
  <2>1. t \in Tasks /\ tasks[t].pc = "deciding"
    OBVIOUS
  <2>2. Reauthorize(t) => Authenticate(LeasePolicy, tasks[t].cred) # {}
    BY DEF Reauthorize, StillBound
  <2>3. \A rpc, cred, claimed :
            Decide(t, rpc, cred, claimed) => Authenticate(LeasePolicy, cred) # {}
    BY DEF Decide, Allowed
  <2> QED BY <1>1, <1>2, <2>1, <2>2, <2>3
<1>3. Spec => []LeaseInv
  BY LeaseInit, LeaseStep, PTL DEF Spec
<1>4. LeaseInv => [\A t \in {u \in Tasks : tasks[u].pc = "deciding" /\ tasks'[u].pc # "deciding"} :
                     LET known == policies[Max({acked, tasks[t].rev})] IN
                     /\ Reauthorize(t) => ~Revoked(known, tasks[t].cred)
                     /\ \A rpc \in Offered, cred \in Credentials, claimed \in Principals :
                           Decide(t, rpc, cred, claimed) => ~Revoked(known, cred)]_vars
  BY <1>2
<1> QED
  BY <1>3, <1>4, PTL DEF RevokedMeansRefused

-----------------------------------------------------------------------------
(* The shutdown.                                                           *)

ReadyInv == ready \in BOOLEAN /\ (stop # "serving" => phase # "Running") /\ NotReadyOnceDraining

(* A node that has begun to drain is never reported ready again            *)
(* (Readiness::commit), for every set of tasks and policies.               *)
THEOREM DrainingIsNotReady == Spec => []NotReadyOnceDraining
<1>1. Init => ReadyInv
  BY DEF Init, ReadyInv, NotReadyOnceDraining
<1>2. ReadyInv /\ [Next]_vars => ReadyInv'
  <2> SUFFICES ASSUME ReadyInv, [Next]_vars PROVE ReadyInv'
    OBVIOUS
  <2>1. CASE UNCHANGED <<phase, ready, stop>>
    BY <2>1 DEF ReadyInv, NotReadyOnceDraining
  <2>2. CASE CommitReadiness
    <3>1. ready' = IF phase = "Running" /\ current THEN sample = "yes" ELSE ready
      BY <2>2 DEF CommitReadiness
    <3>2. UNCHANGED <<phase, stop>>
      BY <2>2 DEF CommitReadiness
    <3> QED BY <3>1, <3>2, Zenon DEF ReadyInv, NotReadyOnceDraining
  <2>3. CASE StartDrain \/ FinishDrain
    <3>1. stop' \in {"draining", "stopping"} /\ phase' # "Running"
      BY <2>3 DEF StartDrain, FinishDrain, Shut
    <3>2. ready' = FALSE \/ (ready' = ready /\ stop = "prepared")
      BY <2>3, Zenon DEF StartDrain, FinishDrain, Shut
    <3>a. stop = "prepared" => stop # "serving"
      OBVIOUS
    <3>b. stop # "serving" => ready \in BOOLEAN /\ ~ready
      BY Zenon DEF ReadyInv, NotReadyOnceDraining
    <3>3. ready' \in BOOLEAN /\ ~ready'
      <4>1. CASE ready' = FALSE
        BY <4>1
      <4>2. CASE ready' = ready /\ stop = "prepared"
        <5>1. ready \in BOOLEAN /\ ~ready
          BY <3>a, <3>b, <4>2
        <5> QED BY <4>2, <5>1, Zenon
      <4> QED BY <3>2, <4>1, <4>2, Zenon
    <3> QED BY <3>1, <3>3, Zenon DEF ReadyInv, NotReadyOnceDraining
  <2>4. CASE Exit \/ Restart
    BY <2>4 DEF Exit, Restart, Shut, ReadyInv, NotReadyOnceDraining
  <2>5. CASE StopMaintenance \/ JoinServers \/ JoinRefreshers
    BY <2>5 DEF StopMaintenance, JoinServers, JoinRefreshers, Shut, ReadyInv, NotReadyOnceDraining
  <2>6. ASSUME NEW t \in Tasks,
               \/ \E kind \in {"call", "refresh"} : Begin(t, kind)
               \/ Confirming(t) \/ Refuse(t) \/ Reauthorize(t)
               \/ WriteEnds(t) \/ WriteTimesOut(t) \/ AcknowledgeMutation(t)
               \/ ExportEnds(t) \/ AppendEntries(t)
               \/ \E rpc \in Offered, cred \in Credentials, claimed \in Principals :
                      Decide(t, rpc, cred, claimed)
        PROVE  UNCHANGED <<phase, ready, stop>>
    BY <2>6 DEF Begin, Confirming, ConfirmPolicy, NotProved, RenewPolicy, Refuse, Reauthorize,
       WriteEnds, WriteTimesOut, AcknowledgeMutation, ExportEnds, AppendEntries, Decide, node
  <2>7. CASE \/ ApplyCommitted \/ BecomeLeader \/ StepDown \/ Tick \/ BeginSample \/ TakeSample
             \/ (\E m \in DOMAIN Mutations : CommitElsewhere(m)) \/ UNCHANGED vars
    BY <2>1, <2>7 DEF ApplyCommitted, BecomeLeader, StepDown, Tick, BeginSample, TakeSample,
       CommitElsewhere, vars, node
  <2> QED
    BY <2>1, <2>2, <2>3, <2>4, <2>5, <2>6, <2>7 DEF Next, Sampling, ShuttingDown
<1>3. ReadyInv => NotReadyOnceDraining
  BY DEF ReadyInv
<1> QED
  BY <1>1, <1>2, <1>3, PTL DEF Spec

(* What the shutdown has seen to, by how far it is.  A permit is alive for *)
(* every write that is in flight; once the drain has ended none is left    *)
(* and none is given; handlers, refreshers and samples are joined in turn. *)
PermitsMatchWrites == \A t \in Tasks : t \in permits <=> tasks[t].pc \in Writing

RefreshesAskAndRead == \A t \in Tasks : tasks[t].kind = "refresh" => tasks[t].pc \in {"asking", "read"}

Drained ==
    /\ stop # "serving" => gate = "closed"
    /\ stop \notin {"serving", "draining"} /\ safe => \A t \in Tasks : tasks[t].pc # "proposing"
    /\ stop \notin {"serving", "draining", "prepared"} /\ safe => permits = {}

Joined ==
    /\ ~ServersUp => \A t \in Tasks : tasks[t] = Idle \/ tasks[t].kind = "refresh"
                                       \/ tasks[t].pc \in {"abandoned", "proposing"}
    /\ ~RefreshersUp => sample = "idle" /\ \A t \in Tasks : tasks[t].kind # "refresh"

StopInv ==
    /\ permits \subseteq Tasks /\ safe \in BOOLEAN /\ stop \in Stops
    /\ PermitsMatchWrites /\ RefreshesAskAndRead /\ Drained /\ Joined

(* A step of one task that the shutdown allows.                            *)
Admissible(t, task) ==
    /\ tasks' = [tasks EXCEPT ![t] = task] /\ UNCHANGED node
    /\ permits' = IF task.pc \in Writing THEN permits \cup {t} ELSE permits \ {t}
    /\ task.pc \in Writing => tasks[t].pc \in Writing \/ gate # "closed"
    /\ task.pc = "proposing" => stop \in {"serving", "draining"}
    /\ task.kind = "refresh" => task.pc \in {"asking", "read"} /\ RefreshersUp
    /\ ~ServersUp => task = Idle \/ task.kind = "refresh" \/ task.pc = "abandoned"

LEMMA AdmissibleStep ==
    ASSUME StopInv, tasks \in [Tasks -> Task], NEW t \in Tasks, NEW task, Admissible(t, task)
    PROVE  StopInv'
<1>1. /\ tasks'[t] = task /\ \A u \in Tasks \ {t} : tasks'[u] = tasks[u]
      /\ UNCHANGED <<gate, stop, safe, sample>>
  BY DEF Admissible, node
<1>2. permits' \subseteq Tasks /\ \A u \in Tasks \ {t} : u \in permits' <=> u \in permits
  BY DEF Admissible, StopInv
<1>3. PermitsMatchWrites'
  BY <1>1, <1>2 DEF Admissible, StopInv, PermitsMatchWrites, Writing
<1>4. RefreshesAskAndRead'
  BY <1>1 DEF Admissible, StopInv, RefreshesAskAndRead
<1>5. Drained'
  <2>1. stop \notin {"serving", "draining"} /\ safe => \A u \in Tasks : tasks'[u].pc # "proposing"
    BY <1>1 DEF Admissible, StopInv, Drained
  <2>2. ASSUME stop \notin {"serving", "draining", "prepared"}, safe PROVE permits' = {}
    <3>1. permits = {} /\ gate = "closed"
      BY <2>2 DEF StopInv, Drained
    <3>2. task.pc \notin Writing
      BY <3>1 DEF Admissible, StopInv, PermitsMatchWrites
    <3> QED BY <3>1, <3>2 DEF Admissible
  <2> QED BY <1>1, <2>1, <2>2 DEF StopInv, Drained
<1>6. Joined'
  BY <1>1 DEF Admissible, StopInv, Joined, ServersUp, RefreshersUp
<1> QED
  BY <1>1, <1>2, <1>3, <1>4, <1>5, <1>6 DEF StopInv

LEMMA StopInit == Init => StopInv
<1>1. Idle.pc = "idle" /\ Idle.kind = None
  BY DEF Idle
<1> QED
  BY <1>1, NoneAssumption DEF Init, StopInv, PermitsMatchWrites, RefreshesAskAndRead, Drained,
     Joined, ServersUp, RefreshersUp, Stops, Writing

LEMMA StopStep == LeaseInv /\ StopInv /\ [Next]_vars => StopInv'
<1> SUFFICES ASSUME LeaseInv, StopInv, [Next]_vars PROVE StopInv'
  OBVIOUS
<1>0. tasks \in [Tasks -> Task] /\ permits \subseteq Tasks
  BY DEF LeaseInv, StopInv
<1>i. Idle.pc = "idle" /\ Idle.kind = None /\ None # "refresh"
  BY NoneAssumption DEF Idle
<1>w. ASSUME NEW t \in Tasks, tasks[t].pc \notin Writing PROVE permits = permits \ {t}
  BY <1>w DEF StopInv, PermitsMatchWrites
<1>u. ASSUME NEW t \in Tasks, tasks[t].pc \notin {"idle", "abandoned", "proposing"},
             tasks[t].kind # "refresh"
      PROVE  ServersUp
  BY <1>i, <1>u DEF StopInv, Joined
<1>e. ASSUME NEW t \in Tasks, End(t), UNCHANGED node, permits' = permits \ {t} PROVE StopInv'
  <2>1. Admissible(t, Idle)
    BY <1>e, <1>i DEF End, Admissible, Writing
  <2> QED BY <1>0, <2>1, AdmissibleStep
<1>1. ASSUME NEW t \in Tasks, NEW kind \in {"call", "refresh"}, Begin(t, kind) PROVE StopInv'
  <2> DEFINE task == [Idle EXCEPT !.pc = "asking", !.kind = kind]
  <2>1. task.pc = "asking" /\ task.kind = kind
    BY DEF Idle
  <2>2. tasks' = [tasks EXCEPT ![t] = task] /\ UNCHANGED <<permits, node>>
        /\ IF kind = "refresh" THEN RefreshersUp ELSE ServersUp
    BY <1>1 DEF Begin
  <2>3. permits = permits \ {t}
    BY <1>1, <1>i, <1>w DEF Begin, Writing
  <2> HIDE DEF task
  <2>4. Admissible(t, task)
    BY <2>1, <2>2, <2>3 DEF Admissible, Writing
  <2> QED BY <1>0, <2>4, AdmissibleStep
<1>2. ASSUME NEW t \in Tasks, ConfirmPolicy(t) PROVE StopInv'
  <2> DEFINE task == [tasks[t] EXCEPT !.pc = "read", !.rev = applied]
  <2>0. tasks[t] \in Task
    BY <1>0
  <2>1. task.pc = "read" /\ task.kind = tasks[t].kind
    BY <2>0 DEF Task
  <2>2. tasks' = [tasks EXCEPT ![t] = task] /\ UNCHANGED <<permits, node>> /\ tasks[t].pc = "asking"
    BY <1>0, <1>2 DEF ConfirmPolicy
  <2>3. permits = permits \ {t}
    BY <2>2, <1>w DEF Writing
  <2>4. (~ServersUp => tasks[t].kind = "refresh") /\ (tasks[t].kind = "refresh" => RefreshersUp)
    BY <1>u, <2>2 DEF StopInv, Joined
  <2> HIDE DEF task
  <2>5. Admissible(t, task)
    BY <2>1, <2>2, <2>3, <2>4 DEF Admissible, Writing
  <2> QED BY <1>0, <2>5, AdmissibleStep
<1>d. ASSUME NEW t \in Tasks, Move(t, "deciding"), UNCHANGED <<permits, node>>,
             tasks[t].pc \in {"asking", "read"}, tasks[t].kind # "refresh"
      PROVE  StopInv'
  <2> DEFINE task == [tasks[t] EXCEPT !.pc = "deciding"]
  <2>1. task.pc = "deciding" /\ task.kind = tasks[t].kind
    BY <1>0 DEF Task
  <2>2. tasks' = [tasks EXCEPT ![t] = task]
    BY <1>0, <1>d DEF Move
  <2>3. permits = permits \ {t} /\ ServersUp
    BY <1>d, <1>u, <1>w DEF Writing
  <2> HIDE DEF task
  <2>4. Admissible(t, task)
    BY <1>d, <2>1, <2>2, <2>3 DEF Admissible, Writing
  <2> QED BY <1>0, <2>4, AdmissibleStep
<1>3. ASSUME NEW t \in Tasks, NotProved(t) PROVE StopInv'
  <2>1. tasks[t].pc = "asking" /\ UNCHANGED <<permits, node>> /\ permits = permits \ {t}
    BY <1>3, <1>w DEF NotProved, Writing
  <2> QED BY <1>3, <1>d, <1>e, <2>1 DEF NotProved
<1>4. ASSUME NEW t \in Tasks, RenewPolicy(t) PROVE StopInv'
  <2>1. tasks[t].pc = "read" /\ UNCHANGED <<permits, node>> /\ permits = permits \ {t}
    BY <1>4, <1>w DEF RenewPolicy, Writing
  <2> QED BY <1>4, <1>d, <1>e, <2>1 DEF RenewPolicy
<1>5. ASSUME NEW t \in Tasks,
             Refuse(t) \/ Reauthorize(t) \/ ExportEnds(t) \/ AcknowledgeMutation(t)
      PROVE  StopInv'
  <2>1. End(t) /\ UNCHANGED <<permits, node>> /\ tasks[t].pc \notin Writing
    BY <1>5 DEF Refuse, Reauthorize, ExportEnds, AcknowledgeMutation, Writing
  <2> QED BY <1>e, <1>w, <2>1
<1>6. ASSUME NEW t \in Tasks, NEW rpc \in Offered, NEW cred \in Credentials,
             NEW claimed \in Principals, Decide(t, rpc, cred, claimed)
      PROVE  StopInv'
  <2>1. /\ tasks[t].pc = "deciding" /\ tasks[t].kind = "call" /\ UNCHANGED node
        /\ permits = permits \ {t} /\ ServersUp
    BY <1>6, <1>u, <1>w DEF Decide, Writing
  <2>2. Operations[rpc] \in {"local", "read", "lookup", "write", "export", "policy", "security"}
    BY BootstrapAssumption, EveryRpcHasItsOperation
  <2>3. \/ UNCHANGED permits /\ (End(t) \/ LookUp(t, rpc, cred) \/ ProposeExport(t))
        \/ /\ tasks' = [tasks EXCEPT ![t] = [Idle EXCEPT !.pc = "asking", !.kind = "policy"]]
           /\ UNCHANGED permits
        \/ \E m \in DOMAIN Mutations \cup {None} : Propose(t, m)
    BY <1>6, <2>2 DEF Decide
  <2>4. CASE End(t) /\ UNCHANGED permits
    BY <1>e, <2>1, <2>4
  <2>5. ASSUME NEW task, tasks' = [tasks EXCEPT ![t] = task], UNCHANGED permits,
               task.pc = "asking", task.kind # "refresh"
        PROVE  StopInv'
    <3>1. Admissible(t, task)
      BY <2>1, <2>5 DEF Admissible, Writing
    <3> QED BY <1>0, <3>1, AdmissibleStep
  <2>6. CASE LookUp(t, rpc, cred) /\ UNCHANGED permits
    <3> DEFINE task == [Idle EXCEPT !.pc = "asking", !.kind = "again", !.rpc = rpc, !.cred = cred]
    <3>1. task.pc = "asking" /\ task.kind = "again"
      BY DEF Idle
    <3>2. tasks' = [tasks EXCEPT ![t] = task]
      BY <2>6 DEF LookUp
    <3> HIDE DEF task
    <3> QED BY <2>5, <2>6, <3>1, <3>2
  <2>7. CASE /\ tasks' = [tasks EXCEPT ![t] = [Idle EXCEPT !.pc = "asking", !.kind = "policy"]]
             /\ UNCHANGED permits
    <3> DEFINE task == [Idle EXCEPT !.pc = "asking", !.kind = "policy"]
    <3>1. task.pc = "asking" /\ task.kind = "policy"
      BY DEF Idle
    <3>2. tasks' = [tasks EXCEPT ![t] = task]
      BY <2>7
    <3> HIDE DEF task
    <3> QED BY <2>5, <2>7, <3>1, <3>2
  <2>8. ASSUME NEW m, NEW pc, Start(t, pc, m),
               \/ pc = "writing" /\ permits' = permits \cup {t} /\ gate # "closed"
               \/ pc = "proposing" /\ UNCHANGED permits /\ stop \in {"serving", "draining"}
        PROVE  StopInv'
    <3> DEFINE task == [Idle EXCEPT !.pc = pc, !.mutation = m]
    <3>1. task.pc = pc /\ task.kind = None
      BY DEF Idle
    <3>2. tasks' = [tasks EXCEPT ![t] = task]
      BY <2>8 DEF Start
    <3> HIDE DEF task
    <3>3. Admissible(t, task)
      BY <1>i, <2>1, <2>8, <3>1, <3>2 DEF Admissible, Writing
    <3> QED BY <1>0, <3>3, AdmissibleStep
  <2>9. CASE ProposeExport(t) /\ UNCHANGED permits
    BY <2>4, <2>8, <2>9 DEF ProposeExport
  <2>10. ASSUME NEW m, Propose(t, m) PROVE StopInv'
    BY <2>4, <2>8, <2>10 DEF Propose
  <2> QED BY <2>3, <2>4, <2>6, <2>7, <2>9, <2>10
<1>7. ASSUME NEW t \in Tasks, WriteEnds(t) PROVE StopInv'
  <2>1. UNCHANGED node /\ permits' = permits \ {t}
    BY <1>7 DEF WriteEnds
  <2>2. CASE End(t)
    BY <1>e, <2>1, <2>2
  <2>3. CASE ~End(t)
    <3> DEFINE task == [Idle EXCEPT !.pc = "renewing", !.rev = Outcome(tasks[t].mutation)]
    <3>1. task.pc = "renewing" /\ task.kind = None
      BY DEF Idle
    <3>2. tasks[t].pc = "writing" /\ tasks' = [tasks EXCEPT ![t] = task]
      BY <1>7, <2>3 DEF WriteEnds
    <3>3. ServersUp
      BY <1>u, <3>2 DEF StopInv, RefreshesAskAndRead
    <3> HIDE DEF task
    <3>4. Admissible(t, task)
      BY <1>i, <2>1, <3>1, <3>2, <3>3 DEF Admissible, Writing
    <3> QED BY <1>0, <3>4, AdmissibleStep
  <2> QED BY <2>2, <2>3
<1>8. ASSUME NEW t \in Tasks, WriteTimesOut(t) PROVE StopInv'
  <2> DEFINE task == [tasks[t] EXCEPT !.pc = "abandoned"]
  <2>1. task.pc = "abandoned" /\ task.kind = tasks[t].kind
    BY <1>0 DEF Task
  <2>2. /\ tasks' = [tasks EXCEPT ![t] = task] /\ UNCHANGED <<permits, node>>
        /\ tasks[t].pc = "writing"
    BY <1>0, <1>8 DEF WriteTimesOut, Move
  <2>3. permits = permits \cup {t} /\ tasks[t].kind # "refresh"
    BY <2>2 DEF StopInv, PermitsMatchWrites, RefreshesAskAndRead, Writing
  <2> HIDE DEF task
  <2>4. Admissible(t, task)
    BY <2>1, <2>2, <2>3 DEF Admissible, Writing
  <2> QED BY <1>0, <2>4, AdmissibleStep
<1>9. ASSUME NEW t \in Tasks, AppendEntries(t) PROVE StopInv'
  <2> DEFINE task == [Idle EXCEPT !.pc = "read", !.kind = "append", !.rev = applied']
  <2>1. task.pc = "read" /\ task.kind = "append"
    BY DEF Idle
  <2>2. tasks' = [tasks EXCEPT ![t] = task] /\ UNCHANGED <<permits, node>> /\ ServersUp
    BY <1>9 DEF AppendEntries
  <2>3. permits = permits \ {t}
    BY <1>9, <1>i, <1>w DEF AppendEntries, Writing
  <2> HIDE DEF task
  <2>4. Admissible(t, task)
    BY <2>1, <2>2, <2>3 DEF Admissible, Writing
  <2> QED BY <1>0, <2>4, AdmissibleStep
<1>10. CASE \/ ApplyCommitted \/ BecomeLeader \/ StepDown \/ Tick \/ UNCHANGED vars
            \/ \E m \in DOMAIN Mutations : CommitElsewhere(m)
  <2>1. UNCHANGED <<tasks, permits, node>>
    BY <1>10 DEF ApplyCommitted, BecomeLeader, StepDown, Tick, CommitElsewhere, vars
  <2> QED
    BY <2>1 DEF StopInv, PermitsMatchWrites, RefreshesAskAndRead, Drained, Joined, ServersUp,
       RefreshersUp, node
<1>11. CASE Sampling
  <2>1. /\ UNCHANGED <<tasks, permits, gate, stop, safe>>
        /\ RefreshersUp \/ sample' = "idle" \/ sample = "begun"
    BY <1>11 DEF Sampling, BeginSample, TakeSample, CommitReadiness
  <2> QED
    BY <2>1 DEF StopInv, PermitsMatchWrites, RefreshesAskAndRead, Drained, Joined, ServersUp,
       RefreshersUp
<1>12. CASE StartDrain
  BY <1>12 DEF StartDrain, Shut, StopInv, PermitsMatchWrites, RefreshesAskAndRead, Drained, Joined,
     ServersUp, RefreshersUp, Stops
<1>13. CASE StopMaintenance
  <2>1. /\ stop = "draining" /\ stop' = "prepared" /\ UNCHANGED <<permits, gate, sample>>
        /\ safe' \in BOOLEAN
    BY <1>13 DEF StopMaintenance, Shut, StopInv
  <2>2. \A t \in Tasks : tasks'[t] = tasks[t] \/ (tasks[t].pc = "proposing" /\ tasks'[t] = Idle)
    BY <1>13 DEF StopMaintenance
  <2>3. safe' => \A t \in Tasks : tasks'[t].pc # "proposing"
    BY <1>13, <1>i DEF StopMaintenance
  <2>4. PermitsMatchWrites' /\ RefreshesAskAndRead'
    BY <1>i, <2>1, <2>2 DEF StopInv, PermitsMatchWrites, RefreshesAskAndRead, Writing
  <2> QED
    BY <2>1, <2>3, <2>4 DEF StopInv, Drained, Joined, ServersUp, RefreshersUp, Stops
<1>14. CASE FinishDrain
  <2>1. /\ stop = "prepared" /\ stop' = "stopping" /\ UNCHANGED <<tasks, permits, gate, sample>>
    BY <1>14 DEF FinishDrain, Shut
  <2>2. safe' \in BOOLEAN /\ (safe' => safe /\ permits = {})
    BY <1>14, Zenon DEF FinishDrain, StopInv
  <2> QED
    BY <2>1, <2>2 DEF StopInv, PermitsMatchWrites, RefreshesAskAndRead, Drained, Joined, ServersUp,
       RefreshersUp, Stops
<1>15. CASE JoinServers
  <2>1. stop = "stopping" /\ stop' = "joined" /\ UNCHANGED <<permits, gate, sample, safe>>
    BY <1>15 DEF JoinServers, Shut
  <2>2. \A t \in Tasks : [tasks[t] EXCEPT !.pc = "abandoned"].pc = "abandoned"
                          /\ [tasks[t] EXCEPT !.pc = "abandoned"].kind = tasks[t].kind
    BY <1>0 DEF Task
  <2>3. \A t \in Tasks :
           \/ /\ tasks[t].pc = "writing" /\ tasks'[t].pc = "abandoned"
              /\ tasks'[t].kind = tasks[t].kind
           \/ /\ tasks'[t] = tasks[t]
              /\ tasks[t].pc \in {"abandoned", "proposing"} \/ tasks[t].kind = "refresh"
           \/ tasks[t].pc \notin Writing /\ tasks'[t] = Idle
    BY <1>15, <2>2 DEF JoinServers, Writing
  <2>4. PermitsMatchWrites' /\ RefreshesAskAndRead'
    BY <1>i, <2>1, <2>3 DEF StopInv, PermitsMatchWrites, RefreshesAskAndRead, Writing
  <2>5. Drained'
    BY <1>i, <2>1, <2>3 DEF StopInv, Drained
  <2>6. Joined'
    BY <2>1, <2>3 DEF Joined, ServersUp, RefreshersUp
  <2> QED
    BY <2>1, <2>4, <2>5, <2>6 DEF StopInv, Stops
<1>16. CASE JoinRefreshers
  <2>1. /\ stop = "joined" /\ stop' = "quiet" /\ UNCHANGED <<permits, gate, safe>>
        /\ sample' = "idle"
    BY <1>16 DEF JoinRefreshers, Shut
  <2>2. \A t \in Tasks : \/ tasks[t].kind = "refresh" /\ tasks'[t] = Idle
                         \/ tasks[t].kind # "refresh" /\ tasks'[t] = tasks[t]
    BY <1>16 DEF JoinRefreshers
  <2>3. PermitsMatchWrites' /\ RefreshesAskAndRead'
    BY <1>i, <2>1, <2>2 DEF StopInv, PermitsMatchWrites, RefreshesAskAndRead, Writing
  <2>4. Drained' /\ Joined'
    BY <1>i, <2>1, <2>2 DEF StopInv, Drained, Joined, ServersUp, RefreshersUp
  <2> QED
    BY <2>1, <2>3, <2>4 DEF StopInv, Stops
<1>17. CASE Exit
  <2>1. /\ stop = "quiet" /\ stop' = "down" /\ UNCHANGED <<gate, safe, sample>> /\ permits' = {}
        /\ \A t \in Tasks : tasks'[t] = Idle
    BY <1>17 DEF Exit, Shut
  <2> QED
    BY <1>i, <2>1 DEF StopInv, PermitsMatchWrites, RefreshesAskAndRead, Drained, Joined, ServersUp,
       RefreshersUp, Stops, Writing
<1>18. CASE Restart
  <2>1. /\ stop' = "serving" /\ safe' = TRUE /\ permits' = {}
        /\ \A t \in Tasks : tasks'[t] = Idle
    BY <1>18 DEF Restart
  <2> QED
    BY <1>i, <2>1 DEF StopInv, PermitsMatchWrites, RefreshesAskAndRead, Drained, Joined, ServersUp,
       RefreshersUp, Stops, Writing
<1> QED
  BY <1>1, <1>2, <1>3, <1>4, <1>5, <1>6, <1>7, <1>8, <1>9, <1>10, <1>11, <1>12, <1>13, <1>14,
     <1>15, <1>16, <1>17, <1>18 DEF Next, Confirming, ShuttingDown

(* When run() goes on to shut the groups down nothing uses them any more:  *)
(* no call, no refresh and no write whose caller was answered long ago,    *)
(* for every number of tasks.                                              *)
THEOREM TeardownFindsQuiet == Spec => []TeardownIsQuiet
<1>1. ASSUME StopInv PROVE TeardownIsQuiet
  <2> SUFFICES ASSUME stop = "quiet", safe
               PROVE  sample = "idle" /\ \A t \in Tasks : tasks[t] = Idle
    BY DEF TeardownIsQuiet
  <2>1. permits = {} /\ \A t \in Tasks : tasks[t].pc # "proposing"
    BY <1>1 DEF StopInv, Drained
  <2>2. \A t \in Tasks : tasks[t].pc # "abandoned"
    BY <1>1, <2>1 DEF StopInv, PermitsMatchWrites, Writing
  <2> QED
    BY <1>1, <2>1, <2>2 DEF StopInv, Joined, ServersUp, RefreshersUp
<1> QED
  BY <1>1, LeaseInit, LeaseStep, StopInit, StopStep, PTL DEF Spec
=============================================================================
