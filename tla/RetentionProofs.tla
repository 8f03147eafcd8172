-------------------------- MODULE RetentionProofs --------------------------
(***************************************************************************)
(* Proofs about the retention and the replay leases of a data group and,   *)
(* at the end, about the administration of the voters (Membership): the    *)
(* topology that the commands of the control group leave behind.           *)
(***************************************************************************)
EXTENDS Retention, Membership, TLAPS, FiniteSetTheorems, WellFoundedInduction

-----------------------------------------------------------------------------
(* The inductive invariant, in parts that name the state they are about.   *)

EndAt(e, o) == IF o = 0 THEN 0 ELSE e[o]

(* The end positions of the n records of a partition only rise.            *)
Rising(e, n) ==
    /\ e \in Seq(Nat) /\ Len(e) = n
    /\ \A i, j \in 0 .. n : i <= j => EndAt(e, i) <= EndAt(e, j)

(* One partition: n records were stored, rs are left, r is its retention   *)
(* state.                                                                  *)
PartitionOK(n, e, rs, r) ==
    /\ Rising(e, n)
    /\ rs \subseteq 0 .. n - 1
    /\ r.floor .. n - 1 \subseteq rs
    /\ r.cursor <= r.floor /\ r.floor <= n
    /\ r.floorBytes = EndAt(e, r.floor)

(* One lease, over a partition with n records of which rs are left, when   *)
(* true time is t.                                                         *)
LeaseOK(l, n, e, rs, t) ==
    /\ l.start < l.end /\ l.end <= n
    /\ l.bytes = EndAt(e, l.end) - EndAt(e, l.start)
    /\ l.lifecycle = "active" => l.start .. l.end - 1 \subseteq rs
    /\ l.lifecycle = "expired" => l.expires <= t \/ l.hard <= t

LeasesOK(ls, tl, en, rs, t) ==
    \A i \in MutationIds : ls[i] # None =>
        LeaseOK(ls[i], tl[ls[i].partition], en[ls[i].partition], rs[ls[i].partition], t)

(* A lease is the work of a mutation that its session has closed.          *)
Closed(ls, ss) ==
    \A i \in MutationIds : ls[i] # None => i.sequence <= ss[i.session].highest

Budgeted(ls, b) ==
    /\ IsFiniteSet(Active(ls))
    /\ b.active = Cardinality(Active(ls)) /\ b.active <= MaxActiveLeases
    /\ b.reserved = Bytes(ls, Active(ls)) /\ b.reserved <= MaxGroupBytes

(* A record the cursor has passed is leased or will be come back for.      *)
Kept(p, rs, cursor, ls, fc, h) ==
    \A o \in rs : o < cursor =>
        \/ \E i \in Active(ls) : Covers(ls[i], p, o)
        \/ fc /\ h # None /\ h <= o

IInv ==
    /\ TypeOK
    /\ \A p \in Partitions : PartitionOK(tail[p], ends[p], records[p], ret[p])
    /\ LeasesOK(leases, tail, ends, records, now)
    /\ Closed(leases, sessions)
    /\ Budgeted(leases, budget)
    /\ clock # None => clock.lower <= now
    /\ \A p \in Partitions : hint[p] # None => fence
    /\ \A p \in Partitions : Kept(p, records[p], ret[p].cursor, leases, fence, hint[p])

-----------------------------------------------------------------------------
(* Sums over sets of leases: Bytes adds up the bytes of a finite set,      *)
(* whatever the order in which the sum visits it.                          *)

LEMMA LeastNatural ==
    ASSUME NEW T \in SUBSET Nat, T # {}
    PROVE  \E m \in T : \A n \in T : m <= n
<1>1. PICK m \in T : \A n \in T : ~(<<n, m>> \in OpToRel(<, Nat))
  BY NatLessThanWellFounded, WFMin
<1>2. ASSUME NEW n \in T PROVE m <= n
  <2>1. n < m => <<n, m>> \in OpToRel(<, Nat)
    BY DEF OpToRel
  <2>2. ~(n < m)
    BY <1>1, <2>1, Zenon
  <2> QED BY <2>2
<1> QED BY <1>2

Pick(s) == CHOOSE x \in s : TRUE

LEMMA Picked ==
    ASSUME NEW s, s # {}
    PROVE  Pick(s) \in s
BY Zenon DEF Pick

Sized(ls, S) == IsFiniteSet(S) /\ \A i \in S : ls[i].bytes \in Nat

LEMMA SizedSets ==
    ASSUME NEW ls, NEW S, Sized(ls, S)
    PROVE  /\ Cardinality(S) \in Nat
           /\ Cardinality(S) = 0 <=> S = {}
           /\ \A x \in S : Cardinality(S \ {x}) = Cardinality(S) - 1 /\ ls[x].bytes \in Nat
           /\ \A T \in SUBSET S : Sized(ls, T) /\ Cardinality(T) <= Cardinality(S)
<1>1. IsFiniteSet(S) /\ \A x \in S : ls[x].bytes \in Nat
  BY DEF Sized
<1>2. \A T \in SUBSET S : IsFiniteSet(T) /\ Cardinality(T) <= Cardinality(S)
  BY <1>1, FS_Subset
<1>3. \A T \in SUBSET S : Sized(ls, T)
  BY <1>1, <1>2 DEF Sized
<1> QED BY <1>1, <1>2, <1>3, FS_CardinalityType, FS_EmptySet, FS_RemoveElement

(* The sum over the subsets of S with at most n members.                   *)
Small(S, n) == {s \in SUBSET S : Cardinality(s) <= n}
SumStep(ls, f, s) == IF s = {} THEN 0 ELSE ls[Pick(s)].bytes + f[s \ {Pick(s)}]
IsSum(ls, f, S, n) ==
    /\ f \in [Small(S, n) -> Nat]
    /\ \A s \in Small(S, n) : f[s] = SumStep(ls, f, s)

LEMMA SumExists ==
    ASSUME NEW ls, NEW S, Sized(ls, S), NEW n \in Nat
    PROVE  \E f : IsSum(ls, f, S, n)
<1> DEFINE bad == {i \in Nat : ~\E f : IsSum(ls, f, S, i)}
<1> SUFFICES ASSUME bad # {} PROVE FALSE
  OBVIOUS
<1>1. PICK m \in bad : \A i \in bad : m <= i
  <2>1. bad \in SUBSET Nat
    OBVIOUS
  <2> HIDE DEF bad
  <2> QED BY <2>1, LeastNatural
<1>2. m \in Nat /\ ~\E f : IsSum(ls, f, S, m)
  BY <1>1
<1>3. CASE m = 0
  <2> DEFINE f == [s \in Small(S, 0) |-> 0]
  <2>1. ASSUME NEW s \in Small(S, 0) PROVE s = {}
    <3>1. Sized(ls, s) /\ Cardinality(s) <= 0
      BY SizedSets DEF Small
    <3>2. Cardinality(s) = 0
      BY <3>1, SizedSets
    <3> QED BY <3>1, <3>2, SizedSets
  <2>2. IsSum(ls, f, S, 0)
    BY <2>1 DEF IsSum, SumStep
  <2> QED BY <1>2, <1>3, <2>2
<1>4. CASE m # 0
  <2>1. m - 1 \in Nat /\ m - 1 \notin bad
    BY <1>1, <1>2, <1>4
  <2>2. PICK f : IsSum(ls, f, S, m - 1)
    BY <2>1
  <2> DEFINE g == [s \in Small(S, m) |-> SumStep(ls, f, s)]
  <2>3. ASSUME NEW s \in Small(S, m), s # {}
        PROVE  /\ s \ {Pick(s)} \in Small(S, m - 1) /\ s \ {Pick(s)} \in Small(S, m)
               /\ ls[Pick(s)].bytes \in Nat
    <3>1. Sized(ls, s) /\ s \in SUBSET S /\ Cardinality(s) <= m
      BY SizedSets DEF Small
    <3>2. Pick(s) \in s
      BY <2>3, Picked
    <3>3. /\ Cardinality(s) \in Nat /\ Cardinality(s \ {Pick(s)}) = Cardinality(s) - 1
          /\ ls[Pick(s)].bytes \in Nat
      BY <3>1, <3>2, SizedSets
    <3> QED BY <1>2, <3>1, <3>2, <3>3 DEF Small
  <2>4. \A s \in Small(S, m - 1) : f[s] \in Nat /\ f[s] = SumStep(ls, f, s)
    BY <2>2 DEF IsSum
  <2>5. ASSUME NEW s \in Small(S, m) PROVE SumStep(ls, f, s) \in Nat
    <3>1. CASE s = {}
      BY <3>1 DEF SumStep
    <3>2. CASE s # {}
      <4>1. ls[Pick(s)].bytes \in Nat /\ f[s \ {Pick(s)}] \in Nat
        BY <3>2, <2>3, <2>4
      <4> QED BY <3>2, <4>1 DEF SumStep
    <3> QED BY <3>1, <3>2
  <2>6. g \in [Small(S, m) -> Nat]
    BY <2>5
  <2>7. ASSUME NEW s \in Small(S, m) PROVE g[s] = SumStep(ls, g, s)
    <3>1. CASE s = {}
      BY <3>1 DEF SumStep
    <3>2. CASE s # {}
      <4> DEFINE u == s \ {Pick(s)}
      <4>1. u \in Small(S, m - 1) /\ u \in Small(S, m)
        BY <3>2, <2>3
      <4>2. g[u] = f[u]
        BY <4>1, <2>4
      <4>3. g[s] = ls[Pick(s)].bytes + f[u]
        BY <3>2 DEF SumStep
      <4> QED BY <3>2, <4>2, <4>3 DEF SumStep
    <3> QED BY <3>1, <3>2
  <2> HIDE DEF g
  <2>8. IsSum(ls, g, S, m)
    BY <2>6, <2>7 DEF IsSum
  <2> QED BY <1>2, <2>8
<1> QED BY <1>3, <1>4

SumsOver(ls, f, S) == \A s \in SUBSET S : f[s] = SumStep(ls, f, s)

(* Two such sums of leases with the same bytes agree where both are        *)
(* defined.                                                                *)
LEMMA SumsAgree ==
    ASSUME NEW ls, NEW ms, NEW S, NEW T, Sized(ls, S), NEW f, SumsOver(ls, f, S),
           NEW g, SumsOver(ms, g, T), \A i \in S \cap T : ls[i].bytes = ms[i].bytes,
           NEW s \in SUBSET (S \cap T)
    PROVE  f[s] = g[s]
<1> DEFINE bad == {Cardinality(u) : u \in {v \in SUBSET (S \cap T) : f[v] # g[v]}}
<1> SUFFICES ASSUME f[s] # g[s] PROVE FALSE
  OBVIOUS
<1>1. PICK m \in bad : \A i \in bad : m <= i
  <2>1. \A u \in SUBSET (S \cap T) : Sized(ls, u) /\ Cardinality(u) \in Nat
    BY SizedSets
  <2>2. bad \in SUBSET Nat /\ bad # {}
    BY <2>1
  <2> HIDE DEF bad
  <2> QED BY <2>2, LeastNatural
<1>2. PICK u \in SUBSET (S \cap T) : f[u] # g[u] /\ m = Cardinality(u)
  BY <1>1
<1>3. f[u] = SumStep(ls, f, u) /\ g[u] = SumStep(ms, g, u)
  BY DEF SumsOver
<1>4. u # {}
  BY <1>2, <1>3 DEF SumStep
<1>5. Pick(u) \in u /\ Sized(ls, u)
  BY <1>4, Picked, SizedSets
<1> DEFINE v == u \ {Pick(u)}
<1>6. f[v] # g[v] /\ v \in SUBSET (S \cap T)
  <2>1. ls[Pick(u)].bytes = ms[Pick(u)].bytes
    BY <1>5
  <2> QED BY <1>2, <1>3, <1>4, <2>1 DEF SumStep
<1>7. Cardinality(v) \in bad
  BY <1>6
<1>8. Cardinality(v) = m - 1 /\ m \in Nat
  BY <1>2, <1>5, SizedSets
<1> HIDE DEF bad
<1> QED BY <1>1, <1>7, <1>8

(* Bytes as a recursion over what is left.                                 *)
BytesBody(ls, U, f) ==
    [s \in SUBSET U |->
        IF s = {} THEN 0
        ELSE ls[CHOOSE x \in s : TRUE].bytes + f[s \ {CHOOSE x \in s : TRUE}]]
BytesIter(ls, U) == CHOOSE f : f = BytesBody(ls, U, f)

LEMMA BytesIterIs ==
    ASSUME NEW ls, NEW U, Sized(ls, U)
    PROVE  /\ Bytes(ls, U) = BytesIter(ls, U)[U]
           /\ SumsOver(ls, BytesIter(ls, U), U)
           /\ \A s \in SUBSET U : BytesIter(ls, U)[s] \in Nat
<1>1. Bytes(ls, U) = BytesIter(ls, U)[U]
  BY DEF Bytes, MapThenSumSet, MapThenFoldSet, BytesIter, BytesBody
<1>2. Small(U, Cardinality(U)) = SUBSET U /\ Cardinality(U) \in Nat
  BY SizedSets DEF Small
<1>3. PICK f : IsSum(ls, f, U, Cardinality(U))
  BY <1>2, SumExists
<1>4. f \in [SUBSET U -> Nat] /\ \A s \in SUBSET U : f[s] = SumStep(ls, f, s)
  BY <1>2, <1>3 DEF IsSum
<1>5. f = BytesBody(ls, U, f)
  <2> DEFINE b == BytesBody(ls, U, f)
  <2>1. \A s \in SUBSET U : f[s] = b[s]
    BY <1>4 DEF SumStep, Pick, BytesBody
  <2>2. f = [s \in SUBSET U |-> f[s]] /\ b = [s \in SUBSET U |-> b[s]]
    BY <1>4 DEF BytesBody
  <2> HIDE DEF b
  <2>3. f = b
    BY <2>1, <2>2
  <2> QED BY <2>3 DEF b
<1> DEFINE h == BytesIter(ls, U)
<1>6. h = BytesBody(ls, U, h)
  BY <1>5, Zenon DEF BytesIter
<1> HIDE DEF h
<1>7. SumsOver(ls, h, U)
  BY <1>6 DEF SumsOver, SumStep, Pick, BytesBody
<1>8. SumsOver(ls, f, U)
  BY <1>4 DEF SumsOver
<1>9. ASSUME NEW s \in SUBSET U PROVE h[s] = f[s]
  <2>1. s \in SUBSET (U \cap U)
    OBVIOUS
  <2> QED BY <2>1, <1>7, <1>8, SumsAgree
<1>10. \A s \in SUBSET U : h[s] \in Nat
  BY <1>4, <1>9
<1> QED BY <1>1, <1>7, <1>10 DEF h

LEMMA BytesStep ==
    ASSUME NEW ls, NEW S, Sized(ls, S)
    PROVE  /\ Bytes(ls, S) \in Nat
           /\ S = {} => Bytes(ls, S) = 0
           /\ S # {} => Bytes(ls, S) = ls[Pick(S)].bytes + Bytes(ls, S \ {Pick(S)})
<1> DEFINE h == BytesIter(ls, S)
<1>1. Bytes(ls, S) = h[S] /\ SumsOver(ls, h, S) /\ h[S] \in Nat
  BY BytesIterIs
<1>2. Bytes(ls, S) = SumStep(ls, h, S)
  BY <1>1 DEF SumsOver
<1>3. ASSUME S # {} PROVE Bytes(ls, S \ {Pick(S)}) = h[S \ {Pick(S)}]
  <2> DEFINE U == S \ {Pick(S)}
             g == BytesIter(ls, U)
  <2>1. U \in SUBSET (U \cap S) /\ Sized(ls, U)
    BY SizedSets
  <2> HIDE DEF U, h
  <2>2. Bytes(ls, U) = g[U] /\ SumsOver(ls, g, U)
    BY <2>1, BytesIterIs
  <2> HIDE DEF g
  <2>3. g[U] = h[U]
    BY <2>1, <2>2, <1>1, SumsAgree
  <2> QED BY <2>2, <2>3 DEF U
<1> QED BY <1>1, <1>2, <1>3 DEF SumStep

(* Leases with the same bytes have the same sum.                           *)
LEMMA BytesSame ==
    ASSUME NEW ls, NEW ms, NEW S, Sized(ls, S), \A i \in S : ms[i].bytes = ls[i].bytes
    PROVE  Bytes(ms, S) = Bytes(ls, S)
<1>1. Sized(ms, S) /\ S \in SUBSET (S \cap S)
  BY DEF Sized
<1> DEFINE g == BytesIter(ls, S)
           h == BytesIter(ms, S)
<1>2. Bytes(ls, S) = g[S] /\ SumsOver(ls, g, S)
  BY BytesIterIs
<1>3. Bytes(ms, S) = h[S] /\ SumsOver(ms, h, S)
  BY <1>1, BytesIterIs
<1> HIDE DEF g, h
<1>4. g[S] = h[S]
  BY <1>1, <1>2, <1>3, SumsAgree
<1> QED BY <1>2, <1>3, <1>4

(* The sum does not depend on the order.                                   *)
LEMMA BytesWithout ==
    ASSUME NEW ls, NEW S, Sized(ls, S), NEW y \in S
    PROVE  Bytes(ls, S) = ls[y].bytes + Bytes(ls, S \ {y})
<1> DEFINE Wrong(u) == \E z \in u : Bytes(ls, u) # ls[z].bytes + Bytes(ls, u \ {z})
           bad == {Cardinality(u) : u \in {v \in SUBSET S : Wrong(v)}}
<1> SUFFICES ASSUME Wrong(S) PROVE FALSE
  OBVIOUS
<1>0. \A u \in SUBSET S : Sized(ls, u) /\ Cardinality(u) \in Nat
  BY SizedSets
<1>1. PICK m \in bad : \A i \in bad : m <= i
  <2>1. bad \in SUBSET Nat /\ bad # {}
    <3> HIDE DEF Wrong
    <3> QED BY <1>0
  <2> HIDE DEF bad
  <2> QED BY <2>1, LeastNatural
<1>2. PICK u \in SUBSET S : Wrong(u) /\ m = Cardinality(u)
  BY <1>1
<1>3. PICK z \in u : Bytes(ls, u) # ls[z].bytes + Bytes(ls, u \ {z})
  BY <1>2
<1> DEFINE x == Pick(u)
<1>4. x \in u /\ Sized(ls, u) /\ m \in Nat
  BY <1>0, <1>2, <1>3, Picked
<1>5. Bytes(ls, u) = ls[x].bytes + Bytes(ls, u \ {x})
  BY <1>3, <1>4, BytesStep
<1> HIDE DEF x
<1>6. \A v \in SUBSET S : Cardinality(v) = m - 1 => ~Wrong(v)
  BY <1>4, <1>1
<1>7. ~Wrong(u \ {x}) /\ ~Wrong(u \ {z})
  <2>1. u \ {x} \in SUBSET S /\ u \ {z} \in SUBSET S
    OBVIOUS
  <2>2. Cardinality(u \ {x}) = m - 1 /\ Cardinality(u \ {z}) = m - 1
    BY <1>2, <1>3, <1>4, SizedSets
  <2> HIDE DEF Wrong
  <2> QED BY <1>6, <2>1, <2>2
<1>8. x # z
  BY <1>3, <1>5
<1> DEFINE w == u \ {x, z}
<1>9. (u \ {x}) \ {z} = w /\ (u \ {z}) \ {x} = w /\ w \in SUBSET S
  OBVIOUS
<1> HIDE DEF w, bad
<1>10. Bytes(ls, u \ {x}) = ls[z].bytes + Bytes(ls, w)
  BY <1>3, <1>7, <1>8, <1>9
<1>11. Bytes(ls, u \ {z}) = ls[x].bytes + Bytes(ls, w)
  BY <1>4, <1>7, <1>8, <1>9
<1>12. ls[x].bytes \in Nat /\ ls[z].bytes \in Nat /\ Bytes(ls, w) \in Nat
  BY <1>0, <1>3, <1>4, <1>9, BytesStep, SizedSets
<1> QED BY <1>3, <1>5, <1>10, <1>11, <1>12

LEMMA BytesUnion ==
    ASSUME NEW ls, NEW S, NEW T, Sized(ls, S \cup T), S \cap T = {}
    PROVE  Bytes(ls, S \cup T) = Bytes(ls, S) + Bytes(ls, T)
<1> DEFINE Wrong(u) == Bytes(ls, S \cup u) # Bytes(ls, S) + Bytes(ls, u)
           bad == {Cardinality(u) : u \in {v \in SUBSET T : Wrong(v)}}
<1> SUFFICES ASSUME Wrong(T) PROVE FALSE
  OBVIOUS
<1>0. /\ Sized(ls, S) /\ Bytes(ls, S) \in Nat
      /\ \A u \in SUBSET T : Sized(ls, u) /\ Cardinality(u) \in Nat /\ Sized(ls, S \cup u)
  <2>1. Sized(ls, S) /\ \A u \in SUBSET T : Sized(ls, u) /\ Sized(ls, S \cup u)
    BY SizedSets
  <2> QED BY <2>1, SizedSets, BytesStep
<1>1. PICK m \in bad : \A i \in bad : m <= i
  <2>1. bad \in SUBSET Nat /\ bad # {}
    <3> HIDE DEF Wrong
    <3> QED BY <1>0
  <2> HIDE DEF bad
  <2> QED BY <2>1, LeastNatural
<1>2. PICK u \in SUBSET T : Wrong(u) /\ m = Cardinality(u)
  BY <1>1
<1>3. u # {}
  <2>1. Sized(ls, {}) /\ S \cup {} = S
    BY <1>0
  <2>2. Bytes(ls, {}) = 0
    BY <2>1, BytesStep
  <2>3. ~Wrong({})
    BY <1>0, <2>1, <2>2
  <2> QED BY <1>2, <2>3
<1>4. PICK x : x \in u
  BY <1>3
<1> DEFINE v == u \ {x}
<1>5. /\ v \in SUBSET T /\ Cardinality(v) = m - 1 /\ m \in Nat /\ Bytes(ls, v) \in Nat
      /\ ls[x].bytes \in Nat
  <2>1. v \in SUBSET T /\ Sized(ls, u)
    BY <1>0
  <2>2. Sized(ls, v)
    BY <1>0, <2>1
  <2>3. Bytes(ls, v) \in Nat
    BY <2>2, BytesStep
  <2>4. Cardinality(v) = m - 1 /\ m \in Nat /\ ls[x].bytes \in Nat
    BY <1>2, <1>4, <2>1, SizedSets
  <2> QED BY <2>1, <2>3, <2>4
<1>6. ~Wrong(v)
  <2> HIDE DEF Wrong, v
  <2> QED BY <1>1, <1>5
<1>7. Bytes(ls, u) = ls[x].bytes + Bytes(ls, v)
  <2>1. Sized(ls, u)
    BY <1>0
  <2> QED BY <1>4, <2>1, BytesWithout
<1>8. Bytes(ls, S \cup u) = ls[x].bytes + Bytes(ls, S \cup v)
  <2>1. x \in S \cup u /\ (S \cup u) \ {x} = S \cup v /\ Sized(ls, S \cup u)
    BY <1>0, <1>2, <1>4
  <2> HIDE DEF v
  <2> QED BY <2>1, BytesWithout
<1>9. Bytes(ls, S \cup v) = Bytes(ls, S) + Bytes(ls, v)
  BY <1>6
<1> QED BY <1>0, <1>2, <1>5, <1>7, <1>8, <1>9

-----------------------------------------------------------------------------
(* Leases that end.                                                        *)

AllLeases == [MutationIds -> Leases \cup {None}]

(* ms is ls after the leases of D, active in ls, have ended.               *)
Ends(ls, ms, D) ==
    /\ ls \in AllLeases /\ ms \in AllLeases /\ D \subseteq Active(ls)
    /\ \A i \in MutationIds : i \notin D => ms[i] = ls[i]
    /\ \A i \in D :
          /\ ms[i] # None /\ ms[i].lifecycle # "active"
          /\ ms[i].partition = ls[i].partition /\ ms[i].start = ls[i].start
          /\ ms[i].end = ls[i].end /\ ms[i].bytes = ls[i].bytes
          /\ ms[i].expires = ls[i].expires /\ ms[i].hard = ls[i].hard

LEMMA LeaseFields ==
    ASSUME NEW ls \in AllLeases, NEW i \in MutationIds, ls[i] # None
    PROVE  /\ ls[i] \in Leases
           /\ ls[i].partition \in Partitions /\ ls[i].start \in Offsets /\ ls[i].end \in Offsets
           /\ ls[i].bytes \in Nat /\ ls[i].expires \in Nat /\ ls[i].hard \in Nat
           /\ ls[i].lifecycle \in {"active", "expired", "released"}
           /\ ls[i].start \in Nat /\ ls[i].end \in Nat
<1>1. ls[i] \in Leases
  BY DEF AllLeases
<1>2. /\ ls[i].partition \in Partitions /\ ls[i].start \in Offsets /\ ls[i].end \in Offsets
      /\ ls[i].bytes \in Nat /\ ls[i].expires \in Nat /\ ls[i].hard \in Nat
      /\ ls[i].lifecycle \in {"active", "expired", "released"}
  BY <1>1 DEF Leases
<1>3. Offsets \subseteq Nat
  BY RetentionAssumption DEF Offsets
<1> QED BY <1>1, <1>2, <1>3

LEMMA ActiveSized ==
    ASSUME NEW ls \in AllLeases, IsFiniteSet(Active(ls))
    PROVE  Sized(ls, Active(ls))
BY LeaseFields DEF Sized, Active

LEMMA EndsActive ==
    ASSUME NEW ls, NEW ms, NEW D, Ends(ls, ms, D)
    PROVE  /\ Active(ms) = Active(ls) \ D
           /\ \A i \in Active(ms) : ms[i] = ls[i]
           /\ \A i \in MutationIds : ms[i] # None <=> ls[i] # None
BY DEF Ends, Active

(* The budget gives back what ended.                                       *)
LEMMA EndsBudget ==
    ASSUME NEW ls, NEW ms, NEW D, Ends(ls, ms, D),
           NEW b \in [active : Nat, reserved : Nat], Budgeted(ls, b)
    PROVE  /\ IsFiniteSet(D) /\ Cardinality(D) \in Nat /\ Bytes(ls, D) \in Nat
           /\ Cardinality(D) <= b.active /\ Bytes(ls, D) <= b.reserved
           /\ Budgeted(ms, [active |-> b.active - Cardinality(D),
                            reserved |-> b.reserved - Bytes(ls, D)])
<1> DEFINE A == Active(ls)
           K == A \ D
<1>1. IsFiniteSet(A) /\ Sized(ls, A) /\ D \in SUBSET A /\ K \in SUBSET A /\ K \cup D = A
      /\ K \cap D = {}
  BY ActiveSized DEF Ends, Budgeted
<1>2. Active(ms) = K /\ \A i \in K : ms[i] = ls[i]
  BY EndsActive
<1>3. /\ b.active = Cardinality(A) /\ b.active <= MaxActiveLeases /\ b.active \in Nat
      /\ b.reserved = Bytes(ls, A) /\ b.reserved <= MaxGroupBytes /\ b.reserved \in Nat
  BY DEF Budgeted
<1> HIDE DEF A, K
<1>4. Sized(ls, K) /\ Sized(ls, D) /\ IsFiniteSet(K) /\ IsFiniteSet(D)
  <2>1. Sized(ls, K) /\ Sized(ls, D)
    BY <1>1, SizedSets
  <2> QED BY <2>1 DEF Sized
<1>5. Bytes(ls, K) \in Nat /\ Bytes(ls, D) \in Nat
  BY <1>4, BytesStep
<1>6. Bytes(ls, A) = Bytes(ls, K) + Bytes(ls, D)
  BY <1>1, BytesUnion
<1>7. Cardinality(A) = Cardinality(K) + Cardinality(D) /\ Cardinality(K) \in Nat
      /\ Cardinality(D) \in Nat
  <2>1. Cardinality(K) \in Nat /\ Cardinality(D) \in Nat
    BY <1>4, FS_CardinalityType
  <2>2. Cardinality(K \cup D) = Cardinality(K) + Cardinality(D) - Cardinality(K \cap D)
    BY <1>4, FS_Union
  <2>3. Cardinality(K \cap D) = 0
    BY <1>1, FS_EmptySet
  <2>4. Cardinality(K \cup D) = Cardinality(A)
    BY <1>1, Zenon
  <2> QED BY <2>1, <2>2, <2>3, <2>4
<1>8. Bytes(ms, K) = Bytes(ls, K)
  BY <1>2, <1>4, BytesSame
<1>9. MaxActiveLeases \in Nat /\ MaxGroupBytes \in Nat
  BY RetentionAssumption
<1> DEFINE x == b.active - Cardinality(D)
           y == b.reserved - Bytes(ls, D)
<1>10. /\ x = Cardinality(K) /\ x <= MaxActiveLeases /\ y = Bytes(ls, K) /\ y <= MaxGroupBytes
       /\ Cardinality(D) <= b.active /\ Bytes(ls, D) <= b.reserved
  BY <1>3, <1>5, <1>6, <1>7, <1>9
<1> HIDE DEF x, y
<1>11. Budgeted(ms, [active |-> x, reserved |-> y])
  BY <1>2, <1>4, <1>8, <1>10 DEF Budgeted
<1> QED BY <1>4, <1>5, <1>7, <1>10, <1>11 DEF x, y

LEMMA EndsLeases ==
    ASSUME NEW ls, NEW ms, NEW D, Ends(ls, ms, D), NEW tl, NEW en, NEW rs, NEW t,
           LeasesOK(ls, tl, en, rs, t),
           \A i \in D : ms[i].lifecycle = "expired" => ms[i].expires <= t \/ ms[i].hard <= t
    PROVE  LeasesOK(ms, tl, en, rs, t)
<1> SUFFICES ASSUME NEW i \in MutationIds, ms[i] # None
             PROVE  LeaseOK(ms[i], tl[ms[i].partition], en[ms[i].partition],
                            rs[ms[i].partition], t)
  BY Zenon DEF LeasesOK
<1>1. ls[i] # None
  BY EndsActive
<1>2. LeaseOK(ls[i], tl[ls[i].partition], en[ls[i].partition], rs[ls[i].partition], t)
  BY <1>1, Zenon DEF LeasesOK
<1>3. CASE i \in D
  <2>1. /\ ms[i].lifecycle # "active"
        /\ ms[i].partition = ls[i].partition /\ ms[i].start = ls[i].start
        /\ ms[i].end = ls[i].end /\ ms[i].bytes = ls[i].bytes
    BY <1>3 DEF Ends
  <2> QED BY <1>2, <1>3, <2>1 DEF LeaseOK
<1>4. CASE i \notin D
  <2>1. ms[i] = ls[i]
    BY <1>4 DEF Ends
  <2> QED BY <1>2, <2>1
<1> QED BY <1>3, <1>4

-----------------------------------------------------------------------------
(* Applying a command under clock c.                                       *)

LEMMA ClockFacts ==
    ASSUME IInv, NEW t \in 0 .. now
    PROVE  /\ AdvanceClock(Observation(t)) \in Clocks
           /\ AdvanceClock(Observation(t)).lower <= now
           /\ AdvanceClock(Observation(t)).lower \in Nat
           /\ AdvanceClock(Observation(t)).upper \in Nat
           /\ AdvanceClock(Observation(t)) # None
<1> DEFINE o == Observation(t)
<1>1. now \in Nat /\ t \in Nat /\ t <= now /\ Skew \in Nat
  BY RetentionAssumption DEF IInv, TypeOK
<1>2. Monus(t, Skew) \in Nat /\ Monus(t, Skew) <= now /\ t + Skew \in Nat
  BY <1>1 DEF Monus
<1>3. o \in Clocks /\ o.lower \in Nat /\ o.upper \in Nat /\ o.lower <= now
  BY <1>2 DEF Observation, Clocks
<1> HIDE DEF o
<1>4. CASE clock = None
  <2>1. AdvanceClock(o) = o
    BY <1>4 DEF AdvanceClock
  <2> QED BY <1>3, <2>1, NoneAssumption DEF o
<1>5. CASE clock # None
  <2>1. clock \in Clocks /\ clock.lower <= now
    BY <1>5 DEF IInv, TypeOK
  <2>2. clock.lower \in Nat /\ clock.upper \in Nat
    BY <2>1 DEF Clocks
  <2> DEFINE x == Larger(clock.lower, o.lower)
             y == Larger(clock.upper, o.upper)
  <2>3. x \in Nat /\ x <= now /\ y \in Nat
    BY <1>1, <1>3, <2>1, <2>2 DEF Larger
  <2>4. AdvanceClock(o) = [lower |-> x, upper |-> y]
    BY <1>5 DEF AdvanceClock
  <2> HIDE DEF x, y
  <2>5. [lower |-> x, upper |-> y] \in Clocks
    BY <2>3 DEF Clocks
  <2> QED BY <2>3, <2>4, <2>5, NoneAssumption DEF o
<1> QED BY <1>4, <1>5

(* expire_due_leases ends the leases that are due.                         *)
LEMMA ExpiryEnds ==
    ASSUME IInv, NEW c \in Clocks, c.lower \in Nat, c.lower <= now
    PROVE  /\ Ends(leases, ExpiredLeases(c), Due(c))
           /\ \A i \in Due(c) : ExpiredLeases(c)[i].expires <= now
                                  \/ ExpiredLeases(c)[i].hard <= now
<1> DEFINE E == ExpiredLeases(c)
<1>1. leases \in AllLeases /\ now \in Nat
  BY RetentionAssumption DEF IInv, TypeOK, AllLeases
<1>2. ASSUME NEW i \in MutationIds, ~IsDue(i, c) PROVE E[i] = leases[i]
  BY <1>2 DEF ExpiredLeases
<1>3. ASSUME NEW i \in MutationIds, IsDue(i, c)
      PROVE  /\ E[i] \in Leases /\ E[i].lifecycle = "expired"
             /\ E[i].partition = leases[i].partition /\ E[i].start = leases[i].start
             /\ E[i].end = leases[i].end /\ E[i].bytes = leases[i].bytes
             /\ E[i].expires = leases[i].expires /\ E[i].hard = leases[i].hard
             /\ E[i].expires <= now \/ E[i].hard <= now
  <2>1. leases[i] # None /\ leases[i].lifecycle = "active" /\ ~EffectivelyActive(leases[i], c)
    BY <1>3 DEF IsDue
  <2>2. leases[i] \in Leases /\ leases[i].expires \in Nat /\ leases[i].hard \in Nat
    BY <1>1, <2>1, LeaseFields
  <2>3. E[i] = [leases[i] EXCEPT !.lifecycle = "expired"]
    BY <1>3 DEF ExpiredLeases
  <2>4. /\ E[i] \in Leases /\ E[i].lifecycle = "expired"
        /\ E[i].partition = leases[i].partition /\ E[i].start = leases[i].start
        /\ E[i].end = leases[i].end /\ E[i].bytes = leases[i].bytes
        /\ E[i].expires = leases[i].expires /\ E[i].hard = leases[i].hard
    BY <2>2, <2>3 DEF Leases
  <2>5. leases[i].expires <= now \/ leases[i].hard <= now
    BY <1>1, <2>1, <2>2 DEF EffectivelyActive
  <2> QED BY <2>4, <2>5
<1>4. \A i \in MutationIds : i \in Due(c) <=> IsDue(i, c)
  BY DEF Due
<1>5. Due(c) \subseteq Active(leases)
  BY DEF Due, IsDue, Active
<1>6. E \in AllLeases
  <2>1. E = [i \in MutationIds |-> E[i]]
    BY DEF ExpiredLeases
  <2>2. \A i \in MutationIds : E[i] \in Leases \cup {None}
    BY <1>1, <1>2, <1>3 DEF AllLeases
  <2> HIDE DEF E
  <2> QED BY <2>1, <2>2 DEF AllLeases
<1> HIDE DEF E
<1>7. Due(c) \subseteq MutationIds
  BY DEF Due
<1>8. Ends(leases, E, Due(c))
  BY <1>1, <1>2, <1>3, <1>4, <1>5, <1>6, <1>7, NoneAssumption DEF Ends
<1> QED BY <1>3, <1>4, <1>7, <1>8 DEF E

LEMMA MonusIs ==
    ASSUME NEW x \in Nat, NEW y \in Nat, y <= x
    PROVE  Monus(x, y) = x - y /\ x - y \in Nat
BY DEF Monus

LEMMA ExpiryBudget ==
    ASSUME IInv, NEW c \in Clocks, c.lower \in Nat, c.lower <= now
    PROVE  /\ Budgeted(ExpiredLeases(c), ExpiredBudget(c))
           /\ ExpiredBudget(c) \in [active : Nat, reserved : Nat]
<1>1. Ends(leases, ExpiredLeases(c), Due(c))
  BY ExpiryEnds
<1>2. budget \in [active : Nat, reserved : Nat] /\ Budgeted(leases, budget)
  BY DEF IInv, TypeOK
<1> DEFINE a == Cardinality(Due(c))
           y == Bytes(leases, Due(c))
           b == [active |-> budget.active - a, reserved |-> budget.reserved - y]
<1>3. /\ a \in Nat /\ y \in Nat /\ a <= budget.active /\ y <= budget.reserved
      /\ Budgeted(ExpiredLeases(c), b)
  BY <1>1, <1>2, EndsBudget
<1> HIDE DEF a, y
<1>4. budget.active \in Nat /\ budget.reserved \in Nat
  BY <1>2
<1>5. /\ Monus(budget.active, a) = budget.active - a /\ budget.active - a \in Nat
      /\ Monus(budget.reserved, y) = budget.reserved - y /\ budget.reserved - y \in Nat
  BY <1>3, <1>4, MonusIs
<1>6. ExpiredBudget(c) = b
  BY <1>5 DEF ExpiredBudget, a, y
<1> QED BY <1>3, <1>5, <1>6

(* LowestStart is a minimum.                                               *)
LEMMA LowestStartIs ==
    ASSUME IInv, NEW is, is \subseteq Active(leases), NEW p \in Partitions, NEW none
    PROVE  \/ /\ LowestStart(is, p, none) = none
              /\ \A j \in is : leases[j].partition = p => ~(leases[j].start < ret[p].floor)
           \/ /\ LowestStart(is, p, none) \in Offsets
              /\ LowestStart(is, p, none) < ret[p].floor
              /\ \A j \in is : leases[j].partition = p /\ leases[j].start < ret[p].floor
                                  => LowestStart(is, p, none) <= leases[j].start
<1> DEFINE hit == {j \in is : leases[j].partition = p /\ leases[j].start < ret[p].floor}
           starts == {leases[i].start : i \in hit}
<1>1. LowestStart(is, p, none) = IF starts = {} THEN none
                                 ELSE CHOOSE s \in starts : \A u \in starts : s <= u
  BY DEF LowestStart
<1>2. \A j \in is : leases[j].start \in Offsets /\ leases[j].start \in Nat
  BY LeaseFields DEF IInv, TypeOK, Active, AllLeases
<1>3. CASE starts = {}
  BY <1>1, <1>3
<1>4. CASE starts # {}
  <2>1. starts \in SUBSET Nat
    BY <1>2
  <2> DEFINE low == CHOOSE s \in starts : \A u \in starts : s <= u
  <2>2. low \in starts /\ \A u \in starts : low <= u
    <3> HIDE DEF starts
    <3>1. \E s \in starts : \A u \in starts : s <= u
      BY <1>4, <2>1, LeastNatural
    <3> QED BY <3>1
  <2> HIDE DEF low
  <2>3. LowestStart(is, p, none) = low
    BY <1>1, <1>4 DEF low
  <2>4. PICK i \in hit : low = leases[i].start
    BY <2>2
  <2>5. low \in Offsets /\ low < ret[p].floor
    BY <1>2, <2>4
  <2>6. \A j \in is : leases[j].partition = p /\ leases[j].start < ret[p].floor
                         => low <= leases[j].start
    BY <2>2
  <2> QED BY <2>3, <2>5, <2>6
<1> QED BY <1>3, <1>4

Rets == [floor : Offsets, cursor : Offsets, floorBytes : Nat, expired : Nat]

LEMMA RetFields ==
    ASSUME IInv, NEW p \in Partitions
    PROVE  /\ ret[p] \in Rets
           /\ ret[p].floor \in Offsets /\ ret[p].cursor \in Offsets
           /\ ret[p].floor \in Nat /\ ret[p].cursor \in Nat
           /\ ret[p].floorBytes \in Nat /\ ret[p].expired \in Nat
           /\ tail[p] \in Offsets /\ tail[p] \in Nat /\ MaxTail \in Nat /\ tail[p] <= MaxTail
           /\ ret[p].cursor <= ret[p].floor /\ ret[p].floor <= tail[p]
           /\ records[p] \subseteq 0 .. tail[p] - 1 /\ records[p] \subseteq Offsets
           /\ hint[p] \in Offsets \cup {None}
<1>1. /\ ret[p] \in Rets /\ tail[p] \in Offsets /\ records[p] \subseteq Offsets
      /\ hint[p] \in Offsets \cup {None}
  BY DEF IInv, TypeOK, Rets
<1>2. PartitionOK(tail[p], ends[p], records[p], ret[p])
  BY DEF IInv
<1>3. Offsets \subseteq Nat /\ MaxTail \in Nat /\ \A o \in Offsets : o <= MaxTail
  BY RetentionAssumption DEF Offsets
<1>4. /\ ret[p].floor \in Offsets /\ ret[p].cursor \in Offsets
      /\ ret[p].floorBytes \in Nat /\ ret[p].expired \in Nat
  BY <1>1 DEF Rets
<1>5. /\ ret[p].cursor <= ret[p].floor /\ ret[p].floor <= tail[p]
      /\ records[p] \subseteq 0 .. tail[p] - 1
  BY <1>2 DEF PartitionOK
<1> QED BY <1>1, <1>3, <1>4, <1>5

(* Rewind lowers cursors and touches nothing else.                         *)
LEMMA RewindIs ==
    ASSUME IInv, NEW is, is \subseteq Active(leases)
    PROVE  /\ Rewind(is) \in [Partitions -> Rets]
           /\ \A p \in Partitions :
                 /\ Rewind(is)[p].floor = ret[p].floor
                 /\ Rewind(is)[p].floorBytes = ret[p].floorBytes
                 /\ Rewind(is)[p].cursor \in Offsets /\ Rewind(is)[p].cursor \in Nat
                 /\ Rewind(is)[p].cursor <= ret[p].cursor
                 /\ fence => Rewind(is)[p].cursor = ret[p].cursor
                 /\ ~fence => \A j \in is : leases[j].partition = p
                                 /\ leases[j].start < ret[p].floor
                                    => Rewind(is)[p].cursor <= leases[j].start
<1>1. CASE fence
  <2>1. Rewind(is) = ret
    BY <1>1 DEF Rewind
  <2>2. ret \in [Partitions -> Rets]
    BY DEF IInv, TypeOK, Rets
  <2> QED BY <1>1, <2>1, <2>2, RetFields
<1>2. CASE ~fence
  <2> DEFINE low(p) == LowestStart(is, p, ret[p].cursor)
             new(p) == Smaller(ret[p].cursor, low(p))
             R == [p \in Partitions |-> [ret[p] EXCEPT !.cursor = new(p)]]
  <2>1. Rewind(is) = R
    BY <1>2 DEF Rewind
  <2>2. ASSUME NEW p \in Partitions
        PROVE  /\ new(p) \in Offsets /\ new(p) \in Nat /\ new(p) <= ret[p].cursor
               /\ \A j \in is : leases[j].partition = p /\ leases[j].start < ret[p].floor
                                    => new(p) <= leases[j].start
    <3>1. /\ ret[p].cursor \in Offsets /\ ret[p].cursor \in Nat /\ ret[p].floor \in Nat
      BY RetFields
    <3>2. \A j \in is : leases[j].start \in Nat
      BY LeaseFields DEF IInv, TypeOK, Active, AllLeases
    <3>3. Offsets \subseteq Nat
      BY RetentionAssumption DEF Offsets
    <3>4. \/ /\ low(p) = ret[p].cursor
             /\ \A j \in is : leases[j].partition = p => ~(leases[j].start < ret[p].floor)
          \/ /\ low(p) \in Offsets
             /\ \A j \in is : leases[j].partition = p /\ leases[j].start < ret[p].floor
                                 => low(p) <= leases[j].start
      BY LowestStartIs
    <3> DEFINE l == low(p)
               k == ret[p].cursor
    <3> HIDE DEF l
    <3>5. l \in Nat /\ l \in Offsets
      BY <3>1, <3>3, <3>4 DEF l
    <3>6. Smaller(k, l) \in Offsets /\ Smaller(k, l) \in Nat /\ Smaller(k, l) <= k
          /\ Smaller(k, l) <= l
      BY <3>1, <3>5 DEF Smaller
    <3>7. new(p) = Smaller(k, l)
      BY DEF l
    <3> HIDE DEF k, new
    <3>8. ASSUME NEW j \in is, leases[j].partition = p, leases[j].start < ret[p].floor
          PROVE  new(p) <= leases[j].start
      <4>1. l <= leases[j].start
        BY <3>4, <3>8 DEF l
      <4> QED BY <4>1, <3>2, <3>5, <3>6, <3>7
    <3> QED BY <3>6, <3>7, <3>8 DEF k
  <2> HIDE DEF new
  <2>3. ASSUME NEW p \in Partitions
        PROVE  /\ R[p] \in Rets /\ R[p].cursor = new(p) /\ R[p].floor = ret[p].floor
               /\ R[p].floorBytes = ret[p].floorBytes
    <3>1. ret[p] \in Rets /\ new(p) \in Offsets
      BY <2>2, RetFields
    <3> QED BY <3>1 DEF Rets
  <2>4. R \in [Partitions -> Rets]
    BY <2>3
  <2> HIDE DEF R
  <2> QED BY <1>2, <2>1, <2>2, <2>3, <2>4
<1> QED BY <1>1, <1>2

(* Remember lowers hints, and only under the fence.                        *)
LEMMA RememberIs ==
    ASSUME IInv, NEW is, is \subseteq Active(leases)
    PROVE  /\ Remember(is) \in [Partitions -> Offsets \cup {None}]
           /\ \A p \in Partitions :
                 /\ Remember(is)[p] # None => fence
                 /\ hint[p] # None => Remember(is)[p] # None /\ Remember(is)[p] <= hint[p]
                 /\ fence => \A j \in is : leases[j].partition = p
                                /\ leases[j].start < ret[p].floor
                                   => Remember(is)[p] # None /\ Remember(is)[p] <= leases[j].start
<1>0. None \notin Offsets /\ Offsets \subseteq Nat
  BY RetentionAssumption, NoneAssumption DEF Offsets
<1>1. CASE ~fence
  <2>1. Remember(is) = hint
    BY <1>1 DEF Remember
  <2>2. hint \in [Partitions -> Offsets \cup {None}] /\ \A p \in Partitions : hint[p] = None
    BY <1>1 DEF IInv, TypeOK
  <2> QED BY <1>1, <2>1, <2>2
<1>2. CASE fence
  <2> DEFINE low(p) == LowestStart(is, p, None)
             new(p) == IF hint[p] = None \/ low(p) = None
                       THEN IF hint[p] = None THEN low(p) ELSE hint[p]
                       ELSE Smaller(hint[p], low(p))
             R == [p \in Partitions |-> new(p)]
  <2>1. Remember(is) = R
    BY <1>2 DEF Remember
  <2>2. ASSUME NEW p \in Partitions
        PROVE  /\ new(p) \in Offsets \cup {None}
               /\ hint[p] # None => new(p) # None /\ new(p) <= hint[p]
               /\ \A j \in is : leases[j].partition = p /\ leases[j].start < ret[p].floor
                                    => new(p) # None /\ new(p) <= leases[j].start
    <3>1. hint[p] \in Offsets \cup {None}
      BY RetFields
    <3>2. \A j \in is : leases[j].start \in Nat
      BY LeaseFields DEF IInv, TypeOK, Active, AllLeases
    <3> DEFINE l == low(p)
               h == hint[p]
    <3>3. \/ /\ l = None
             /\ \A j \in is : leases[j].partition = p => ~(leases[j].start < ret[p].floor)
          \/ /\ l \in Offsets
             /\ \A j \in is : leases[j].partition = p /\ leases[j].start < ret[p].floor
                                 => l <= leases[j].start
      BY LowestStartIs
    <3>4. l \in Offsets \cup {None}
      BY <3>3
    <3> DEFINE n == new(p)
    <3>5. /\ n = IF h = None \/ l = None THEN IF h = None THEN l ELSE h ELSE Smaller(h, l)
          /\ h \in Offsets \cup {None}
      BY <3>1
    <3> HIDE DEF l, h, n, new, low
    <3>6. /\ n \in Offsets \cup {None}
          /\ h # None => n # None /\ n <= h
          /\ l # None => n # None /\ n <= l
      BY <1>0, <3>4, <3>5 DEF Smaller
    <3>7. ASSUME NEW j \in is, leases[j].partition = p, leases[j].start < ret[p].floor
          PROVE  n # None /\ n <= leases[j].start
      <4>1. l # None /\ l \in Nat /\ l <= leases[j].start
        BY <1>0, <3>3, <3>7
      <4>2. n \in Nat /\ n # None /\ n <= l
        BY <1>0, <3>6, <4>1
      <4> QED BY <4>1, <4>2, <3>2
    <3> QED BY <3>6, <3>7 DEF n, h
  <2> HIDE DEF new
  <2>3. R \in [Partitions -> Offsets \cup {None}] /\ \A p \in Partitions : R[p] = new(p)
    BY <2>2
  <2> HIDE DEF R
  <2> QED BY <1>2, <2>1, <2>2, <2>3
<1> QED BY <1>1, <1>2

(* Ending leases leaves nothing behind that will not be come back for.     *)
LEMMA EndsKept ==
    ASSUME IInv, NEW ms, NEW D, Ends(leases, ms, D), NEW p \in Partitions
    PROVE  Kept(p, records[p], Rewind(D)[p].cursor, ms, fence, Remember(D)[p])
<1>1. D \subseteq Active(leases) /\ Active(ms) = Active(leases) \ D
      /\ \A i \in Active(ms) : ms[i] = leases[i]
  <2>1. D \subseteq Active(leases)
    BY DEF Ends
  <2> QED BY <2>1, EndsActive, Zenon
<1>2. Kept(p, records[p], ret[p].cursor, leases, fence, hint[p])
  BY DEF IInv
<1> DEFINE k == Rewind(D)[p].cursor
           h == Remember(D)[p]
<1>3. /\ k \in Nat /\ k <= ret[p].cursor
  BY <1>1, RewindIs
<1>3a. ~fence => \A j \in D : leases[j].partition = p /\ leases[j].start < ret[p].floor
                                   => k <= leases[j].start
  BY <1>1, RewindIs
<1>4. /\ h \in Offsets \cup {None}
      /\ hint[p] # None => h # None /\ h <= hint[p]
      /\ fence => \A j \in D : leases[j].partition = p /\ leases[j].start < ret[p].floor
                                   => h # None /\ h <= leases[j].start
  BY <1>1, RememberIs
<1>5. /\ Offsets \subseteq Nat /\ hint[p] \in Offsets \cup {None} /\ records[p] \subseteq Offsets
      /\ ret[p].floor \in Nat /\ ret[p].cursor \in Nat /\ ret[p].cursor <= ret[p].floor
  BY RetFields, RetentionAssumption DEF Offsets
<1> HIDE DEF k, h
<1>6. ASSUME NEW o \in records[p], o < k
      PROVE  (\E i \in Active(ms) : Covers(ms[i], p, o)) \/ (fence /\ h # None /\ h <= o)
  <2>1. o \in Nat /\ o < ret[p].cursor /\ o < ret[p].floor
    <3> DEFINE cursor == ret[p].cursor
               floor == ret[p].floor
    <3>1. o \in Nat
      BY <1>5, Zenon
    <3>2. o < k /\ k \in Nat /\ k <= cursor /\ cursor \in Nat /\ floor \in Nat /\ cursor <= floor
      BY <1>3, <1>5, <1>6, Zenon
    <3> HIDE DEF cursor, floor
    <3>3. o < cursor /\ o < floor
      BY <3>1, <3>2
    <3> QED BY <3>1, <3>3 DEF cursor, floor
  <2>2. \/ \E i \in Active(leases) : Covers(leases[i], p, o)
        \/ fence /\ hint[p] # None /\ hint[p] <= o
    BY <1>2, <2>1 DEF Kept
  <2>3. CASE fence /\ hint[p] # None /\ hint[p] <= o
    <3>1. h # None /\ h <= hint[p] /\ hint[p] <= o
      BY <1>4, <2>3
    <3>2. h \in Nat /\ hint[p] \in Nat
      BY <1>4, <1>5, <2>3, <3>1
    <3>3. h <= o
      BY <2>1, <3>1, <3>2
    <3> QED BY <2>3, <3>1, <3>3
  <2>4. ASSUME NEW i \in Active(leases), Covers(leases[i], p, o)
        PROVE  (\E j \in Active(ms) : Covers(ms[j], p, o)) \/ (fence /\ h # None /\ h <= o)
    <3>1. CASE i \notin D
      <4>1. i \in Active(ms) /\ ms[i] = leases[i]
        BY <1>1, <3>1
      <4> QED BY <2>4, <4>1
    <3>2. CASE i \in D
      <4>1. leases[i].start \in Nat
        BY LeaseFields DEF IInv, TypeOK, Active, AllLeases
      <4>2. leases[i].partition = p /\ leases[i].start <= o
        BY <2>4 DEF Covers
      <4>3. leases[i].start < ret[p].floor
        BY <1>5, <2>1, <4>1, <4>2
      <4>4. CASE fence
        <5>1. h # None /\ h <= leases[i].start
          BY <1>4, <3>2, <4>2, <4>3, <4>4
        <5> QED BY <1>4, <1>5, <2>1, <4>1, <4>2, <4>4, <5>1
      <4>5. CASE ~fence
        <5>1. k <= leases[i].start
          BY <1>3a, <3>2, <4>2, <4>3, <4>5
        <5> QED BY <1>3, <1>6, <2>1, <4>1, <4>2, <5>1
      <4> QED BY <4>4, <4>5
    <3> QED BY <3>1, <3>2
  <2> QED BY <2>2, <2>3, <2>4
<1> QED BY <1>6 DEF Kept, k, h

-----------------------------------------------------------------------------
(* Mutation receipts.                                                      *)

LEMMA MutationFields ==
    ASSUME NEW m \in Mutations
    PROVE  /\ m.id \in MutationIds /\ m.id.session \in Sessions /\ m.id.sequence \in Nat
           /\ m.partition \in Partitions
           /\ m.type = "advance" => m.target \in Offsets
           /\ m.type = "admit" => /\ m.start \in Offsets /\ m.end \in Offsets
                                  /\ m.start < m.end /\ m.bytes \in Nat /\ m.duration \in Nat
           /\ m.type = "renew" => m.lease \in MutationIds /\ m.duration \in Nat
           /\ m.type = "release" => m.lease \in MutationIds
BY MutationsAssumption DEF MutationIds

LEMMA MutationIdFields ==
    ASSUME NEW i \in MutationIds
    PROVE  i.session \in Sessions /\ i.sequence \in Nat
BY MutationsAssumption DEF MutationIds

LEMMA RejectionIsResult ==
    ASSUME NEW why \in Reasons
    PROVE  Rejected(why) \in Results /\ Rejected(why) # None
BY NoneAssumption DEF Rejected, Results

(* A mutation without a prior result is new to its session.                *)
LEMMA NewMutation ==
    ASSUME IInv, NEW m \in Mutations, Prior(m) = None
    PROVE  receipts[m.id] = None /\ m.id.sequence > sessions[m.id.session].highest
<1>1. m.id \in MutationIds /\ m.id.session \in Sessions /\ m.id.sequence \in Nat
  BY MutationFields
<1>2. receipts[m.id] \in [mutation : Mutations, result : Results] \cup {None}
  BY <1>1 DEF IInv, TypeOK
<1>3. sessions[m.id.session].highest \in Int
  BY <1>1 DEF IInv, TypeOK
<1>4. Rejected("receipt_expired") # None /\ Rejected("conflict") # None /\ None \notin Results
  <2>1. "receipt_expired" \in Reasons /\ "conflict" \in Reasons
    BY DEF Reasons
  <2>2. Rejected("receipt_expired") # None /\ Rejected("conflict") # None
    BY <2>1, RejectionIsResult
  <2> QED BY <2>1, <2>2, NoneAssumption
<1>5. receipts[m.id] = None
  <2> SUFFICES ASSUME receipts[m.id] # None PROVE FALSE
    OBVIOUS
  <2>1. receipts[m.id].result \in Results
    BY <1>2
  <2> QED BY <1>4, <2>1 DEF Prior
<1> QED BY <1>1, <1>3, <1>4, <1>5 DEF Prior

LEMMA StoreKeeps ==
    ASSUME IInv, NEW m \in Mutations, Prior(m) = None, NEW result \in Results,
           StoreResult(m, result)
    PROVE  /\ receipts' \in [MutationIds -> [mutation : Mutations, result : Results] \cup {None}]
           /\ sessions' \in [Sessions -> [highest : Int, retained : Seq(Nat)]]
           /\ Closed(leases, sessions')
           /\ m.id.sequence <= sessions'[m.id.session].highest
           /\ leases[m.id] = None
<1> DEFINE s == m.id.session
           kept == Append(sessions[s].retained, m.id.sequence)
           full == Len(kept) > ReceiptWindow
           gone == IF full THEN {[session |-> s, sequence |-> Head(kept)]} ELSE {}
           left == IF full THEN Tail(kept) ELSE kept
<1>1. /\ receipts' = [i \in MutationIds |->
                        IF i \in gone THEN None
                        ELSE IF i = m.id THEN [mutation |-> m, result |-> result]
                        ELSE receipts[i]]
      /\ sessions' = [sessions EXCEPT ![s] = [highest |-> m.id.sequence, retained |-> left]]
  BY DEF StoreResult
<1>2. m.id \in MutationIds /\ s \in Sessions /\ m.id.sequence \in Nat
  BY MutationFields
<1>3. sessions \in [Sessions -> [highest : Int, retained : Seq(Nat)]]
      /\ receipts \in [MutationIds -> [mutation : Mutations, result : Results] \cup {None}]
  BY DEF IInv, TypeOK
<1>4. kept \in Seq(Nat) /\ Len(kept) > 0
  <2>1. sessions[s].retained \in Seq(Nat)
    BY <1>2, <1>3
  <2> QED BY <1>2, <2>1
<1>5. left \in Seq(Nat)
  <2> HIDE DEF kept
  <2> QED BY <1>4
<1> HIDE DEF gone, left
<1>6. receipts' \in [MutationIds -> [mutation : Mutations, result : Results] \cup {None}]
  BY <1>1, <1>3
<1>7. sessions' \in [Sessions -> [highest : Int, retained : Seq(Nat)]]
  BY <1>1, <1>2, <1>3, <1>5
<1>8. /\ sessions'[s].highest = m.id.sequence
      /\ \A x \in Sessions : x # s => sessions'[x] = sessions[x]
  BY <1>1, <1>2, <1>3
<1>9. m.id.sequence > sessions[s].highest
  BY NewMutation
<1>10. ASSUME NEW i \in MutationIds, leases[i] # None
       PROVE  i.sequence <= sessions[i.session].highest
  BY <1>10 DEF IInv, Closed
<1>11. ASSUME NEW i \in MutationIds, leases[i] # None
       PROVE  i.sequence <= sessions'[i.session].highest
  <2>1. i.session \in Sessions /\ i.sequence \in Nat /\ sessions[i.session].highest \in Int
    BY <1>3, MutationIdFields
  <2>2. i.sequence <= sessions[i.session].highest
    BY <1>10, <1>11
  <2>3. CASE i.session = s
    <3>1. sessions'[i.session].highest = m.id.sequence /\ sessions[i.session].highest < m.id.sequence
      BY <1>8, <1>9, <2>3
    <3> DEFINE a == i.sequence
               b == sessions[i.session].highest
               c == m.id.sequence
    <3>2. a \in Nat /\ b \in Int /\ c \in Nat /\ a <= b /\ b < c
      BY <1>2, <2>1, <2>2, <3>1
    <3> HIDE DEF a, b, c
    <3>3. a <= c
      BY <3>2
    <3> QED BY <3>1, <3>3 DEF a, c
  <2>4. CASE i.session # s
    BY <1>8, <2>1, <2>2, <2>4
  <2> QED BY <2>3, <2>4
<1>12. leases[m.id] = None
  <2>1. sessions[s].highest \in Int
    BY <1>2, <1>3
  <2>2. ~(m.id.sequence <= sessions[s].highest)
    BY <1>2, <1>9, <2>1
  <2> QED BY <1>2, <1>10, <2>2
<1>13. m.id.sequence <= sessions'[m.id.session].highest
  BY <1>2, <1>8
<1> QED BY <1>6, <1>7, <1>11, <1>12, <1>13 DEF Closed

-----------------------------------------------------------------------------
(* Lease commands.                                                         *)

(* Active leases of ms are active in ls, over the same ranges.             *)
Protects(ls, ms) ==
    \A i \in Active(ms) :
        /\ i \in Active(ls) /\ ls[i].partition = ms[i].partition
        /\ ls[i].start = ms[i].start /\ ls[i].end = ms[i].end

LEMMA ProtectsKept ==
    ASSUME NEW ls, NEW ms, Protects(ls, ms), NEW p, NEW rs, NEW k, NEW fc, NEW h,
           Kept(p, rs, k, ms, fc, h)
    PROVE  Kept(p, rs, k, ls, fc, h)
<1>1. ASSUME NEW o, NEW i \in Active(ms), Covers(ms[i], p, o)
      PROVE  i \in Active(ls) /\ Covers(ls[i], p, o)
  BY <1>1 DEF Protects, Covers
<1> QED BY <1>1, Zenon DEF Kept

(* What a lease command leaves behind: the leases D ended, which gives ms, *)
(* the leases are then `ls', with budget b and clock c.                    *)
LEMMA Outcome ==
    ASSUME IInv, NEW m \in Mutations, Prior(m) = None, NEW result \in Results,
           StoreResult(m, result),
           NEW ms, NEW D, Ends(leases, ms, D),
           leases' \in AllLeases, LeasesOK(leases', tail, ends, records, now),
           Protects(leases', ms), Closed(leases', sessions'),
           budget' \in [active : Nat, reserved : Nat], Budgeted(leases', budget'),
           clock' \in Clocks \cup {None}, clock' # None => clock'.lower <= now,
           ret' = Rewind(D), hint' = Remember(D),
           UNCHANGED <<logs, records, fence, now>>
    PROVE  IInv'
<1>0. tail' = tail /\ ends' = ends /\ records' = records /\ fence' = fence /\ now' = now
  BY DEF logs
<1>1. D \subseteq Active(leases)
  BY DEF Ends
<1>2. /\ ret' \in [Partitions -> Rets]
      /\ \A p \in Partitions :
            /\ ret'[p].floor = ret[p].floor /\ ret'[p].floorBytes = ret[p].floorBytes
            /\ ret'[p].cursor \in Nat /\ ret'[p].cursor <= ret[p].cursor
  BY <1>1, RewindIs
<1>3. /\ hint' \in [Partitions -> Offsets \cup {None}]
      /\ \A p \in Partitions : hint'[p] # None => fence
  BY <1>1, RememberIs
<1>4. /\ receipts' \in [MutationIds -> [mutation : Mutations, result : Results] \cup {None}]
      /\ sessions' \in [Sessions -> [highest : Int, retained : Seq(Nat)]]
  BY StoreKeeps
<1>5. TypeOK'
  <2>1. /\ tail \in [Partitions -> Offsets] /\ ends \in [Partitions -> Seq(Nat)]
        /\ records \in [Partitions -> SUBSET Offsets] /\ fence \in BOOLEAN
        /\ now \in 0 .. MaxTime
    BY DEF IInv, TypeOK
  <2> QED BY <1>0, <1>2, <1>3, <1>4, <2>1 DEF TypeOK, Rets, AllLeases
<1>6. ASSUME NEW p \in Partitions
      PROVE  PartitionOK(tail[p], ends[p], records[p], ret'[p])
  <2>1. PartitionOK(tail[p], ends[p], records[p], ret[p])
    BY DEF IInv
  <2>2. /\ ret'[p].floor = ret[p].floor /\ ret'[p].floorBytes = ret[p].floorBytes
        /\ ret'[p].cursor \in Nat /\ ret'[p].cursor <= ret[p].cursor
    BY <1>2
  <2>3. ret[p].cursor \in Nat /\ ret[p].floor \in Nat
    BY RetFields
  <2> QED BY <2>1, <2>2, <2>3 DEF PartitionOK
<1>7. \A p \in Partitions : PartitionOK(tail[p], ends[p], records[p], ret[p])'
  BY <1>0, <1>6, Zenon
<1>8. LeasesOK(leases, tail, ends, records, now)'
  BY <1>0, Zenon
<1>9. Closed(leases, sessions)' /\ Budgeted(leases, budget)'
  BY Zenon
<1>10. ASSUME NEW p \in Partitions
       PROVE  Kept(p, records[p], ret'[p].cursor, leases', fence, hint'[p])
  <2>1. Kept(p, records[p], Rewind(D)[p].cursor, ms, fence, Remember(D)[p])
    BY EndsKept
  <2>2. Kept(p, records[p], ret'[p].cursor, ms, fence, hint'[p])
    BY <2>1, Zenon
  <2> QED BY <2>2, ProtectsKept
<1>11. \A p \in Partitions : Kept(p, records[p], ret[p].cursor, leases, fence, hint[p])'
  BY <1>0, <1>10, Zenon
<1>12. (clock # None => clock.lower <= now)'
  BY <1>0
<1>13. (\A p \in Partitions : hint[p] # None => fence)'
  BY <1>0, <1>3
<1> QED BY <1>5, <1>7, <1>8, <1>9, <1>11, <1>12, <1>13, Zenon DEF IInv

(* A refused clock leaves the receipt only.                                *)
LEMMA OnlyStored ==
    ASSUME IInv, NEW m \in Mutations, Prior(m) = None, NEW result \in Results,
           StoreResult(m, result),
           UNCHANGED <<logs, records, ret, hint, leases, budget, clock, fence, now>>
    PROVE  IInv'
<1>0. /\ tail' = tail /\ ends' = ends /\ records' = records /\ ret' = ret /\ hint' = hint
      /\ leases' = leases /\ budget' = budget /\ clock' = clock /\ fence' = fence /\ now' = now
  BY DEF logs
<1>1. /\ receipts' \in [MutationIds -> [mutation : Mutations, result : Results] \cup {None}]
      /\ sessions' \in [Sessions -> [highest : Int, retained : Seq(Nat)]]
      /\ Closed(leases, sessions')
  BY StoreKeeps
<1>2. TypeOK'
  BY <1>0, <1>1 DEF IInv, TypeOK
<1>3. Closed(leases, sessions)'
  BY <1>0, <1>1, Zenon
<1>4. \A p \in Partitions : PartitionOK(tail[p], ends[p], records[p], ret[p])'
  BY <1>0, Zenon DEF IInv
<1>5. LeasesOK(leases, tail, ends, records, now)' /\ Budgeted(leases, budget)'
  BY <1>0, Zenon DEF IInv
<1>6. \A p \in Partitions : Kept(p, records[p], ret[p].cursor, leases, fence, hint[p])'
  BY <1>0, Zenon DEF IInv
<1>7. (clock # None => clock.lower <= now)' /\ (\A p \in Partitions : hint[p] # None => fence)'
  BY <1>0 DEF IInv
<1> QED BY <1>2, <1>3, <1>4, <1>5, <1>6, <1>7, Zenon DEF IInv

LEMMA ProtectsSelf == ASSUME NEW ls PROVE Protects(ls, ls)
BY DEF Protects

(* An expired lease command that is refused writes the expiry only.        *)
LEMMA RefusedCommand ==
    ASSUME IInv, NEW m \in Mutations, Prior(m) = None, NEW result \in Results,
           StoreResult(m, result), NEW c \in Clocks, c.lower \in Nat, c.lower <= now,
           WriteExpiry(c), UNCHANGED clock, UNCHANGED <<logs, records, fence, now>>
    PROVE  IInv'
<1> DEFINE E == ExpiredLeases(c)
<1>1. /\ Ends(leases, E, Due(c))
      /\ \A i \in Due(c) : E[i].expires <= now \/ E[i].hard <= now
  BY ExpiryEnds
<1>2. leases' = E /\ budget' = ExpiredBudget(c) /\ ret' = Rewind(Due(c)) /\ hint' = Remember(Due(c))
  BY DEF WriteExpiry
<1>3. Budgeted(E, ExpiredBudget(c)) /\ ExpiredBudget(c) \in [active : Nat, reserved : Nat]
  BY ExpiryBudget
<1> HIDE DEF E
<1>4. LeasesOK(leases, tail, ends, records, now)
  BY DEF IInv
<1>5. LeasesOK(E, tail, ends, records, now)
  BY <1>1, <1>4, EndsLeases
<1>6. E \in AllLeases /\ Protects(E, E)
  BY <1>1, ProtectsSelf DEF Ends
<1>7. Closed(E, sessions')
  <2>1. Closed(leases, sessions')
    BY StoreKeeps
  <2>2. \A i \in MutationIds : E[i] # None <=> leases[i] # None
    BY <1>1, EndsActive
  <2> QED BY <2>1, <2>2 DEF Closed
<1>8. clock' \in Clocks \cup {None} /\ (clock' # None => clock'.lower <= now)
  BY DEF IInv, TypeOK
<1>9. /\ leases' \in AllLeases /\ LeasesOK(leases', tail, ends, records, now)
      /\ Protects(leases', E) /\ Closed(leases', sessions')
      /\ budget' \in [active : Nat, reserved : Nat] /\ Budgeted(leases', budget')
  BY <1>2, <1>3, <1>5, <1>6, <1>7, Zenon
<1> QED BY <1>1, <1>2, <1>8, <1>9, Outcome

(* Adding an active lease.                                                 *)
LEMMA AddedBudget ==
    ASSUME NEW ls \in AllLeases, NEW i \in MutationIds, ls[i] = None, NEW l \in Leases,
           l.lifecycle = "active",
           NEW b \in [active : Nat, reserved : Nat], Budgeted(ls, b),
           b.active < MaxActiveLeases, b.reserved + l.bytes <= MaxGroupBytes
    PROVE  /\ Budgeted([ls EXCEPT ![i] = l], [active |-> b.active + 1,
                                              reserved |-> b.reserved + l.bytes])
           /\ [active |-> b.active + 1, reserved |-> b.reserved + l.bytes]
                 \in [active : Nat, reserved : Nat]
           /\ [ls EXCEPT ![i] = l] \in AllLeases
           /\ Protects([ls EXCEPT ![i] = l], ls)
<1> DEFINE ms == [ls EXCEPT ![i] = l]
           A == Active(ls)
           B == Active(ms)
<1>1. /\ ms \in AllLeases /\ ms[i] = l /\ \A j \in MutationIds : j # i => ms[j] = ls[j]
      /\ l # None
  BY NoneAssumption DEF AllLeases
<1>2. l.bytes \in Nat
  BY DEF Leases
<1> HIDE DEF ms
<1>3. i \notin A /\ B = A \cup {i} /\ \A j \in A : ms[j] = ls[j]
  BY <1>1 DEF Active
<1>4. /\ IsFiniteSet(A) /\ b.active = Cardinality(A) /\ b.reserved = Bytes(ls, A)
      /\ b.active \in Nat /\ b.reserved \in Nat
  BY DEF Budgeted
<1> HIDE DEF A, B
<1>5. IsFiniteSet(B) /\ Cardinality(B) = b.active + 1
  BY <1>3, <1>4, FS_AddElement
<1>6. Bytes(ms, B) = b.reserved + l.bytes
  <2>1. Sized(ms, B)
    BY <1>1, <1>5, ActiveSized DEF B
  <2>2. i \in B /\ B \ {i} = A
    BY <1>3
  <2>3. Bytes(ms, B) = ms[i].bytes + Bytes(ms, B \ {i})
    BY <2>1, <2>2, BytesWithout
  <2>4. Bytes(ms, A) = Bytes(ls, A)
    <3>1. Sized(ls, A)
      BY <1>4, ActiveSized DEF A
    <3> QED BY <1>3, <3>1, BytesSame
  <2>5. Bytes(ms, B \ {i}) = Bytes(ms, A)
    BY <2>2, Zenon
  <2> QED BY <1>1, <1>2, <1>4, <2>3, <2>4, <2>5
<1> DEFINE x == b.active + 1
           y == b.reserved + l.bytes
<1>7. x \in Nat /\ y \in Nat /\ x <= MaxActiveLeases /\ y <= MaxGroupBytes
  BY <1>2, <1>4, RetentionAssumption
<1>8. Protects(ms, ls)
  BY <1>3 DEF Protects, A, B
<1>9. Budgeted(ms, [active |-> x, reserved |-> y])
  <2> HIDE DEF x, y
  <2>1. Cardinality(B) = x /\ Bytes(ms, B) = y
    BY <1>5, <1>6 DEF x, y
  <2> QED BY <1>5, <1>7, <2>1 DEF Budgeted, B
<1>10. [active |-> x, reserved |-> y] \in [active : Nat, reserved : Nat]
  BY <1>7
<1> HIDE DEF x, y
<1> QED BY <1>1, <1>8, <1>9, <1>10 DEF ms, x, y

(* ms is ls with another deadline t for its active lease i.                *)
Renewal(ls, ms, i, t, b) ==
    /\ ls \in AllLeases /\ i \in Active(ls) /\ t \in Nat /\ Budgeted(ls, b)
    /\ ms = [ls EXCEPT ![i] = [ls[i] EXCEPT !.expires = t]]

Renewed(ls, ms, i, b) ==
    /\ ms \in AllLeases /\ Budgeted(ms, b) /\ Protects(ms, ls)
    /\ \A j \in MutationIds : ms[j] # None <=> ls[j] # None
    /\ \A j \in MutationIds : j # i => ms[j] = ls[j]
    /\ ms[i].lifecycle = "active" /\ ms[i].partition = ls[i].partition
    /\ ms[i].start = ls[i].start /\ ms[i].end = ls[i].end /\ ms[i].bytes = ls[i].bytes

LEMMA RenewedBudget ==
    ASSUME NEW ls, NEW ms, NEW i, NEW t, NEW b, Renewal(ls, ms, i, t, b)
    PROVE  Renewed(ls, ms, i, b)
<1> USE DEF Renewal
<1> DEFINE l == [ls[i] EXCEPT !.expires = t]
<1>0. ms = [ls EXCEPT ![i] = l]
  OBVIOUS
<1>1. i \in MutationIds /\ ls[i] # None /\ ls[i].lifecycle = "active"
  BY DEF Active
<1>2. ls[i] \in Leases
  BY <1>1, LeaseFields
<1>3. /\ l \in Leases /\ l.lifecycle = "active" /\ l.partition = ls[i].partition
      /\ l.start = ls[i].start /\ l.end = ls[i].end /\ l.bytes = ls[i].bytes
  BY <1>1, <1>2 DEF Leases
<1>4. l # None
  BY <1>3, NoneAssumption
<1> HIDE DEF l
<1>5. /\ ms \in AllLeases /\ ms[i] = l /\ \A j \in MutationIds : j # i => ms[j] = ls[j]
  BY <1>0, <1>1, <1>3 DEF AllLeases
<1>6. Active(ms) = Active(ls)
  BY <1>1, <1>3, <1>4, <1>5 DEF Active
<1>7. Budgeted(ms, b)
  <2>1. \A j \in Active(ls) : ms[j].bytes = ls[j].bytes
    BY <1>3, <1>5 DEF Active
  <2>2. Sized(ls, Active(ls))
    BY ActiveSized DEF Budgeted
  <2>3. Bytes(ms, Active(ls)) = Bytes(ls, Active(ls))
    BY <2>1, <2>2, BytesSame
  <2>4. Bytes(ms, Active(ms)) = Bytes(ls, Active(ls)) /\ Cardinality(Active(ms)) = Cardinality(Active(ls))
        /\ (IsFiniteSet(Active(ms)) <=> IsFiniteSet(Active(ls)))
    BY <1>6, <2>3, Zenon
  <2> QED BY <2>4 DEF Budgeted
<1>8. Protects(ms, ls)
  <2>1. \A j \in Active(ls) : ms[j].partition = ls[j].partition /\ ms[j].start = ls[j].start
                              /\ ms[j].end = ls[j].end
    BY <1>3, <1>5 DEF Active
  <2> QED BY <1>6, <2>1 DEF Protects
<1>9. \A j \in MutationIds : ms[j] # None <=> ls[j] # None
  BY <1>1, <1>4, <1>5
<1> QED BY <1>3, <1>5, <1>7, <1>8, <1>9 DEF Renewed

LEMMA EndBeforeIs ==
    ASSUME NEW p, NEW o
    PROVE  EndBefore(p, o) = EndAt(ends[p], o)
BY DEF EndBefore, EndAt

LEMMA EndsRise ==
    ASSUME NEW e, NEW n \in Nat, Rising(e, n), NEW i \in 0 .. n, NEW j \in 0 .. n, i <= j
    PROVE  /\ EndAt(e, i) \in Nat /\ EndAt(e, j) \in Nat
           /\ EndAt(e, i) <= EndAt(e, j) /\ EndAt(e, j) - EndAt(e, i) \in Nat
<1>1. e \in Seq(Nat) /\ Len(e) = n /\ EndAt(e, i) <= EndAt(e, j)
  BY DEF Rising
<1>2. \A k \in 0 .. n : EndAt(e, k) \in Nat
  BY <1>1 DEF EndAt
<1> DEFINE a == EndAt(e, i)
           b == EndAt(e, j)
<1>3. a \in Nat /\ b \in Nat /\ a <= b
  BY <1>1, <1>2
<1> HIDE DEF a, b
<1>4. b - a \in Nat
  BY <1>3
<1> QED BY <1>3, <1>4 DEF a, b

(* admit checks the tail and both budgets.                                 *)
LEMMA Admitted ==
    ASSUME NEW m \in Mutations, m.type = "admit", NEW bytes, NEW b,
           AdmissionError(m, bytes, b) = None
    PROVE  /\ ~(m.end > tail[m.partition])
           /\ ~(b.active >= MaxActiveLeases)
           /\ ~(b.reserved + bytes > MaxGroupBytes)
<1>1. /\ None # "boundary" /\ None # "duration" /\ None # "lease_bytes"
      /\ None # "active_leases" /\ None # "group_bytes"
  BY NoneAssumption DEF Reasons
<1> QED BY <1>1 DEF AdmissionError

LEMMA AdmissionReasons ==
    ASSUME NEW m, NEW bytes, NEW b
    PROVE  AdmissionError(m, bytes, b) \in Reasons \cup {None}
BY DEF AdmissionError, Reasons

LEMMA LeaseReasons ==
    ASSUME NEW m, NEW c
    PROVE  /\ LeaseError(m, c) \in Reasons \cup {None}
           /\ RenewalError(m, c) \in Reasons \cup {None}
<1>1. LeaseError(m, c) \in Reasons \cup {None}
  BY DEF LeaseError, Reasons
<1> QED BY <1>1 DEF RenewalError, Reasons

LEMMA StepAdmit ==
    ASSUME IInv, NEW m \in Mutations, NEW t \in 0 .. now,
           AdmitReplayLease(m, Observation(t))
    PROVE  IInv'
<1> DEFINE o == Observation(t)
           p == m.partition
           c == AdvanceClock(o)
           bytes == IF m.end > tail[p] THEN 0 ELSE RangeBytes(p, m.start, m.end)
           error == AdmissionError(m, bytes, ExpiredBudget(c))
           lease == [partition |-> p, start |-> m.start, end |-> m.end, bytes |-> bytes,
                     expires |-> c.upper + m.duration, hard |-> c.upper + MaxLeaseLifetime,
                     lifecycle |-> "active"]
           E == ExpiredLeases(c)
<1>1. m.type = "admit" /\ Prior(m) = None /\ UNCHANGED <<logs, records, fence, now>>
  BY DEF AdmitReplayLease
<1>2. /\ c \in Clocks /\ c.lower <= now /\ c.lower \in Nat /\ c.upper \in Nat
  BY ClockFacts
<1>3. CASE ~ClockAccepts(o)
  <2>1. StoreResult(m, Rejected("clock")) /\ UNCHANGED <<ret, hint, leases, budget, clock>>
    BY <1>3, Zenon DEF AdmitReplayLease
  <2>2. Rejected("clock") \in Results
    BY RejectionIsResult DEF Reasons
  <2>3. UNCHANGED <<logs, records, ret, hint, leases, budget, clock, fence, now>>
    BY <1>1, <2>1
  <2> QED BY <1>1, <2>1, <2>2, <2>3, OnlyStored
<1>4. CASE ClockAccepts(o) /\ (StartsBelowFloor(m) \/ error # None)
  <2> DEFINE why == IF StartsBelowFloor(m) THEN "cursor_expired" ELSE error
  <2>1. WriteExpiry(c) /\ UNCHANGED clock /\ StoreResult(m, Rejected(why))
    BY <1>4, Zenon DEF AdmitReplayLease
  <2>2. why \in Reasons
    <3>1. error \in Reasons \cup {None}
      BY AdmissionReasons
    <3> HIDE DEF error
    <3> QED BY <1>4, <3>1 DEF Reasons
  <2> HIDE DEF why
  <2>3. Rejected(why) \in Results
    BY <2>2, RejectionIsResult
  <2> HIDE DEF c
  <2> QED BY <1>1, <1>2, <2>1, <2>3, RefusedCommand
<1>5. CASE ClockAccepts(o) /\ ~StartsBelowFloor(m) /\ error = None
  <2>1. /\ leases' = [E EXCEPT ![m.id] = lease]
        /\ budget' = [active |-> ExpiredBudget(c).active + 1,
                      reserved |-> ExpiredBudget(c).reserved + bytes]
        /\ ret' = Rewind(Due(c)) /\ hint' = Remember(Due(c)) /\ clock' = c
        /\ StoreResult(m, Leased(lease))
    BY <1>5, Zenon DEF AdmitReplayLease
  <2>2. /\ ~(m.end > tail[p]) /\ ~(ExpiredBudget(c).active >= MaxActiveLeases)
        /\ ~(ExpiredBudget(c).reserved + bytes > MaxGroupBytes)
    <3> HIDE DEF bytes, c
    <3> QED BY <1>1, <1>5, Admitted
  <2>3. /\ p \in Partitions /\ m.start \in Offsets /\ m.end \in Offsets /\ m.start < m.end
        /\ m.duration \in Nat /\ m.id \in MutationIds
    BY <1>1, MutationFields
  <2>4. Offsets \subseteq Nat /\ MaxLeaseLifetime \in Nat /\ MaxActiveLeases \in Nat
        /\ MaxGroupBytes \in Nat
    BY RetentionAssumption DEF Offsets
  <2>5. /\ tail[p] \in Nat /\ ret[p].floor \in Nat /\ m.end <= tail[p] /\ ret[p].floor <= m.start
        /\ m.start \in Nat /\ m.end \in Nat
    <3>1. tail[p] \in Nat /\ ret[p].floor \in Nat
      BY <2>3, RetFields
    <3>2. ~(m.start < ret[p].floor)
      BY <1>5 DEF StartsBelowFloor
    <3>3. ~(m.end > tail[p])
      BY <2>2
    <3>4. m.start \in Nat /\ m.end \in Nat
      BY <2>3, <2>4
    <3> QED BY <3>1, <3>2, <3>3, <3>4
  <2>6. PartitionOK(tail[p], ends[p], records[p], ret[p])
    BY <2>3 DEF IInv
  <2>7. bytes = EndAt(ends[p], m.end) - EndAt(ends[p], m.start) /\ bytes \in Nat
    <3>1. bytes = RangeBytes(p, m.start, m.end)
      BY <2>2
    <3>2. EndAt(ends[p], m.end) = ends[p][m.end]
      BY <2>3, <2>5 DEF EndAt
    <3>3. (IF m.start = ret[p].floor THEN ret[p].floorBytes ELSE EndBefore(p, m.start))
             = EndAt(ends[p], m.start)
      BY <2>6, EndBeforeIs DEF PartitionOK
    <3>4. bytes = EndAt(ends[p], m.end) - EndAt(ends[p], m.start)
      <4> DEFINE x == IF m.start = ret[p].floor THEN ret[p].floorBytes ELSE EndBefore(p, m.start)
      <4>1. RangeBytes(p, m.start, m.end) = ends[p][m.end] - x
        BY DEF RangeBytes
      <4>2. x = EndAt(ends[p], m.start)
        BY <3>3
      <4> HIDE DEF x, bytes
      <4> QED BY <3>1, <3>2, <4>1, <4>2
    <3>5. EndAt(ends[p], m.end) - EndAt(ends[p], m.start) \in Nat
      <4>1. Rising(ends[p], tail[p])
        BY <2>6 DEF PartitionOK
      <4>2. m.start \in 0 .. tail[p] /\ m.end \in 0 .. tail[p] /\ m.start <= m.end
        BY <2>3, <2>5
      <4> QED BY <2>5, <4>1, <4>2, EndsRise
    <3> QED BY <3>4, <3>5, Zenon
  <2> HIDE DEF bytes
  <2>8. lease \in Leases /\ lease.lifecycle = "active" /\ lease.partition = p
        /\ lease.start = m.start /\ lease.end = m.end /\ lease.bytes = bytes
    BY <1>2, <2>3, <2>4, <2>7 DEF Leases
  <2> HIDE DEF lease
  <2>9. /\ Ends(leases, E, Due(c))
        /\ \A i \in Due(c) : E[i].expires <= now \/ E[i].hard <= now
    <3> HIDE DEF c
    <3> QED BY <1>2, ExpiryEnds
  <2>10. /\ Budgeted(E, ExpiredBudget(c)) /\ ExpiredBudget(c) \in [active : Nat, reserved : Nat]
    <3> HIDE DEF c
    <3> QED BY <1>2, ExpiryBudget
  <2> HIDE DEF E, c
  <2>11. Leased(lease) \in Results
    BY <2>8 DEF Leased, Results
  <2>12. leases[m.id] = None /\ Closed(leases, sessions')
         /\ m.id.sequence <= sessions'[m.id.session].highest
    BY <1>1, <2>1, <2>11, StoreKeeps
  <2>13. /\ E \in AllLeases /\ (\A i \in MutationIds : E[i] # None <=> leases[i] # None)
         /\ E[m.id] = None
    <3>1. \A i \in MutationIds : E[i] # None <=> leases[i] # None
      BY <2>9, EndsActive
    <3> QED BY <2>3, <2>9, <2>12, <3>1 DEF Ends
  <2>14. /\ Budgeted(leases', budget') /\ budget' \in [active : Nat, reserved : Nat]
         /\ leases' \in AllLeases /\ Protects(leases', E)
    <3> DEFINE b == ExpiredBudget(c)
    <3>1. /\ b \in [active : Nat, reserved : Nat] /\ Budgeted(E, b)
          /\ b.active < MaxActiveLeases /\ b.reserved + lease.bytes <= MaxGroupBytes
      <4>1. b.active \in Nat /\ b.reserved \in Nat
        BY <2>10
      <4> QED BY <2>2, <2>4, <2>7, <2>8, <2>10, <4>1
    <3> HIDE DEF b
    <3>2. /\ Budgeted([E EXCEPT ![m.id] = lease],
                      [active |-> b.active + 1, reserved |-> b.reserved + lease.bytes])
          /\ [active |-> b.active + 1, reserved |-> b.reserved + lease.bytes]
                 \in [active : Nat, reserved : Nat]
          /\ [E EXCEPT ![m.id] = lease] \in AllLeases
          /\ Protects([E EXCEPT ![m.id] = lease], E)
      BY <2>3, <2>8, <2>13, <3>1, AddedBudget
    <3>3. budget' = [active |-> b.active + 1, reserved |-> b.reserved + lease.bytes]
      BY <2>1, <2>8, Zenon DEF b
    <3> QED BY <2>1, <3>2, <3>3, Zenon
  <2>15. leases'[m.id] = lease /\ \A i \in MutationIds : i # m.id => leases'[i] = E[i]
    BY <2>1, <2>3, <2>13 DEF AllLeases
  <2>16. LeasesOK(leases', tail, ends, records, now)
    <3>1. LeasesOK(E, tail, ends, records, now)
      BY <2>9, EndsLeases DEF IInv
    <3>2. LeaseOK(lease, tail[p], ends[p], records[p], now)
      <4>1. lease.start .. lease.end - 1 \subseteq records[p]
        <5>1. ret[p].floor .. tail[p] - 1 \subseteq records[p]
          BY <2>6 DEF PartitionOK
        <5>2. lease.start .. lease.end - 1 \subseteq ret[p].floor .. tail[p] - 1
          BY <2>5, <2>8
        <5> QED BY <5>1, <5>2
      <4> QED BY <2>3, <2>5, <2>7, <2>8, <4>1 DEF LeaseOK
    <3> SUFFICES ASSUME NEW i \in MutationIds, leases'[i] # None
                 PROVE  LeaseOK(leases'[i], tail[leases'[i].partition],
                          ends[leases'[i].partition], records[leases'[i].partition], now)
      BY Zenon DEF LeasesOK
    <3>3. CASE i = m.id
      BY <2>8, <2>15, <3>2, <3>3, Zenon
    <3>4. CASE i # m.id
      <4>1. leases'[i] = E[i]
        BY <2>15, <3>4
      <4> QED BY <3>1, <4>1, Zenon DEF LeasesOK
    <3> QED BY <3>3, <3>4
  <2>17. Closed(leases', sessions')
    <3> SUFFICES ASSUME NEW i \in MutationIds, leases'[i] # None
                 PROVE  i.sequence <= sessions'[i.session].highest
      BY DEF Closed
    <3>1. CASE i = m.id
      BY <2>12, <3>1
    <3>2. CASE i # m.id
      <4>1. leases[i] # None
        BY <2>13, <2>15, <3>2
      <4> QED BY <2>12, <4>1 DEF Closed
    <3> QED BY <3>1, <3>2
  <2>18. clock' \in Clocks \cup {None} /\ clock'.lower <= now
    BY <1>2, <2>1
  <2> QED BY <1>1, <2>1, <2>9, <2>11, <2>14, <2>16, <2>17, <2>18, Outcome
<1> QED BY <1>3, <1>4, <1>5

(* A lease that LeaseError accepts is active and not due.                  *)
LEMMA Usable ==
    ASSUME NEW m \in Mutations, NEW c, LeaseError(m, c) = None, m.lease \in MutationIds
    PROVE  m.lease \in Active(leases) /\ m.lease \notin Due(c)
<1>1. None # "not_found" /\ None # "range_violation" /\ None # "inactive"
  BY NoneAssumption DEF Reasons
<1>2. leases[m.lease] # None /\ EffectivelyActive(leases[m.lease], c)
  BY <1>1 DEF LeaseError
<1> QED BY <1>2 DEF EffectivelyActive, Active, Due, IsDue

LEMMA StepRenew ==
    ASSUME IInv, NEW m \in Mutations, NEW t \in 0 .. now,
           RenewReplayLease(m, Observation(t))
    PROVE  IInv'
<1> DEFINE o == Observation(t)
           c == AdvanceClock(o)
           renewed == [leases[m.lease] EXCEPT !.expires = c.upper + m.duration]
           E == ExpiredLeases(c)
<1>1. m.type = "renew" /\ Prior(m) = None /\ UNCHANGED <<logs, records, fence, now>>
  BY DEF RenewReplayLease
<1>2. /\ c \in Clocks /\ c.lower <= now /\ c.lower \in Nat /\ c.upper \in Nat
  BY ClockFacts
<1>3. CASE ~ClockAccepts(o)
  <2>1. StoreResult(m, Rejected("clock")) /\ UNCHANGED <<ret, hint, leases, budget, clock>>
    BY <1>3, Zenon DEF RenewReplayLease
  <2>2. Rejected("clock") \in Results
    BY RejectionIsResult DEF Reasons
  <2>3. UNCHANGED <<logs, records, ret, hint, leases, budget, clock, fence, now>>
    BY <1>1, <2>1
  <2> QED BY <1>1, <2>1, <2>2, <2>3, OnlyStored
<1>4. CASE ClockAccepts(o) /\ RenewalError(m, c) # None
  <2>1. WriteExpiry(c) /\ UNCHANGED clock /\ StoreResult(m, Rejected(RenewalError(m, c)))
    BY <1>4, Zenon DEF RenewReplayLease
  <2>2. RenewalError(m, c) \in Reasons
    BY <1>4, LeaseReasons
  <2>3. Rejected(RenewalError(m, c)) \in Results
    BY <2>2, RejectionIsResult
  <2> HIDE DEF c
  <2> QED BY <1>1, <1>2, <2>1, <2>3, RefusedCommand
<1>5. CASE ClockAccepts(o) /\ RenewalError(m, c) = None
  <2>1. /\ leases' = [E EXCEPT ![m.lease] = renewed] /\ budget' = ExpiredBudget(c)
        /\ ret' = Rewind(Due(c)) /\ hint' = Remember(Due(c)) /\ clock' = c
        /\ StoreResult(m, Leased(renewed))
    BY <1>5, Zenon DEF RenewReplayLease
  <2>2. m.lease \in MutationIds /\ m.duration \in Nat
    BY <1>1, MutationFields
  <2>3. m.lease \in Active(leases) /\ m.lease \notin Due(c)
    <3>1. LeaseError(m, c) = None
      BY <1>5, NoneAssumption DEF RenewalError, Reasons
    <3> QED BY <2>2, <3>1, Usable
  <2>4. /\ Ends(leases, E, Due(c))
        /\ \A i \in Due(c) : E[i].expires <= now \/ E[i].hard <= now
    <3> HIDE DEF c
    <3> QED BY <1>2, ExpiryEnds
  <2>5. /\ Budgeted(E, ExpiredBudget(c)) /\ ExpiredBudget(c) \in [active : Nat, reserved : Nat]
    <3> HIDE DEF c
    <3> QED BY <1>2, ExpiryBudget
  <2> HIDE DEF E, c
  <2>6. /\ E \in AllLeases /\ (\A i \in MutationIds : E[i] # None <=> leases[i] # None)
        /\ E[m.lease] = leases[m.lease] /\ m.lease \in Active(E)
    <3>1. /\ Active(E) = Active(leases) \ Due(c)
          /\ \A i \in MutationIds : E[i] # None <=> leases[i] # None
      BY <2>4, EndsActive
    <3> QED BY <2>2, <2>3, <2>4, <3>1 DEF Ends
  <2> DEFINE d == c.upper + m.duration
  <2>7. d \in Nat /\ renewed = [E[m.lease] EXCEPT !.expires = d]
    BY <1>2, <2>2, <2>6
  <2> HIDE DEF d, renewed
  <2>8. /\ leases' \in AllLeases /\ Budgeted(leases', ExpiredBudget(c)) /\ Protects(leases', E)
        /\ \A j \in MutationIds : leases'[j] # None <=> E[j] # None
        /\ \A j \in MutationIds : j # m.lease => leases'[j] = E[j]
        /\ leases'[m.lease].lifecycle = "active"
        /\ leases'[m.lease].partition = E[m.lease].partition
        /\ leases'[m.lease].start = E[m.lease].start /\ leases'[m.lease].end = E[m.lease].end
        /\ leases'[m.lease].bytes = E[m.lease].bytes
    <3>1. leases' = [E EXCEPT ![m.lease] = [E[m.lease] EXCEPT !.expires = d]]
      BY <2>1, <2>7
    <3>2. Renewal(E, leases', m.lease, d, ExpiredBudget(c))
      BY <2>5, <2>6, <2>7, <3>1 DEF Renewal
    <3>3. Renewed(E, leases', m.lease, ExpiredBudget(c))
      BY <3>2, RenewedBudget, Zenon
    <3> QED BY <3>3, Zenon DEF Renewed
  <2>9. Leased(renewed) \in Results
    <3>1. leases'[m.lease] \in Leases /\ leases'[m.lease] = renewed
      <4>1. leases'[m.lease] = renewed
        BY <2>1, <2>2, <2>6 DEF AllLeases
      <4>2. leases'[m.lease] # None
        BY <2>2, <2>6, <2>8 DEF Active
      <4> QED BY <2>2, <2>8, <4>1, <4>2, LeaseFields
    <3> QED BY <3>1 DEF Leased, Results
  <2>10. LeasesOK(leases', tail, ends, records, now)
    <3>1. LeasesOK(E, tail, ends, records, now)
      BY <2>4, EndsLeases DEF IInv
    <3> SUFFICES ASSUME NEW i \in MutationIds, leases'[i] # None
                 PROVE  LeaseOK(leases'[i], tail[leases'[i].partition],
                          ends[leases'[i].partition], records[leases'[i].partition], now)
      BY Zenon DEF LeasesOK
    <3>2. LeaseOK(E[i], tail[E[i].partition], ends[E[i].partition], records[E[i].partition], now)
      BY <2>8, <3>1, Zenon DEF LeasesOK
    <3>3. CASE i = m.lease
      <4>1. E[i].lifecycle = "active"
        BY <2>6, <3>3 DEF Active
      <4> DEFINE p == E[i].partition
      <4>2. leases'[i].partition = p /\ leases'[i].lifecycle = "active"
        BY <2>8, <3>3
      <4>3. LeaseOK(leases'[i], tail[p], ends[p], records[p], now)
        BY <2>8, <3>2, <3>3, <4>1 DEF LeaseOK
      <4> QED BY <4>2, <4>3, Zenon
    <3>4. CASE i # m.lease
      <4>1. leases'[i] = E[i]
        BY <2>8, <3>4
      <4> QED BY <3>2, <4>1, Zenon
    <3> QED BY <3>3, <3>4
  <2>11. Closed(leases', sessions')
    <3>1. Closed(leases, sessions')
      BY <1>1, <2>1, <2>9, StoreKeeps
    <3> QED BY <2>6, <2>8, <3>1 DEF Closed
  <2>12. /\ clock' \in Clocks \cup {None} /\ clock'.lower <= now
         /\ Budgeted(leases', budget') /\ budget' \in [active : Nat, reserved : Nat]
    BY <1>2, <2>1, <2>5, <2>8
  <2> QED BY <1>1, <2>1, <2>4, <2>8, <2>9, <2>10, <2>11, <2>12, Outcome
<1> QED BY <1>3, <1>4, <1>5

LEMMA StepRelease ==
    ASSUME IInv, NEW m \in Mutations, NEW t \in 0 .. now,
           ReleaseReplayLease(m, Observation(t))
    PROVE  IInv'
<1> DEFINE o == Observation(t)
           c == AdvanceClock(o)
           released == [leases[m.lease] EXCEPT !.lifecycle = "released"]
           E == ExpiredLeases(c)
           D == Due(c) \cup {m.lease}
<1>1. m.type = "release" /\ Prior(m) = None /\ UNCHANGED <<logs, records, fence, now>>
  BY DEF ReleaseReplayLease
<1>2. /\ c \in Clocks /\ c.lower <= now /\ c.lower \in Nat /\ c.upper \in Nat
  BY ClockFacts
<1>3. CASE ~ClockAccepts(o)
  <2>1. StoreResult(m, Rejected("clock")) /\ UNCHANGED <<ret, hint, leases, budget, clock>>
    BY <1>3, Zenon DEF ReleaseReplayLease
  <2>2. Rejected("clock") \in Results
    BY RejectionIsResult DEF Reasons
  <2>3. UNCHANGED <<logs, records, ret, hint, leases, budget, clock, fence, now>>
    BY <1>1, <2>1
  <2> QED BY <1>1, <2>1, <2>2, <2>3, OnlyStored
<1>4. CASE ClockAccepts(o) /\ LeaseError(m, c) # None
  <2>1. WriteExpiry(c) /\ UNCHANGED clock /\ StoreResult(m, Rejected(LeaseError(m, c)))
    BY <1>4, Zenon DEF ReleaseReplayLease
  <2>2. LeaseError(m, c) \in Reasons
    BY <1>4, LeaseReasons
  <2>3. Rejected(LeaseError(m, c)) \in Results
    BY <2>2, RejectionIsResult
  <2> HIDE DEF c
  <2> QED BY <1>1, <1>2, <2>1, <2>3, RefusedCommand
<1>5. CASE ClockAccepts(o) /\ LeaseError(m, c) = None
  <2>1. /\ leases' = [E EXCEPT ![m.lease] = released] /\ budget' = ReleasedBudget(m, c)
        /\ ret' = Rewind(D) /\ hint' = Remember(D) /\ clock' = c
        /\ StoreResult(m, Leased(released))
    BY <1>5, Zenon DEF ReleaseReplayLease
  <2>2. m.lease \in MutationIds
    BY <1>1, MutationFields
  <2>3. m.lease \in Active(leases) /\ m.lease \notin Due(c)
    BY <1>5, <2>2, Usable
  <2>4. /\ Ends(leases, E, Due(c))
        /\ \A i \in Due(c) : E[i].expires <= now \/ E[i].hard <= now
    <3> HIDE DEF c
    <3> QED BY <1>2, ExpiryEnds
  <2>5. /\ Budgeted(E, ExpiredBudget(c)) /\ ExpiredBudget(c) \in [active : Nat, reserved : Nat]
    <3> HIDE DEF c
    <3> QED BY <1>2, ExpiryBudget
  <2> HIDE DEF E, c
  <2>6. /\ released \in Leases /\ released.lifecycle = "released"
        /\ released.partition = leases[m.lease].partition
        /\ released.start = leases[m.lease].start /\ released.end = leases[m.lease].end
        /\ released.bytes = leases[m.lease].bytes /\ released.expires = leases[m.lease].expires
        /\ released.hard = leases[m.lease].hard
    <3>1. leases[m.lease] \in Leases
      BY <2>2, <2>3, LeaseFields DEF Active, IInv, TypeOK, AllLeases
    <3> QED BY <3>1 DEF Leases
  <2> HIDE DEF released
  <2>7. /\ leases' \in AllLeases /\ leases'[m.lease] = released
        /\ \A i \in MutationIds : i # m.lease => leases'[i] = E[i]
    <3>1. E \in AllLeases
      BY <2>4 DEF Ends
    <3> QED BY <2>1, <2>2, <2>6, <3>1 DEF AllLeases
  <2>8. Ends(leases, leases', D)
    <3>1. leases \in AllLeases /\ D \subseteq Active(leases)
      BY <2>3, <2>4 DEF Ends
    <3>2. ASSUME NEW i \in MutationIds, i \notin D PROVE leases'[i] = leases[i]
      BY <2>4, <2>7, <3>2 DEF Ends
    <3>3. ASSUME NEW i \in D
          PROVE  /\ leases'[i] # None /\ leases'[i].lifecycle # "active"
                 /\ leases'[i].partition = leases[i].partition
                 /\ leases'[i].start = leases[i].start
                 /\ leases'[i].end = leases[i].end /\ leases'[i].bytes = leases[i].bytes
                 /\ leases'[i].expires = leases[i].expires /\ leases'[i].hard = leases[i].hard
      <4>1. CASE i = m.lease
        BY <2>6, <2>7, <4>1, NoneAssumption
      <4>2. CASE i # m.lease
        <5>1. i \in Due(c) /\ i \in MutationIds
          BY <4>2 DEF Due
        <5> QED BY <2>4, <2>7, <4>2, <5>1 DEF Ends
      <4> QED BY <4>1, <4>2
    <3> HIDE DEF D
    <3> QED BY <2>7, <3>1, <3>2, <3>3 DEF Ends
  <2>9. \A i \in D : leases'[i].lifecycle = "expired" =>
                        leases'[i].expires <= now \/ leases'[i].hard <= now
    <3>1. \A i \in Due(c) : i # m.lease /\ i \in MutationIds
      BY <2>3 DEF Due
    <3> QED BY <2>4, <2>6, <2>7, <3>1
  <2>10. LeasesOK(leases', tail, ends, records, now)
    <3> HIDE DEF D
    <3> QED BY <2>8, <2>9, EndsLeases DEF IInv
  <2>11. Budgeted(leases', budget') /\ budget' \in [active : Nat, reserved : Nat]
    <3> DEFINE x == Due(c)
               a == budget.active
               r == budget.reserved
    <3>1. /\ budget \in [active : Nat, reserved : Nat] /\ Budgeted(leases, budget)
          /\ a \in Nat /\ r \in Nat
      BY DEF IInv, TypeOK
    <3>2. /\ Cardinality(x) \in Nat /\ Bytes(leases, x) \in Nat /\ IsFiniteSet(x)
          /\ Cardinality(x) <= a /\ Bytes(leases, x) <= r
      BY <2>4, <3>1, EndsBudget
    <3>3. /\ IsFiniteSet(D) /\ Cardinality(D) \in Nat /\ Bytes(leases, D) \in Nat
          /\ Cardinality(D) <= a /\ Bytes(leases, D) <= r
          /\ Budgeted(leases', [active |-> a - Cardinality(D), reserved |-> r - Bytes(leases, D)])
      <4> HIDE DEF D
      <4> QED BY <2>8, <3>1, EndsBudget
    <3>4. Cardinality(D) = Cardinality(x) + 1
      BY <2>3, <3>2, FS_AddElement
    <3>5. Bytes(leases, D) = leases[m.lease].bytes + Bytes(leases, x)
          /\ leases[m.lease].bytes \in Nat
      <4>1. Sized(leases, Active(leases)) /\ D \in SUBSET Active(leases)
        BY <2>8, <3>1, ActiveSized DEF Ends, Budgeted
      <4>2. Sized(leases, D) /\ m.lease \in D /\ D \ {m.lease} = x
        BY <2>3, <4>1, SizedSets
      <4> HIDE DEF D, x
      <4>3. Bytes(leases, D) = leases[m.lease].bytes + Bytes(leases, D \ {m.lease})
        BY <4>2, BytesWithout
      <4>4. Bytes(leases, D \ {m.lease}) = Bytes(leases, x)
        BY <4>2, Zenon
      <4>5. leases[m.lease].bytes \in Nat
        BY <4>2 DEF Sized
      <4> QED BY <4>3, <4>4, <4>5
    <3> DEFINE k == Cardinality(x)
               y == Bytes(leases, x)
               l == leases[m.lease].bytes
    <3>6. /\ ExpiredBudget(c).active = Monus(a, k) /\ ExpiredBudget(c).reserved = Monus(r, y)
      BY DEF ExpiredBudget
    <3>7. budget' = [active |-> Monus(Monus(a, k), 1), reserved |-> Monus(Monus(r, y), l)]
      BY <2>1, <3>6 DEF ReleasedBudget
    <3> HIDE DEF x, k, y, l, a, r, D
    <3>8. /\ k \in Nat /\ y \in Nat /\ l \in Nat /\ Cardinality(D) = k + 1
          /\ Bytes(leases, D) = l + y /\ k + 1 <= a /\ l + y <= r
      BY <3>2, <3>3, <3>4, <3>5 DEF k, y, l
    <3>9. /\ Monus(Monus(a, k), 1) = a - Cardinality(D)
          /\ Monus(Monus(r, y), l) = r - Bytes(leases, D)
          /\ a - Cardinality(D) \in Nat /\ r - Bytes(leases, D) \in Nat
      BY <3>1, <3>8 DEF Monus
    <3>10. budget' = [active |-> a - Cardinality(D), reserved |-> r - Bytes(leases, D)]
      BY <3>7, <3>9
    <3> QED BY <3>3, <3>9, <3>10
  <2>12. Leased(released) \in Results
    BY <2>6 DEF Leased, Results
  <2>13. Closed(leases', sessions')
    <3>1. Closed(leases, sessions')
      BY <1>1, <2>1, <2>12, StoreKeeps
    <3>2. \A i \in MutationIds : leases'[i] # None <=> leases[i] # None
      <4> HIDE DEF D
      <4> QED BY <2>8, EndsActive
    <3> QED BY <3>1, <3>2 DEF Closed
  <2>14. clock' \in Clocks \cup {None} /\ clock'.lower <= now /\ Protects(leases', leases')
    BY <1>2, <2>1, ProtectsSelf
  <2> HIDE DEF D
  <2> QED BY <1>1, <2>1, <2>7, <2>8, <2>10, <2>11, <2>12, <2>13, <2>14, Outcome
<1> QED BY <1>3, <1>4, <1>5

-----------------------------------------------------------------------------
(* Records, the floor, the fence and time.                                 *)

(* One record more.                                                        *)
LEMMA RisingAppends ==
    ASSUME NEW e, NEW n \in Nat, Rising(e, n), NEW size \in Nat
    PROVE  LET f == Append(e, EndAt(e, n) + size) IN
           /\ Rising(f, n + 1)
           /\ \A o \in 0 .. n : EndAt(f, o) = EndAt(e, o)
<1> DEFINE x == EndAt(e, n) + size
           f == Append(e, x)
<1>1. e \in Seq(Nat) /\ Len(e) = n /\ \A o \in 0 .. n : EndAt(e, o) \in Nat
  <2>1. e \in Seq(Nat) /\ Len(e) = n
    BY DEF Rising
  <2> QED BY <2>1 DEF EndAt
<1>2. x \in Nat /\ EndAt(e, n) \in Nat /\ EndAt(e, n) <= x
  BY <1>1
<1> HIDE DEF x
<1>3. /\ f \in Seq(Nat) /\ Len(f) = n + 1 /\ f[n + 1] = x
      /\ \A o \in 1 .. n : f[o] = e[o]
  BY <1>1, <1>2
<1> HIDE DEF f
<1>4. \A o \in 0 .. n : EndAt(f, o) = EndAt(e, o)
  BY <1>3 DEF EndAt
<1>5. EndAt(f, n + 1) = x
  BY <1>3 DEF EndAt
<1>6. ASSUME NEW i \in 0 .. n + 1, NEW j \in 0 .. n + 1, i <= j
      PROVE  EndAt(f, i) <= EndAt(f, j)
  <2>1. CASE j <= n
    <3>1. i \in 0 .. n /\ j \in 0 .. n
      BY <1>6, <2>1
    <3>2. EndAt(e, i) <= EndAt(e, j)
      BY <1>6, <3>1 DEF Rising
    <3> QED BY <1>4, <3>1, <3>2
  <2>2. CASE j = n + 1 /\ i <= n
    <3>1. i \in 0 .. n /\ n \in 0 .. n
      BY <2>2
    <3>2. EndAt(e, i) <= EndAt(e, n)
      BY <3>1 DEF Rising
    <3>3. EndAt(f, i) = EndAt(e, i) /\ EndAt(f, j) = x /\ EndAt(e, i) \in Nat
      BY <1>1, <1>4, <1>5, <2>2, <3>1
    <3> QED BY <1>2, <3>2, <3>3
  <2>3. CASE i = n + 1 /\ j = n + 1
    BY <1>2, <1>5, <2>3
  <2> QED BY <1>6, <2>1, <2>2, <2>3
<1>7. Rising(f, n + 1)
  BY <1>3, <1>6 DEF Rising
<1> QED BY <1>4, <1>7 DEF f, x

LEMMA StepPublish ==
    ASSUME IInv, NEW p \in Partitions, NEW size \in Sizes, Publish(p, size)
    PROVE  IInv'
<1>0. /\ ret' = ret /\ hint' = hint /\ leases' = leases /\ budget' = budget /\ clock' = clock
      /\ fence' = fence /\ now' = now /\ receipts' = receipts /\ sessions' = sessions
  BY DEF Publish, mutationState
<1> DEFINE n == tail[p]
           f == Append(ends[p], EndAt(ends[p], n) + size)
<1>1. /\ tail \in [Partitions -> Offsets] /\ ends \in [Partitions -> Seq(Nat)]
      /\ records \in [Partitions -> SUBSET Offsets]
  BY DEF IInv, TypeOK
<1>2. /\ tail' = [tail EXCEPT ![p] = n + 1]
      /\ records' = [records EXCEPT ![p] = @ \cup {n}]
      /\ ends' = [ends EXCEPT ![p] = f] /\ n < MaxTail
  BY EndBeforeIs DEF Publish
<1>3. /\ n \in Nat /\ n \in Offsets /\ MaxTail \in Nat /\ size \in Nat
      /\ ret[p].cursor \in Nat /\ ret[p].floor \in Nat
      /\ ret[p].cursor <= ret[p].floor /\ ret[p].floor <= n /\ records[p] \subseteq 0 .. n - 1
  BY RetFields, RetentionAssumption
<1>4. PartitionOK(n, ends[p], records[p], ret[p])
  BY DEF IInv
<1>5. /\ Rising(f, n + 1)
      /\ \A o \in 0 .. n : EndAt(f, o) = EndAt(ends[p], o)
  <2>1. Rising(ends[p], n)
    BY <1>4 DEF PartitionOK
  <2> HIDE DEF n
  <2> QED BY <1>3, <2>1, RisingAppends
<1>6. f \in Seq(Nat) /\ n + 1 \in Offsets
  BY <1>2, <1>3, <1>5 DEF Rising, Offsets
<1> HIDE DEF f
<1>7. /\ tail'[p] = n + 1 /\ ends'[p] = f /\ records'[p] = records[p] \cup {n}
      /\ \A q \in Partitions : q # p => /\ tail'[q] = tail[q] /\ ends'[q] = ends[q]
                                        /\ records'[q] = records[q]
  BY <1>1, <1>2
<1>8. TypeOK'
  <2>1. /\ tail' \in [Partitions -> Offsets] /\ ends' \in [Partitions -> Seq(Nat)]
        /\ records' \in [Partitions -> SUBSET Offsets]
    BY <1>1, <1>2, <1>3, <1>6
  <2> QED BY <1>0, <2>1 DEF IInv, TypeOK
<1>9. PartitionOK(n + 1, f, records[p] \cup {n}, ret[p])
  <2>1. records[p] \cup {n} \subseteq 0 .. (n + 1) - 1
    BY <1>3
  <2>2. ret[p].floor .. (n + 1) - 1 \subseteq records[p] \cup {n}
    <3>1. ret[p].floor .. n - 1 \subseteq records[p]
      BY <1>4 DEF PartitionOK
    <3> QED BY <1>3, <3>1
  <2>3. ret[p].floorBytes = EndAt(f, ret[p].floor)
    BY <1>3, <1>4, <1>5 DEF PartitionOK
  <2>4. ret[p].cursor <= ret[p].floor /\ ret[p].floor <= n + 1
    BY <1>3
  <2> HIDE DEF n
  <2> QED BY <1>5, <2>1, <2>2, <2>3, <2>4 DEF PartitionOK
<1>10. ASSUME NEW q \in Partitions PROVE PartitionOK(tail'[q], ends'[q], records'[q], ret[q])
  <2>1. CASE q = p
    BY <1>7, <1>9, <2>1, Zenon
  <2>2. CASE q # p
    BY <1>7, <2>2, Zenon DEF IInv
  <2> QED BY <2>1, <2>2
<1>11. \A q \in Partitions : PartitionOK(tail[q], ends[q], records[q], ret[q])'
  BY <1>0, <1>10, Zenon
<1>12. LeasesOK(leases, tail', ends', records', now)
  <2> SUFFICES ASSUME NEW i \in MutationIds, leases[i] # None
               PROVE  LeaseOK(leases[i], tail'[leases[i].partition],
                              ends'[leases[i].partition], records'[leases[i].partition], now)
    BY Zenon DEF LeasesOK
  <2> DEFINE l == leases[i]
             q == l.partition
  <2>1. LeaseOK(l, tail[q], ends[q], records[q], now)
    BY Zenon DEF IInv, LeasesOK
  <2>2. q \in Partitions /\ l.start \in Nat /\ l.end \in Nat
    BY LeaseFields DEF IInv, TypeOK, AllLeases
  <2> HIDE DEF l
  <2>3. CASE q = p
    <3>1. LeaseOK(l, n, ends[p], records[p], now)
      BY <2>1, <2>3, Zenon
    <3>2. LeaseOK(l, n + 1, f, records[p] \cup {n}, now)
      <4>1. l.start \in 0 .. n /\ l.end \in 0 .. n
        BY <1>3, <2>2, <3>1 DEF LeaseOK
      <4>2. EndAt(f, l.end) = EndAt(ends[p], l.end) /\ EndAt(f, l.start) = EndAt(ends[p], l.start)
        BY <1>5, <4>1
      <4>3. l.end <= n + 1
        BY <1>3, <4>1
      <4> HIDE DEF n
      <4> QED BY <3>1, <4>2, <4>3 DEF LeaseOK
    <3> QED BY <1>7, <2>3, <3>2, Zenon DEF l
  <2>4. CASE q # p
    <3>1. tail'[q] = tail[q] /\ ends'[q] = ends[q] /\ records'[q] = records[q]
      BY <1>7, <2>2, <2>4
    <3> QED BY <2>1, <3>1, Zenon DEF l
  <2> QED BY <2>3, <2>4
<1>13. LeasesOK(leases, tail, ends, records, now)'
  BY <1>0, <1>12, Zenon
<1>14. ASSUME NEW q \in Partitions
       PROVE  Kept(q, records'[q], ret[q].cursor, leases, fence, hint[q])
  <2>1. Kept(q, records[q], ret[q].cursor, leases, fence, hint[q])
    BY DEF IInv
  <2>2. \A o \in records'[q] : o < ret[q].cursor => o \in records[q]
    BY <1>3, <1>7
  <2> QED BY <2>1, <2>2, Zenon DEF Kept
<1>15. \A q \in Partitions : Kept(q, records[q], ret[q].cursor, leases, fence, hint[q])'
  BY <1>0, <1>14, Zenon
<1>16. Closed(leases, sessions)' /\ Budgeted(leases, budget)'
  BY <1>0, Zenon DEF IInv
<1>17. (clock # None => clock.lower <= now)' /\ (\A q \in Partitions : hint[q] # None => fence)'
  BY <1>0 DEF IInv
<1> QED BY <1>8, <1>11, <1>13, <1>15, <1>16, <1>17, Zenon DEF IInv

(* Another retention state for one partition, with the same cursor.        *)
LEMMA StepAdvance ==
    ASSUME IInv, NEW m \in Mutations, NEW t \in 0 .. now,
           AdvanceRetention(m, Observation(t))
    PROVE  IInv'
<1> DEFINE o == Observation(t)
           p == m.partition
           f == AdvanceFloor(p, m.target)
           why == IF m.target > tail[p] THEN "past_tail" ELSE "clock"
<1>1. m.type = "advance" /\ ~fence /\ Prior(m) = None
      /\ UNCHANGED <<logs, records, hint, leases, budget, fence, now>>
  BY DEF AdvanceRetention
<1>2. /\ p \in Partitions /\ m.target \in Offsets /\ m.target \in Nat
  BY <1>1, MutationFields, RetentionAssumption DEF Offsets
<1>3. CASE ~(m.target <= tail[p] /\ ClockAccepts(o))
  <2>1. StoreResult(m, Rejected(why)) /\ UNCHANGED <<ret, clock>>
    <3>1. Rejected(why) = IF m.target > tail[p] THEN Rejected("past_tail") ELSE Rejected("clock")
      OBVIOUS
    <3>2. StoreResult(m, IF m.target > tail[p] THEN Rejected("past_tail") ELSE Rejected("clock"))
          /\ UNCHANGED <<ret, clock>>
      BY <1>3, Zenon DEF AdvanceRetention
    <3> QED BY <3>1, <3>2, Zenon
  <2>2. Rejected(why) \in Results
    BY RejectionIsResult DEF Reasons
  <2>3. UNCHANGED <<logs, records, ret, hint, leases, budget, clock, fence, now>>
    BY <1>1, <2>1
  <2> HIDE DEF why
  <2> QED BY <1>1, <2>1, <2>2, <2>3, OnlyStored
<1>4. CASE m.target <= tail[p] /\ ClockAccepts(o)
  <2>1. /\ FloorBytes(p, f) # None
        /\ ret' = [ret EXCEPT ![p].floor = f, ![p].floorBytes = FloorBytes(p, f)]
        /\ clock' = AdvanceClock(o)
        /\ StoreResult(m, Floors(ret[p].floor, f))
    BY <1>4, Zenon DEF AdvanceRetention
  <2>2. /\ tail' = tail /\ ends' = ends /\ records' = records /\ hint' = hint /\ leases' = leases
        /\ budget' = budget /\ fence' = fence /\ now' = now
    BY <1>1 DEF logs
  <2>3. /\ ret[p] \in Rets /\ ret[p].floor \in Offsets /\ ret[p].floor \in Nat
        /\ tail[p] \in Nat /\ ret[p].floor <= tail[p] /\ ret[p].cursor \in Nat
        /\ ret[p].cursor <= ret[p].floor
    BY <1>2, RetFields
  <2>4. f \in Offsets /\ f \in Nat /\ ret[p].floor <= f /\ f <= tail[p]
    BY <1>2, <1>4, <2>3 DEF AdvanceFloor, Larger
  <2> HIDE DEF f
  <2>5. PartitionOK(tail[p], ends[p], records[p], ret[p])
    BY <1>2 DEF IInv
  <2>6. FloorBytes(p, f) = EndAt(ends[p], f) /\ FloorBytes(p, f) \in Nat
    <3>1. FloorBytes(p, f) = EndAt(ends[p], f)
      BY <2>1, <2>5 DEF FloorBytes, EndAt, PartitionOK
    <3>2. EndAt(ends[p], f) \in Nat
      <4>1. Rising(ends[p], tail[p]) /\ f \in 0 .. tail[p]
        BY <2>3, <2>4, <2>5 DEF PartitionOK
      <4> QED BY <2>3, <2>4, <4>1, EndsRise
    <3> QED BY <3>1, <3>2
  <2> DEFINE r == [ret[p] EXCEPT !.floor = f, !.floorBytes = FloorBytes(p, f)]
  <2>7. /\ r \in Rets /\ r.floor = f /\ r.floorBytes = FloorBytes(p, f)
        /\ r.cursor = ret[p].cursor
    BY <2>3, <2>4, <2>6 DEF Rets
  <2>8. ret \in [Partitions -> Rets]
    BY DEF IInv, TypeOK, Rets
  <2>9. ret' = [ret EXCEPT ![p] = r]
    BY <1>2, <2>1, <2>8
  <2> HIDE DEF r
  <2>10. /\ ret' \in [Partitions -> Rets] /\ ret'[p] = r
         /\ \A q \in Partitions : q # p => ret'[q] = ret[q]
    BY <1>2, <2>7, <2>8, <2>9
  <2>11. PartitionOK(tail[p], ends[p], records[p], r)
    <3>1. r.floor .. tail[p] - 1 \subseteq ret[p].floor .. tail[p] - 1
      BY <2>3, <2>4, <2>7
    <3>2. r.cursor <= r.floor /\ r.floor <= tail[p]
      BY <2>3, <2>4, <2>7
    <3> QED BY <2>5, <2>6, <2>7, <3>1, <3>2 DEF PartitionOK
  <2>12. ASSUME NEW q \in Partitions
         PROVE  /\ PartitionOK(tail[q], ends[q], records[q], ret'[q])
                /\ Kept(q, records[q], ret'[q].cursor, leases, fence, hint[q])
    <3>0. /\ PartitionOK(tail[q], ends[q], records[q], ret[q])
          /\ Kept(q, records[q], ret[q].cursor, leases, fence, hint[q])
      BY DEF IInv
    <3>1. CASE q = p
      <4>1. ret'[q] = r /\ ret'[q].cursor = ret[q].cursor
        BY <2>7, <2>10, <3>1
      <4> QED BY <2>11, <3>0, <3>1, <4>1, Zenon
    <3>2. CASE q # p
      <4>1. ret'[q] = ret[q]
        BY <2>10, <3>2
      <4> QED BY <3>0, <4>1, Zenon
    <3> QED BY <3>1, <3>2
  <2>13. Floors(ret[p].floor, f) \in Results
    BY <2>3, <2>4 DEF Floors, Results
  <2>14. /\ receipts' \in [MutationIds -> [mutation : Mutations, result : Results] \cup {None}]
         /\ sessions' \in [Sessions -> [highest : Int, retained : Seq(Nat)]]
         /\ Closed(leases, sessions')
    BY <1>1, <2>1, <2>13, StoreKeeps
  <2>15. clock' \in Clocks /\ clock'.lower <= now
    BY <2>1, ClockFacts
  <2>16. TypeOK'
    BY <2>2, <2>10, <2>14, <2>15 DEF IInv, TypeOK, Rets
  <2>17. /\ \A q \in Partitions : PartitionOK(tail[q], ends[q], records[q], ret[q])'
         /\ \A q \in Partitions : Kept(q, records[q], ret[q].cursor, leases, fence, hint[q])'
    BY <2>2, <2>12, Zenon
  <2>18. LeasesOK(leases, tail, ends, records, now)' /\ Budgeted(leases, budget)'
    BY <2>2, Zenon DEF IInv
  <2>19. Closed(leases, sessions)'
    BY <2>2, <2>14, Zenon
  <2>20. (clock # None => clock.lower <= now)' /\ (\A q \in Partitions : hint[q] # None => fence)'
    BY <2>2, <2>15 DEF IInv
  <2> QED BY <2>16, <2>17, <2>18, <2>19, <2>20, Zenon DEF IInv
<1> QED BY <1>3, <1>4

-----------------------------------------------------------------------------
(* The reclaim loop of MaintainRetention.                                  *)

LoopStart(k) == [cursor |-> k, examined |-> 0, bytes |-> 0, gone |-> {}]
LoopTurn(p, ls, x) == IF Stops(p, ls, x) THEN x ELSE Turn(p, ls, x)

(* f lists the states of the loop over its first n turns.                  *)
IsLoop(f, p, ls, k, n) ==
    /\ f = [i \in 0 .. n |-> f[i]] /\ f[0] = LoopStart(k)
    /\ \A i \in 1 .. n : f[i] = LoopTurn(p, ls, f[i - 1])

LEMMA LoopExists ==
    ASSUME NEW p, NEW ls, NEW k, NEW n \in Nat
    PROVE  \E f : IsLoop(f, p, ls, k, n)
<1> DEFINE bad == {i \in Nat : ~\E f : IsLoop(f, p, ls, k, i)}
<1> SUFFICES ASSUME bad # {} PROVE FALSE
  OBVIOUS
<1>1. PICK m \in bad : \A i \in bad : m <= i
  <2>1. bad \in SUBSET Nat /\ bad # {}
    OBVIOUS
  <2> HIDE DEF bad
  <2> QED BY <2>1, LeastNatural
<1>2. m \in Nat /\ ~\E f : IsLoop(f, p, ls, k, m)
  BY <1>1
<1>3. m # 0
  <2> SUFFICES ASSUME m = 0 PROVE FALSE
    OBVIOUS
  <2> DEFINE g == [i \in 0 .. 0 |-> LoopStart(k)]
  <2>1. g[0] = LoopStart(k) /\ g = [i \in 0 .. 0 |-> g[i]]
    OBVIOUS
  <2>2. IsLoop(g, p, ls, k, 0)
    <3> HIDE DEF g
    <3> QED BY <2>1 DEF IsLoop
  <2> QED BY <1>2, <2>2
<1>4. PICK f : IsLoop(f, p, ls, k, m - 1)
  <2>1. m - 1 \in Nat /\ ~(m <= m - 1)
    BY <1>2, <1>3
  <2>2. m - 1 \notin bad
    BY <1>1, <2>1
  <2> QED BY <2>1, <2>2
<1> DEFINE last == LoopTurn(p, ls, f[m - 1])
           g == [i \in 0 .. m |-> IF i = m THEN last ELSE f[i]]
<1> HIDE DEF last, bad
<1>5. /\ \A i \in 0 .. m - 1 : g[i] = f[i]
      /\ g[m] = last /\ g = [i \in 0 .. m |-> g[i]]
  BY <1>2
<1> HIDE DEF g
<1>6. g[0] = LoopStart(k)
  <2>1. 0 \in 0 .. m - 1
    BY <1>2, <1>3
  <2> QED BY <1>4, <1>5, <2>1 DEF IsLoop
<1>7. ASSUME NEW i \in 1 .. m PROVE g[i] = LoopTurn(p, ls, g[i - 1])
  <2>0. i - 1 \in 0 .. m - 1 /\ g[i - 1] = f[i - 1]
    <3>1. i - 1 \in 0 .. m - 1
      BY <1>2
    <3> QED BY <1>5, <3>1
  <2>1. CASE i = m
    <3>1. g[i] = LoopTurn(p, ls, f[i - 1])
      BY <1>5, <2>1 DEF last
    <3> QED BY <2>0, <3>1
  <2>2. CASE i # m
    <3>1. i \in 1 .. m - 1 /\ i \in 0 .. m - 1
      BY <1>2, <2>2
    <3>2. f[i] = LoopTurn(p, ls, f[i - 1])
      BY <1>4, <3>1 DEF IsLoop
    <3> QED BY <1>5, <2>0, <3>1, <3>2
  <2> QED BY <2>1, <2>2
<1>8. IsLoop(g, p, ls, k, m)
  BY <1>5, <1>6, <1>7 DEF IsLoop
<1> QED BY <1>2, <1>8

LEMMA ReclaimIs ==
    ASSUME NEW p, NEW ls, NEW k
    PROVE  \E f : IsLoop(f, p, ls, k, MaxTail) /\ Reclaim(p, ls, k) = f[MaxTail]
<1> DEFINE Body(f) == [n \in 0 .. MaxTail |->
               IF n = 0 THEN [cursor |-> k, examined |-> 0, bytes |-> 0, gone |-> {}]
               ELSE IF Stops(p, ls, f[n - 1]) THEN f[n - 1] ELSE Turn(p, ls, f[n - 1])]
<1>0. MaxTail \in Nat
  BY RetentionAssumption
<1>1. PICK f : IsLoop(f, p, ls, k, MaxTail)
  BY <1>0, LoopExists
<1>2. f = Body(f)
  <2>1. f = [n \in 0 .. MaxTail |-> f[n]]
    BY <1>1 DEF IsLoop
  <2>2. ASSUME NEW n \in 0 .. MaxTail PROVE f[n] = Body(f)[n]
    <3>1. n = 0 \/ n \in 1 .. MaxTail
      BY <1>0
    <3>2. n \in 1 .. MaxTail => f[n] = LoopTurn(p, ls, f[n - 1])
      BY <1>1 DEF IsLoop
    <3>3. n = 0 => f[n] = LoopStart(k)
      BY <1>1 DEF IsLoop
    <3> QED BY <3>1, <3>2, <3>3 DEF LoopStart, LoopTurn
  <2>3. Body(f) = [n \in 0 .. MaxTail |-> Body(f)[n]]
    OBVIOUS
  <2> HIDE DEF Body
  <2> QED BY <2>1, <2>2, <2>3
<1> DEFINE g == CHOOSE h : h = Body(h)
<1>3. Reclaim(p, ls, k) = g[MaxTail]
  BY Zenon DEF Reclaim
<1>4. g = Body(g)
  <2> HIDE DEF Body
  <2> QED BY <1>2, Zenon
<1> HIDE DEF g
<1>5. IsLoop(g, p, ls, k, MaxTail)
  <2>1. g = [n \in 0 .. MaxTail |-> g[n]]
    BY <1>4
  <2>2. g[0] = LoopStart(k)
    BY <1>0, <1>4 DEF LoopStart
  <2>3. ASSUME NEW n \in 1 .. MaxTail PROVE g[n] = LoopTurn(p, ls, g[n - 1])
    <3>1. n \in 0 .. MaxTail /\ n # 0
      BY <1>0
    <3>2. g[n] = Body(g)[n]
      BY <1>4
    <3>3. Body(g)[n] = LoopTurn(p, ls, g[n - 1])
      BY <3>1 DEF LoopTurn
    <3> HIDE DEF Body
    <3> QED BY <3>2, <3>3
  <2> QED BY <2>1, <2>2, <2>3 DEF IsLoop
<1> QED BY <1>3, <1>5

(* The records rs of partition p that an active lease of ls covers.        *)
Covered(p, ls, rs) == {o \in rs : \E i \in Active(ls) : Covers(ls[i], p, o)}

(* The loop, started at k, stays at or below the floor fl; what it deleted *)
(* are records below its cursor that no lease covers, and what it passed   *)
(* without deleting a lease covers.                                        *)
LoopOK(x, k, fl, rs, cs) ==
    /\ x \in [cursor : Nat, examined : Nat, bytes : Nat, gone : SUBSET rs]
    /\ k <= x.cursor /\ x.cursor <= fl
    /\ \A o \in x.gone : o < x.cursor /\ o \notin cs
    /\ \A o \in rs : k <= o /\ o < x.cursor => o \in x.gone \/ o \in cs

LEMMA SkipToIs ==
    ASSUME IInv, NEW p \in Partitions, NEW ls \in AllLeases, NEW o \in Nat, o < ret[p].floor
    PROVE  \/ /\ SkipTo(p, ls, o) = None
              /\ ~\E i \in Active(ls) : Covers(ls[i], p, o)
           \/ /\ SkipTo(p, ls, o) \in Nat /\ SkipTo(p, ls, o) # None
              /\ o < SkipTo(p, ls, o) /\ SkipTo(p, ls, o) <= ret[p].floor
              /\ \A u \in Nat : o <= u /\ u < SkipTo(p, ls, o)
                    => \E i \in Active(ls) : Covers(ls[i], p, u)
<1> DEFINE covering == {i \in Active(ls) : Covers(ls[i], p, o)}
           i == CHOOSE j \in covering : TRUE
<1>1. CASE covering = {}
  <2>1. SkipTo(p, ls, o) = None
    BY <1>1, Zenon DEF SkipTo
  <2> QED BY <1>1, <2>1
<1>2. CASE covering # {}
  <2>1. i \in covering
    BY <1>2
  <2>2. i \in Active(ls) /\ Covers(ls[i], p, o)
    BY <2>1
  <2>3. SkipTo(p, ls, o) = Smaller(ls[i].end, ret[p].floor)
    BY <1>2, Zenon DEF SkipTo
  <2> HIDE DEF i
  <2>4. ls[i].start \in Nat /\ ls[i].end \in Nat /\ ret[p].floor \in Nat
    BY <2>2, LeaseFields, RetFields DEF Active
  <2>5. ls[i].partition = p /\ ls[i].start <= o /\ o < ls[i].end
    BY <2>2 DEF Covers
  <2> DEFINE s == Smaller(ls[i].end, ret[p].floor)
  <2>6. s \in Nat /\ o < s /\ s <= ret[p].floor /\ s <= ls[i].end
    BY <2>4, <2>5 DEF Smaller
  <2> HIDE DEF s
  <2>7. ASSUME NEW u \in Nat, o <= u, u < s PROVE Covers(ls[i], p, u)
    BY <2>4, <2>5, <2>6, <2>7 DEF Covers
  <2> QED BY <2>2, <2>3, <2>6, <2>7, NoneAssumption DEF s
<1> QED BY <1>1, <1>2

LEMMA SizeAtIs ==
    ASSUME IInv, NEW p \in Partitions, NEW o \in Nat, o < tail[p]
    PROVE  SizeAt(p, o) \in Nat
<1>1. Rising(ends[p], tail[p]) /\ tail[p] \in Nat
  BY RetFields DEF IInv, PartitionOK
<1>2. o \in 0 .. tail[p] /\ o + 1 \in 0 .. tail[p] /\ o <= o + 1
  BY <1>1
<1>3. EndAt(ends[p], o + 1) - EndAt(ends[p], o) \in Nat
  BY <1>1, <1>2, EndsRise
<1>4. EndAt(ends[p], o + 1) = ends[p][o + 1]
  BY DEF EndAt
<1> QED BY <1>3, <1>4, EndBeforeIs DEF SizeAt

LEMMA TurnKeeps ==
    ASSUME IInv, NEW p \in Partitions, NEW ls \in AllLeases, NEW k \in Nat, NEW x,
           LoopOK(x, k, ret[p].floor, records[p], Covered(p, ls, records[p]))
    PROVE  LoopOK(LoopTurn(p, ls, x), k, ret[p].floor, records[p], Covered(p, ls, records[p]))
<1> DEFINE rs == records[p]
           cs == Covered(p, ls, records[p])
           o == x.cursor
           fl == ret[p].floor
<1>1. CASE Stops(p, ls, x)
  BY <1>1 DEF LoopTurn
<1>2. CASE ~Stops(p, ls, x)
  <2>1. LoopTurn(p, ls, x) = Turn(p, ls, x)
    BY <1>2 DEF LoopTurn
  <2>2. /\ x \in [cursor : Nat, examined : Nat, bytes : Nat, gone : SUBSET rs]
        /\ o \in Nat /\ k <= o /\ x.examined \in Nat /\ x.bytes \in Nat /\ x.gone \subseteq rs
    BY DEF LoopOK
  <2>3. fl \in Nat /\ tail[p] \in Nat /\ fl <= tail[p] /\ rs \subseteq Nat
    BY RetFields, RetentionAssumption DEF Offsets
  <2>4. o < fl
    BY <1>2, <2>2, <2>3 DEF Stops
  <2>5. /\ \A u \in x.gone : u < o /\ u \notin cs
        /\ \A u \in rs : k <= u /\ u < o => u \in x.gone \/ u \in cs
    BY DEF LoopOK
  <2>6. \A u \in rs : u \in cs <=> \E i \in Active(ls) : Covers(ls[i], p, u)
    BY DEF Covered
  <2>7. CASE SkipTo(p, ls, o) # None
    <3> DEFINE s == SkipTo(p, ls, o)
               y == [x EXCEPT !.cursor = s]
    <3>1. /\ s \in Nat /\ o < s /\ s <= fl
          /\ \A u \in Nat : o <= u /\ u < s => \E i \in Active(ls) : Covers(ls[i], p, u)
      BY <2>2, <2>4, <2>7, SkipToIs
    <3>2. Turn(p, ls, x) = y
      BY <2>7, Zenon DEF Turn
    <3> HIDE DEF s
    <3>3. /\ y \in [cursor : Nat, examined : Nat, bytes : Nat, gone : SUBSET rs]
          /\ y.cursor = s /\ y.gone = x.gone
      BY <2>2, <3>1
    <3> HIDE DEF y, cs, o, rs, fl
    <3>4. ASSUME NEW u \in x.gone PROVE u < s /\ u \notin cs
      <4>1. u < o /\ u \notin cs /\ u \in Nat
        BY <2>2, <2>3, <2>5
      <4> QED BY <2>2, <3>1, <4>1
    <3>5. ASSUME NEW u \in rs, k <= u, u < s PROVE u \in x.gone \/ u \in cs
      <4>1. u \in Nat
        BY <2>3
      <4>2. CASE u < o
        BY <2>5, <3>5, <4>2
      <4>3. CASE o <= u
        BY <2>6, <3>1, <3>5, <4>1, <4>3
      <4> QED BY <2>2, <4>1, <4>2, <4>3
    <3>6. k <= s
      BY <2>2, <3>1
    <3>7. LoopOK(y, k, fl, rs, cs)
      BY <3>1, <3>3, <3>4, <3>5, <3>6 DEF LoopOK
    <3> QED BY <2>1, <3>2, <3>7, Zenon DEF cs, rs, fl
  <2>8. CASE SkipTo(p, ls, o) = None
    <3>1. ~\E i \in Active(ls) : Covers(ls[i], p, o)
      BY <2>2, <2>4, <2>8, SkipToIs
    <3>2. o \notin cs
      BY <3>1 DEF Covered
    <3>3. CASE o \notin rs
      <4> DEFINE y == [x EXCEPT !.cursor = o + 1, !.examined = @ + 1]
      <4>1. Turn(p, ls, x) = y
        BY <2>8, <3>3, Zenon DEF Turn
      <4>2. /\ y \in [cursor : Nat, examined : Nat, bytes : Nat, gone : SUBSET rs]
            /\ y.cursor = o + 1 /\ y.gone = x.gone
        <5> DEFINE a == o + 1
                   b == x.examined + 1
                   z == [x EXCEPT !.cursor = a, !.examined = b]
        <5>1. a \in Nat /\ b \in Nat
          BY <2>2
        <5> HIDE DEF a, b
        <5>2. /\ z \in [cursor : Nat, examined : Nat, bytes : Nat, gone : SUBSET rs]
              /\ z.cursor = a /\ z.gone = x.gone
          BY <2>2, <5>1
        <5> QED BY <5>2 DEF a, b
      <4> HIDE DEF y, cs, o, rs, fl
      <4>3. ASSUME NEW u \in x.gone PROVE u < o + 1 /\ u \notin cs
        <5>1. u < o /\ u \notin cs /\ u \in Nat
          BY <2>2, <2>3, <2>5
        <5> QED BY <2>2, <5>1
      <4>4. ASSUME NEW u \in rs, k <= u, u < o + 1 PROVE u \in x.gone \/ u \in cs
        <5>1. u \in Nat /\ u # o
          BY <2>3, <3>3
        <5>2. u < o
          BY <2>2, <4>4, <5>1
        <5> QED BY <2>5, <4>4, <5>2
      <4>5. k <= o + 1 /\ o + 1 <= fl
        BY <2>2, <2>3, <2>4
      <4>6. LoopOK(y, k, fl, rs, cs)
        BY <4>2, <4>3, <4>4, <4>5 DEF LoopOK
      <4> QED BY <2>1, <4>1, <4>6, Zenon DEF cs, rs, fl
    <3>4. CASE o \in rs
      <4> DEFINE size == SizeAt(p, o)
                 y == [cursor |-> o + 1, examined |-> x.examined + 1,
                       bytes |-> x.bytes + size, gone |-> x.gone \cup {o}]
      <4>1. Turn(p, ls, x) = y
        BY <2>8, <3>4, Zenon DEF Turn
      <4>2. size \in Nat
        <5>1. o < tail[p]
          BY <2>2, <2>3, <2>4
        <5> QED BY <2>2, <5>1, SizeAtIs
      <4> HIDE DEF size
      <4>3. /\ y \in [cursor : Nat, examined : Nat, bytes : Nat, gone : SUBSET rs]
            /\ y.cursor = o + 1 /\ y.gone = x.gone \cup {o}
        BY <2>2, <3>4, <4>2
      <4> HIDE DEF y, cs, o, rs, fl
      <4>4. ASSUME NEW u \in x.gone \cup {o} PROVE u < o + 1 /\ u \notin cs
        <5>1. CASE u \in x.gone
          <6>1. u < o /\ u \notin cs /\ u \in Nat
            BY <2>2, <2>3, <2>5, <5>1
          <6> QED BY <2>2, <6>1
        <5>2. CASE u = o
          BY <2>2, <3>2, <5>2
        <5> QED BY <5>1, <5>2
      <4>5. ASSUME NEW u \in rs, k <= u, u < o + 1 PROVE u \in x.gone \cup {o} \/ u \in cs
        <5>1. u \in Nat
          BY <2>3
        <5>2. CASE u = o
          BY <5>2
        <5>3. CASE u # o
          <6>1. u < o
            BY <2>2, <4>5, <5>1, <5>3
          <6> QED BY <2>5, <4>5, <6>1
        <5> QED BY <5>2, <5>3
      <4>6. k <= o + 1 /\ o + 1 <= fl
        BY <2>2, <2>3, <2>4
      <4>7. LoopOK(y, k, fl, rs, cs)
        BY <4>3, <4>4, <4>5, <4>6 DEF LoopOK
      <4> QED BY <2>1, <4>1, <4>7, Zenon DEF cs, rs, fl
    <3> QED BY <3>3, <3>4
  <2> QED BY <2>7, <2>8
<1> QED BY <1>1, <1>2

LEMMA ReclaimKeeps ==
    ASSUME IInv, NEW p \in Partitions, NEW ls \in AllLeases, NEW k \in Nat, k <= ret[p].floor
    PROVE  LoopOK(Reclaim(p, ls, k), k, ret[p].floor, records[p], Covered(p, ls, records[p]))
<1> DEFINE Fine(x) == LoopOK(x, k, ret[p].floor, records[p], Covered(p, ls, records[p]))
<1>1. PICK f : IsLoop(f, p, ls, k, MaxTail) /\ Reclaim(p, ls, k) = f[MaxTail]
  BY ReclaimIs
<1>2. MaxTail \in Nat
  BY RetentionAssumption
<1>3. Fine(LoopStart(k))
  <2>1. ret[p].floor \in Nat /\ records[p] \subseteq Nat
    BY RetFields, RetentionAssumption DEF Offsets
  <2> DEFINE x == LoopStart(k)
  <2>2. /\ x \in [cursor : Nat, examined : Nat, bytes : Nat, gone : SUBSET records[p]]
        /\ x.cursor = k /\ x.gone = {}
    BY DEF LoopStart
  <2> HIDE DEF x
  <2>3. \A o \in records[p] : ~(k <= o /\ o < x.cursor)
    BY <2>1, <2>2
  <2> QED BY <2>2, <2>3 DEF LoopOK, x
<1>4. ASSUME NEW x, Fine(x) PROVE Fine(LoopTurn(p, ls, x))
  BY <1>4, TurnKeeps
<1> HIDE DEF Fine
<1> DEFINE bad == {n \in 0 .. MaxTail : ~Fine(f[n])}
<1>5. bad = {}
  <2> SUFFICES ASSUME bad # {} PROVE FALSE
    OBVIOUS
  <2>1. PICK m \in bad : \A n \in bad : m <= n
    <3>1. bad \in SUBSET Nat /\ bad # {}
      OBVIOUS
    <3> HIDE DEF bad
    <3> QED BY <3>1, LeastNatural
  <2>2. m \in 0 .. MaxTail /\ ~Fine(f[m])
    BY <2>1
  <2>3. m # 0
    BY <1>1, <1>3, <2>2 DEF IsLoop
  <2>4. m \in 1 .. MaxTail /\ m - 1 \in 0 .. MaxTail /\ ~(m <= m - 1)
    BY <1>2, <2>2, <2>3
  <2>5. Fine(f[m - 1])
    BY <2>1, <2>4
  <2>6. f[m] = LoopTurn(p, ls, f[m - 1])
    BY <1>1, <2>4 DEF IsLoop
  <2> QED BY <1>4, <2>2, <2>5, <2>6
<1>6. Fine(f[MaxTail])
  BY <1>2, <1>5
<1> QED BY <1>1, <1>6 DEF Fine

(* Deleting what no lease covers.                                          *)
LEMMA StepMaintain ==
    ASSUME IInv, NEW p \in Partitions, NEW t \in 0 .. now,
           MaintainRetention(p, ret[p].cursor, Observation(t))
    PROVE  IInv'
<1> DEFINE c == AdvanceClock(Observation(t))
           E == ExpiredLeases(c)
           freed == Rewind(Due(c))
           k == freed[p].cursor
           x == Reclaim(p, E, k)
           r == [freed[p] EXCEPT !.cursor = x.cursor, !.expired = @ + x.bytes]
           left == records[p] \ x.gone
           cs == Covered(p, E, records[p])
<1>1. ~fence /\ clock' = c /\ UNCHANGED <<logs, hint, fence, mutationState, now>>
  BY DEF MaintainRetention
<1>2. /\ tail' = tail /\ ends' = ends /\ hint' = hint /\ fence' = fence /\ now' = now
      /\ receipts' = receipts /\ sessions' = sessions
  BY <1>1 DEF logs, mutationState
<1>3. leases' = E /\ budget' = ExpiredBudget(c)
  BY <1>1, Zenon DEF MaintainRetention
<1>4. /\ ret' = [freed EXCEPT ![p].cursor = x.cursor, ![p].expired = @ + x.bytes]
      /\ records' = [records EXCEPT ![p] = @ \ x.gone]
  <2>1. \E fr \in {Rewind(Due(clock'))} :
        \E result \in {Reclaim(p, leases', fr[p].cursor)} :
           /\ ret' = [fr EXCEPT ![p].cursor = result.cursor, ![p].expired = @ + result.bytes]
           /\ records' = [records EXCEPT ![p] = @ \ result.gone]
    BY Zenon DEF MaintainRetention
  <2> QED BY <1>1, <1>3, <2>1, Zenon
<1>5. /\ c \in Clocks /\ c.lower <= now /\ c.lower \in Nat
  BY ClockFacts
<1> HIDE DEF c
<1>6. /\ Ends(leases, E, Due(c)) /\ E \in AllLeases
      /\ \A i \in Due(c) : E[i].expires <= now \/ E[i].hard <= now
  BY <1>5, ExpiryEnds DEF Ends
<1>7. Budgeted(E, ExpiredBudget(c)) /\ ExpiredBudget(c) \in [active : Nat, reserved : Nat]
  BY <1>5, ExpiryBudget
<1>8. /\ freed \in [Partitions -> Rets]
      /\ \A q \in Partitions :
            /\ freed[q].floor = ret[q].floor /\ freed[q].floorBytes = ret[q].floorBytes
            /\ freed[q].cursor \in Nat /\ freed[q].cursor <= ret[q].cursor
  BY <1>6, RewindIs DEF Ends
<1>9. \A q \in Partitions : Kept(q, records[q], freed[q].cursor, E, fence, Remember(Due(c))[q])
  BY <1>6, EndsKept
<1>10. /\ ret[p].floor \in Nat /\ ret[p].floor \in Offsets /\ tail[p] \in Nat
       /\ ret[p].floor <= tail[p] /\ k \in Nat /\ k <= ret[p].floor
       /\ records[p] \subseteq Nat /\ records[p] \subseteq Offsets /\ Offsets \subseteq Nat
  <2>1. /\ ret[p].floor \in Nat /\ ret[p].floor \in Offsets /\ tail[p] \in Nat
        /\ ret[p].floor <= tail[p] /\ ret[p].cursor \in Nat /\ ret[p].cursor <= ret[p].floor
        /\ records[p] \subseteq Offsets
    BY RetFields
  <2>2. Offsets \subseteq Nat
    BY RetentionAssumption DEF Offsets
  <2>3. k \in Nat /\ k <= ret[p].cursor
    BY <1>8
  <2> HIDE DEF k
  <2>4. k <= ret[p].floor
    BY <2>1, <2>3
  <2>5. records[p] \subseteq Nat
    BY <2>1, <2>2
  <2> QED BY <2>1, <2>2, <2>3, <2>4, <2>5
<1> HIDE DEF E, freed, k
<1>11. LoopOK(x, k, ret[p].floor, records[p], cs)
  BY <1>6, <1>10, ReclaimKeeps
<1> HIDE DEF x, cs
<1>12. /\ x.cursor \in Nat /\ x.cursor <= ret[p].floor /\ x.bytes \in Nat
       /\ x.gone \subseteq records[p]
       /\ \A o \in x.gone : o < ret[p].floor /\ o \notin cs
       /\ \A o \in records[p] : k <= o /\ o < x.cursor => o \in x.gone \/ o \in cs
  <2>1. /\ x.cursor \in Nat /\ x.cursor <= ret[p].floor /\ x.bytes \in Nat
        /\ x.gone \subseteq records[p]
        /\ \A o \in x.gone : o < x.cursor /\ o \notin cs
        /\ \A o \in records[p] : k <= o /\ o < x.cursor => o \in x.gone \/ o \in cs
    BY <1>11 DEF LoopOK
  <2>2. ASSUME NEW o \in x.gone PROVE o < ret[p].floor
    <3>1. o \in Nat /\ o < x.cursor
      BY <1>10, <2>1
    <3> QED BY <1>10, <2>1, <3>1
  <2> QED BY <2>1, <2>2
<1>13. /\ r \in Rets /\ r.floor = ret[p].floor /\ r.floorBytes = ret[p].floorBytes
       /\ r.cursor = x.cursor
  <2> DEFINE a == x.cursor
             b == freed[p].expired + x.bytes
             s == [freed[p] EXCEPT !.cursor = a, !.expired = b]
  <2>1. freed[p] \in Rets
    BY <1>8
  <2>2. a \in Offsets /\ b \in Nat
    <3>1. freed[p].expired \in Nat
      BY <2>1 DEF Rets
    <3>2. b \in Nat
      BY <1>12, <3>1
    <3>3. a \in Offsets
      BY <1>10, <1>12, RetentionAssumption DEF Offsets
    <3> QED BY <3>2, <3>3
  <2> HIDE DEF a, b
  <2>3. /\ s \in Rets /\ s.floor = freed[p].floor /\ s.floorBytes = freed[p].floorBytes
        /\ s.cursor = a
    BY <2>1, <2>2 DEF Rets
  <2>4. r = s
    BY DEF a, b
  <2> HIDE DEF s, r
  <2> QED BY <1>8, <2>3, <2>4 DEF a
<1>14. ret' = [freed EXCEPT ![p] = r]
  <2>1. freed[p] \in [floor : Offsets, cursor : Offsets, floorBytes : Nat, expired : Nat]
    BY <1>8 DEF Rets
  <2> QED BY <1>4, <1>8, <2>1
<1> HIDE DEF r
<1>15. /\ ret' \in [Partitions -> Rets] /\ ret'[p] = r
       /\ \A q \in Partitions : q # p => ret'[q] = freed[q]
  BY <1>8, <1>13, <1>14
<1>16. /\ records' \in [Partitions -> SUBSET Offsets] /\ records'[p] = left
       /\ \A q \in Partitions : q # p => records'[q] = records[q]
  <2>1. records \in [Partitions -> SUBSET Offsets]
    BY DEF IInv, TypeOK
  <2> QED BY <1>4, <2>1
<1>17. TypeOK'
  <2>1. /\ tail \in [Partitions -> Offsets] /\ ends \in [Partitions -> Seq(Nat)]
        /\ hint \in [Partitions -> Offsets \cup {None}] /\ fence \in BOOLEAN
        /\ receipts \in [MutationIds -> [mutation : Mutations, result : Results] \cup {None}]
        /\ sessions \in [Sessions -> [highest : Int, retained : Seq(Nat)]]
        /\ now \in 0 .. MaxTime
    BY DEF IInv, TypeOK
  <2> QED BY <1>1, <1>2, <1>3, <1>5, <1>6, <1>7, <1>15, <1>16, <2>1 DEF TypeOK, Rets, AllLeases
<1>18. PartitionOK(tail[p], ends[p], left, r)
  <2>1. PartitionOK(tail[p], ends[p], records[p], ret[p])
    BY DEF IInv
  <2>2. left \subseteq 0 .. tail[p] - 1
    BY <2>1 DEF PartitionOK
  <2>3. r.floor .. tail[p] - 1 \subseteq left
    <3>1. ret[p].floor .. tail[p] - 1 \subseteq records[p]
      BY <2>1 DEF PartitionOK
    <3>2. ASSUME NEW o \in ret[p].floor .. tail[p] - 1 PROVE o \notin x.gone
      BY <1>10, <1>12
    <3> QED BY <1>13, <3>1, <3>2
  <2>4. r.cursor <= r.floor /\ r.floor <= tail[p]
    BY <1>10, <1>12, <1>13
  <2> QED BY <1>13, <2>1, <2>2, <2>3, <2>4 DEF PartitionOK
<1>19. ASSUME NEW q \in Partitions, q # p
       PROVE  PartitionOK(tail[q], ends[q], records[q], freed[q])
  <2>1. PartitionOK(tail[q], ends[q], records[q], ret[q])
    BY DEF IInv
  <2>2. ret[q].cursor \in Nat /\ ret[q].floor \in Nat
    BY RetFields
  <2>3. /\ freed[q].floor = ret[q].floor /\ freed[q].floorBytes = ret[q].floorBytes
        /\ freed[q].cursor \in Nat /\ freed[q].cursor <= ret[q].cursor
    BY <1>8
  <2> QED BY <2>1, <2>2, <2>3 DEF PartitionOK
<1>20. ASSUME NEW q \in Partitions PROVE PartitionOK(tail[q], ends[q], records'[q], ret'[q])
  <2>1. CASE q = p
    BY <1>15, <1>16, <1>18, <2>1, Zenon
  <2>2. CASE q # p
    BY <1>15, <1>16, <1>19, <2>2, Zenon
  <2> QED BY <2>1, <2>2
<1>21. LeasesOK(E, tail, ends, records', now)
  <2>1. LeasesOK(E, tail, ends, records, now)
    BY <1>6, EndsLeases DEF IInv
  <2> SUFFICES ASSUME NEW i \in MutationIds, E[i] # None
               PROVE  LeaseOK(E[i], tail[E[i].partition], ends[E[i].partition],
                              records'[E[i].partition], now)
    BY Zenon DEF LeasesOK
  <2> DEFINE l == E[i]
             q == l.partition
  <2>2. LeaseOK(l, tail[q], ends[q], records[q], now)
    BY <2>1, Zenon DEF LeasesOK
  <2>3. q \in Partitions /\ l.start \in Nat /\ l.end \in Nat
    BY <1>6, LeaseFields
  <2>4. CASE q = p
    <3>1. ASSUME l.lifecycle = "active" PROVE l.start .. l.end - 1 \subseteq left
      <4>1. i \in Active(E)
        BY <3>1 DEF Active
      <4>2. l.start .. l.end - 1 \subseteq records[p]
        BY <2>2, <2>4, <3>1 DEF LeaseOK
      <4>3. ASSUME NEW o \in l.start .. l.end - 1 PROVE o \in cs
        <5>1. Covers(l, p, o)
          <6> HIDE DEF l
          <6> QED BY <2>3, <2>4 DEF Covers
        <5> QED BY <4>1, <4>2, <5>1 DEF cs, Covered
      <4> HIDE DEF l
      <4> QED BY <1>12, <4>2, <4>3
    <3> HIDE DEF l
    <3>2. LeaseOK(l, tail[q], ends[q], left, now)
      BY <2>2, <3>1 DEF LeaseOK
    <3>3. records'[q] = left
      BY <1>16, <2>4
    <3> QED BY <3>2, <3>3, Zenon DEF l
  <2>5. CASE q # p
    <3>1. records'[q] = records[q]
      BY <1>16, <2>3, <2>5
    <3> QED BY <2>2, <3>1, Zenon
  <2> QED BY <2>4, <2>5
<1>22. Closed(E, sessions)
  <2>1. Closed(leases, sessions)
    BY DEF IInv
  <2>2. \A i \in MutationIds : E[i] # None <=> leases[i] # None
    BY <1>6, EndsActive
  <2> QED BY <2>1, <2>2 DEF Closed
<1>23. ASSUME NEW q \in Partitions
       PROVE  \A o \in records[q] : o < freed[q].cursor => \E i \in Active(E) : Covers(E[i], q, o)
  <2>1. Kept(q, records[q], freed[q].cursor, E, fence, Remember(Due(c))[q])
    BY <1>9
  <2> QED BY <1>1, <2>1, Zenon DEF Kept
<1>24. ASSUME NEW q \in Partitions, NEW o \in records'[q], o < ret'[q].cursor
       PROVE  \E i \in Active(E) : Covers(E[i], q, o)
  <2>1. CASE q # p
    <3>1. o \in records[q] /\ o < freed[q].cursor
      BY <1>15, <1>16, <1>24, <2>1
    <3> QED BY <1>23, <3>1
  <2>2. CASE q = p
    <3>1. o \in records[p] /\ o \notin x.gone /\ o < x.cursor /\ o \in Nat
      <4>1. o \in left /\ o < r.cursor
        BY <1>15, <1>16, <1>24, <2>2
      <4> QED BY <1>10, <1>13, <4>1
    <3>2. CASE o < k
      BY <1>23, <2>2, <3>1, <3>2 DEF k
    <3>3. CASE k <= o
      <4>1. o \in cs
        BY <1>12, <3>1, <3>3
      <4> QED BY <2>2, <4>1 DEF cs, Covered
    <3> QED BY <1>10, <3>1, <3>2, <3>3
  <2> QED BY <2>1, <2>2
<1>25. \A q \in Partitions : Kept(q, records[q], ret[q].cursor, leases, fence, hint[q])'
  <2>1. ASSUME NEW q \in Partitions
        PROVE  Kept(q, records'[q], ret'[q].cursor, E, fence, hint[q])
    BY <1>24, Zenon DEF Kept
  <2> QED BY <1>2, <1>3, <2>1, Zenon
<1>26. \A q \in Partitions : PartitionOK(tail[q], ends[q], records[q], ret[q])'
  BY <1>2, <1>20, Zenon
<1>27. /\ LeasesOK(leases, tail, ends, records, now)' /\ Closed(leases, sessions)'
       /\ Budgeted(leases, budget)'
  BY <1>2, <1>3, <1>7, <1>21, <1>22, Zenon
<1>28. (clock # None => clock.lower <= now)' /\ (\A q \in Partitions : hint[q] # None => fence)'
  BY <1>1, <1>2, <1>5 DEF IInv
<1> QED BY <1>17, <1>25, <1>26, <1>27, <1>28, Zenon DEF IInv

-----------------------------------------------------------------------------
(* The fence and time.                                                     *)

LEMMA StepAcquireFence ==
    ASSUME IInv, AcquireFence
    PROVE  IInv'
<1>0. /\ tail' = tail /\ ends' = ends /\ records' = records /\ ret' = ret /\ hint' = hint
      /\ leases' = leases /\ budget' = budget /\ clock' = clock /\ now' = now
      /\ receipts' = receipts /\ sessions' = sessions /\ ~fence /\ fence' = TRUE
  BY DEF AcquireFence, logs, mutationState
<1>1. TypeOK'
  BY <1>0 DEF IInv, TypeOK
<1>2. \A p \in Partitions : PartitionOK(tail[p], ends[p], records[p], ret[p])'
  BY <1>0, Zenon DEF IInv
<1>3. /\ LeasesOK(leases, tail, ends, records, now)' /\ Budgeted(leases, budget)'
      /\ Closed(leases, sessions)'
  BY <1>0, Zenon DEF IInv
<1>4. ASSUME NEW p \in Partitions
      PROVE  Kept(p, records[p], ret[p].cursor, leases, TRUE, hint[p])
  <2>1. Kept(p, records[p], ret[p].cursor, leases, fence, hint[p])
    BY DEF IInv
  <2> QED BY <1>0, <2>1, Zenon DEF Kept
<1>5. \A p \in Partitions : Kept(p, records[p], ret[p].cursor, leases, fence, hint[p])'
  BY <1>0, <1>4, Zenon
<1>6. (clock # None => clock.lower <= now)' /\ (\A p \in Partitions : hint[p] # None => fence)'
  BY <1>0 DEF IInv
<1> QED BY <1>1, <1>2, <1>3, <1>5, <1>6, Zenon DEF IInv

(* The hints bring the cursors back to what was freed under the fence.     *)
LEMMA StepReleaseFence ==
    ASSUME IInv, ReleaseFence
    PROVE  IInv'
<1> DEFINE new(p) == IF hint[p] = None THEN ret[p].cursor ELSE Smaller(ret[p].cursor, hint[p])
<1>0. /\ tail' = tail /\ ends' = ends /\ records' = records
      /\ leases' = leases /\ budget' = budget /\ clock' = clock /\ now' = now
      /\ receipts' = receipts /\ sessions' = sessions /\ fence /\ fence' = FALSE
      /\ hint' = [p \in Partitions |-> None]
  BY DEF ReleaseFence, logs, mutationState
<1>1. ret' = [p \in Partitions |-> IF hint[p] = None THEN ret[p]
                                   ELSE [ret[p] EXCEPT !.cursor = Smaller(@, hint[p])]]
  BY DEF ReleaseFence
<1>2. ASSUME NEW p \in Partitions
      PROVE  /\ new(p) \in Offsets /\ new(p) \in Nat /\ new(p) <= ret[p].cursor
             /\ hint[p] # None => new(p) <= hint[p] /\ hint[p] \in Nat
  <2>1. /\ ret[p].cursor \in Offsets /\ ret[p].cursor \in Nat /\ hint[p] \in Offsets \cup {None}
    BY RetFields
  <2>2. Offsets \subseteq Nat
    BY RetentionAssumption DEF Offsets
  <2>3. CASE hint[p] = None
    <3>1. new(p) = ret[p].cursor
      BY <2>3
    <3> HIDE DEF new
    <3> QED BY <2>1, <2>3, <3>1
  <2>4. CASE hint[p] # None
    <3> DEFINE a == ret[p].cursor
               b == hint[p]
    <3>1. a \in Nat /\ b \in Nat /\ a \in Offsets /\ b \in Offsets
      BY <2>1, <2>2, <2>4
    <3>2. new(p) = Smaller(a, b)
      BY <2>4
    <3> HIDE DEF a, b, new
    <3>3. /\ Smaller(a, b) \in Offsets /\ Smaller(a, b) \in Nat /\ Smaller(a, b) <= a
          /\ Smaller(a, b) <= b
      BY <3>1 DEF Smaller
    <3> QED BY <3>1, <3>2, <3>3 DEF a, b
  <2> QED BY <2>3, <2>4
<1>3. ASSUME NEW p \in Partitions
      PROVE  /\ ret'[p] \in Rets /\ ret'[p].cursor = new(p) /\ ret'[p].floor = ret[p].floor
             /\ ret'[p].floorBytes = ret[p].floorBytes
  <2>1. ret[p] \in Rets /\ new(p) \in Offsets
    BY <1>2, RetFields
  <2>2. CASE hint[p] = None
    <3>1. ret'[p] = ret[p]
      BY <1>1, <2>2
    <3> QED BY <2>1, <2>2, <3>1
  <2>3. CASE hint[p] # None
    <3> DEFINE a == new(p)
    <3>1. ret'[p] = [ret[p] EXCEPT !.cursor = a]
      BY <1>1, <2>3
    <3> HIDE DEF a
    <3>2. /\ ret'[p] \in Rets /\ ret'[p].cursor = a /\ ret'[p].floor = ret[p].floor
          /\ ret'[p].floorBytes = ret[p].floorBytes
      BY <2>1, <3>1 DEF Rets, a
    <3> QED BY <3>2 DEF a
  <2> QED BY <2>2, <2>3
<1> HIDE DEF new
<1>4. ret' \in [Partitions -> Rets] /\ hint' \in [Partitions -> Offsets \cup {None}]
  <2>1. ret' = [p \in Partitions |-> ret'[p]]
    BY <1>1
  <2> QED BY <1>0, <1>3, <2>1
<1>5. TypeOK'
  BY <1>0, <1>4 DEF IInv, TypeOK, Rets
<1>6. ASSUME NEW p \in Partitions
      PROVE  PartitionOK(tail[p], ends[p], records[p], ret'[p])
  <2>1. PartitionOK(tail[p], ends[p], records[p], ret[p])
    BY DEF IInv
  <2>2. ret[p].cursor \in Nat /\ ret[p].floor \in Nat
    BY RetFields
  <2>3. /\ ret'[p].cursor \in Nat /\ ret'[p].cursor <= ret[p].cursor
        /\ ret'[p].floor = ret[p].floor /\ ret'[p].floorBytes = ret[p].floorBytes
    BY <1>2, <1>3
  <2> QED BY <2>1, <2>2, <2>3 DEF PartitionOK
<1>7. \A p \in Partitions : PartitionOK(tail[p], ends[p], records[p], ret[p])'
  BY <1>0, <1>6, Zenon
<1>8. /\ LeasesOK(leases, tail, ends, records, now)' /\ Budgeted(leases, budget)'
      /\ Closed(leases, sessions)'
  BY <1>0, Zenon DEF IInv
<1>9. ASSUME NEW p \in Partitions
      PROVE  Kept(p, records[p], ret'[p].cursor, leases, FALSE, None)
  <2> SUFFICES ASSUME NEW o \in records[p], o < ret'[p].cursor
               PROVE  \E i \in Active(leases) : Covers(leases[i], p, o)
    BY Zenon DEF Kept
  <2>1. o \in Nat /\ ret[p].cursor \in Nat
    BY RetFields, RetentionAssumption DEF Offsets
  <2>2. o < new(p) /\ o < ret[p].cursor /\ (hint[p] # None => ~(hint[p] <= o))
    <3>1. o < new(p) /\ new(p) \in Nat /\ new(p) <= ret[p].cursor
          /\ (hint[p] # None => new(p) <= hint[p] /\ hint[p] \in Nat)
      BY <1>2, <1>3
    <3> QED BY <2>1, <3>1
  <2>3. Kept(p, records[p], ret[p].cursor, leases, fence, hint[p])
    BY DEF IInv
  <2> QED BY <2>2, <2>3, Zenon DEF Kept
<1>10. \A p \in Partitions : Kept(p, records[p], ret[p].cursor, leases, fence, hint[p])'
  <2>1. \A p \in Partitions : hint'[p] = None
    BY <1>0
  <2> QED BY <1>0, <1>9, <2>1, Zenon
<1>11. (clock # None => clock.lower <= now)' /\ (\A p \in Partitions : hint[p] # None => fence)'
  BY <1>0 DEF IInv
<1> QED BY <1>5, <1>7, <1>8, <1>10, <1>11, Zenon DEF IInv

LEMMA StepTick ==
    ASSUME IInv, Tick
    PROVE  IInv'
<1>0. /\ tail' = tail /\ ends' = ends /\ records' = records /\ ret' = ret /\ hint' = hint
      /\ leases' = leases /\ budget' = budget /\ clock' = clock /\ fence' = fence
      /\ receipts' = receipts /\ sessions' = sessions /\ now < MaxTime /\ now' = now + 1
  BY DEF Tick, logs, mutationState
<1>1. now \in Nat /\ MaxTime \in Nat /\ now \in 0 .. MaxTime
  BY RetentionAssumption DEF IInv, TypeOK
<1>2. now' \in 0 .. MaxTime /\ now' \in Nat /\ now <= now'
  BY <1>0, <1>1
<1>3. TypeOK'
  BY <1>0, <1>2 DEF IInv, TypeOK
<1>4. LeasesOK(leases, tail, ends, records, now')
  <2> SUFFICES ASSUME NEW i \in MutationIds, leases[i] # None
               PROVE  LeaseOK(leases[i], tail[leases[i].partition], ends[leases[i].partition],
                              records[leases[i].partition], now')
    BY Zenon DEF LeasesOK
  <2> DEFINE l == leases[i]
             q == l.partition
  <2>1. LeaseOK(l, tail[q], ends[q], records[q], now)
    BY Zenon DEF IInv, LeasesOK
  <2>2. l.expires \in Nat /\ l.hard \in Nat
    BY LeaseFields DEF IInv, TypeOK, AllLeases
  <2> HIDE DEF l
  <2>3. l.lifecycle = "expired" => l.expires <= now' \/ l.hard <= now'
    BY <1>1, <1>2, <2>1, <2>2 DEF LeaseOK
  <2>4. LeaseOK(l, tail[q], ends[q], records[q], now')
    BY <2>1, <2>3 DEF LeaseOK
  <2> QED BY <2>4 DEF l
<1>5. \A p \in Partitions : PartitionOK(tail[p], ends[p], records[p], ret[p])'
  BY <1>0, Zenon DEF IInv
<1>6. Budgeted(leases, budget)' /\ Closed(leases, sessions)'
  BY <1>0, Zenon DEF IInv
<1>7. \A p \in Partitions : Kept(p, records[p], ret[p].cursor, leases, fence, hint[p])'
  BY <1>0, Zenon DEF IInv
<1>8. LeasesOK(leases, tail, ends, records, now)'
  BY <1>0, <1>4, Zenon
<1>9. (clock # None => clock.lower <= now)' /\ (\A p \in Partitions : hint[p] # None => fence)'
  <2>1. clock # None => clock.lower \in Nat /\ clock.lower <= now
    BY DEF IInv, TypeOK, Clocks
  <2>2. clock # None => clock.lower <= now'
    BY <1>1, <1>2, <2>1
  <2> QED BY <1>0, <2>2 DEF IInv
<1> QED BY <1>3, <1>5, <1>6, <1>7, <1>8, <1>9, Zenon DEF IInv

LEMMA StepStutters ==
    ASSUME IInv, UNCHANGED vars
    PROVE  IInv'
<1>0. /\ tail' = tail /\ ends' = ends /\ records' = records /\ ret' = ret /\ hint' = hint
      /\ leases' = leases /\ budget' = budget /\ clock' = clock /\ fence' = fence
      /\ receipts' = receipts /\ sessions' = sessions /\ now' = now
  BY DEF vars
<1>1. TypeOK'
  BY <1>0 DEF IInv, TypeOK
<1>2. \A p \in Partitions : PartitionOK(tail[p], ends[p], records[p], ret[p])'
  BY <1>0, Zenon DEF IInv
<1>3. /\ LeasesOK(leases, tail, ends, records, now)' /\ Budgeted(leases, budget)'
      /\ Closed(leases, sessions)'
  BY <1>0, Zenon DEF IInv
<1>4. \A p \in Partitions : Kept(p, records[p], ret[p].cursor, leases, fence, hint[p])'
  BY <1>0, Zenon DEF IInv
<1>5. (clock # None => clock.lower <= now)' /\ (\A p \in Partitions : hint[p] # None => fence)'
  BY <1>0 DEF IInv
<1> QED BY <1>1, <1>2, <1>3, <1>4, <1>5, Zenon DEF IInv

LEMMA InitInv == Init => IInv
<1> SUFFICES ASSUME Init PROVE IInv
  OBVIOUS
<1>1. 0 \in Offsets /\ 0 \in Nat /\ 0 \in 0 .. MaxTime
  BY RetentionAssumption DEF Offsets
<1>2. TypeOK
  <2>1. /\ tail \in [Partitions -> Offsets] /\ ends \in [Partitions -> Seq(Nat)]
        /\ records \in [Partitions -> SUBSET Offsets]
        /\ hint \in [Partitions -> Offsets \cup {None}]
        /\ leases \in [MutationIds -> Leases \cup {None}]
    BY <1>1 DEF Init
  <2>1a. /\ budget \in [active : Nat, reserved : Nat] /\ clock \in Clocks \cup {None}
         /\ fence \in BOOLEAN /\ now \in 0 .. MaxTime
    BY <1>1 DEF Init
  <2>2. ret \in [Partitions -> [floor : Offsets, cursor : Offsets, floorBytes : Nat, expired : Nat]]
    BY <1>1 DEF Init
  <2>3. /\ receipts \in [MutationIds -> [mutation : Mutations, result : Results] \cup {None}]
        /\ sessions \in [Sessions -> [highest : Int, retained : Seq(Nat)]]
    BY DEF Init
  <2> QED BY <2>1, <2>1a, <2>2, <2>3 DEF TypeOK
<1>3. ASSUME NEW p \in Partitions
      PROVE  /\ PartitionOK(tail[p], ends[p], records[p], ret[p])
             /\ Kept(p, records[p], ret[p].cursor, leases, fence, hint[p])
  <2>1. /\ tail[p] = 0 /\ ends[p] = <<>> /\ records[p] = {}
        /\ ret[p] = [floor |-> 0, cursor |-> 0, floorBytes |-> 0, expired |-> 0]
    BY DEF Init
  <2>2. Rising(<<>>, 0)
    <3>1. ASSUME NEW i \in 0 .. 0, NEW j \in 0 .. 0 PROVE EndAt(<<>>, i) <= EndAt(<<>>, j)
      BY DEF EndAt
    <3> QED BY <3>1 DEF Rising
  <2>3. PartitionOK(0, <<>>, {}, [floor |-> 0, cursor |-> 0, floorBytes |-> 0, expired |-> 0])
    BY <2>2 DEF PartitionOK, EndAt
  <2>4. Kept(p, {}, ret[p].cursor, leases, fence, hint[p])
    BY DEF Kept
  <2> QED BY <2>1, <2>3, <2>4, Zenon
<1>4. \A i \in MutationIds : leases[i] = None
  BY DEF Init
<1>5. LeasesOK(leases, tail, ends, records, now) /\ Closed(leases, sessions)
  BY <1>4 DEF LeasesOK, Closed
<1>6. Budgeted(leases, budget)
  <2>1. Active(leases) = {}
    BY <1>4 DEF Active
  <2>2. IsFiniteSet({}) /\ Cardinality({}) = 0
    BY FS_EmptySet
  <2>3. Bytes(leases, {}) = 0
    <3>1. Sized(leases, {})
      BY <2>2 DEF Sized
    <3> QED BY <3>1, BytesStep
  <2>4. IsFiniteSet(Active(leases)) /\ Cardinality(Active(leases)) = 0 /\ Bytes(leases, Active(leases)) = 0
    BY <2>1, <2>2, <2>3, Zenon
  <2>5. budget.active = 0 /\ budget.reserved = 0
    BY DEF Init
  <2> QED BY <2>4, <2>5, RetentionAssumption DEF Budgeted
<1>7. (clock # None => clock.lower <= now) /\ (\A p \in Partitions : hint[p] # None => fence)
  BY DEF Init
<1> QED BY <1>2, <1>3, <1>5, <1>6, <1>7, Zenon DEF IInv

LEMMA NextKeepsInv == IInv /\ [Next]_vars => IInv'
<1> SUFFICES ASSUME IInv, [Next]_vars PROVE IInv'
  OBVIOUS
<1>1. CASE \E p \in Partitions, size \in Sizes : Publish(p, size)
  BY <1>1, StepPublish
<1>2. CASE \E m \in Mutations, t \in 0 .. now : AdvanceRetention(m, Observation(t))
  BY <1>2, StepAdvance
<1>3. CASE \E m \in Mutations, t \in 0 .. now : AdmitReplayLease(m, Observation(t))
  BY <1>3, StepAdmit
<1>4. CASE \E m \in Mutations, t \in 0 .. now : RenewReplayLease(m, Observation(t))
  BY <1>4, StepRenew
<1>5. CASE \E m \in Mutations, t \in 0 .. now : ReleaseReplayLease(m, Observation(t))
  BY <1>5, StepRelease
<1>6. CASE \E p \in Partitions, t \in 0 .. now :
              MaintainRetention(p, ret[p].cursor, Observation(t))
  BY <1>6, StepMaintain
<1>7. CASE AcquireFence
  BY <1>7, StepAcquireFence
<1>8. CASE ReleaseFence
  BY <1>8, StepReleaseFence
<1>9. CASE Tick
  BY <1>9, StepTick
<1>10. CASE UNCHANGED vars
  BY <1>10, StepStutters
<1> QED BY <1>1, <1>2, <1>3, <1>4, <1>5, <1>6, <1>7, <1>8, <1>9, <1>10, Zenon DEF Next

-----------------------------------------------------------------------------
(* The theorems.                                                           *)

LEMMA InvHolds == Spec => []IInv
<1> QED BY InitInv, NextKeepsInv, PTL DEF Spec

(* Every value of the group's retention state keeps its type: cursors,     *)
(* floors, leases, the budget and the receipts.                            *)
THEOREM TypeCorrect == Spec => []TypeOK
<1>1. IInv => TypeOK
  BY DEF IInv
<1> QED BY <1>1, InvHolds, PTL

(* apply_maintain_retention deletes exactly what it may: no record at or   *)
(* above the floor or under a lease that has not run out by true time, and *)
(* nothing it passes is left behind unless it will come back for it.       *)
THEOREM ReclamationIsAlwaysExact == Spec => []ReclamationIsExact
<1>1. IInv => ReclamationIsExact
  <2> SUFFICES ASSUME IInv PROVE ReclamationIsExact
    OBVIOUS
  <2>1. ASSUME NEW p \in Partitions PROVE ret[p].floor .. tail[p] - 1 \subseteq records[p]
    BY DEF IInv, PartitionOK
  <2>2. ASSUME NEW i \in MutationIds, leases[i] # None, leases[i].lifecycle # "released",
               now < leases[i].expires, now < leases[i].hard
        PROVE  /\ leases[i].lifecycle = "active"
               /\ leases[i].start .. leases[i].end - 1 \subseteq records[leases[i].partition]
    <3> DEFINE l == leases[i]
               q == l.partition
    <3>1. LeaseOK(l, tail[q], ends[q], records[q], now)
      BY <2>2, Zenon DEF IInv, LeasesOK
    <3>2. /\ l.lifecycle \in {"active", "expired", "released"}
          /\ l.expires \in Nat /\ l.hard \in Nat
      BY <2>2, LeaseFields DEF IInv, TypeOK, AllLeases
    <3>3. now \in Nat
      BY RetentionAssumption DEF IInv, TypeOK
    <3> HIDE DEF l
    <3>4. ~(l.expires <= now) /\ ~(l.hard <= now)
      BY <2>2, <3>2, <3>3 DEF l
    <3>5. l.lifecycle = "active" /\ l.start .. l.end - 1 \subseteq records[q]
      BY <2>2, <3>1, <3>2, <3>4 DEF LeaseOK, l
    <3> QED BY <3>5 DEF l
  <2>3. PromisedRecordsStay
    BY <2>1, <2>2 DEF PromisedRecordsStay
  <2>4. NothingLeaks
    <3> SUFFICES ASSUME NEW p \in Partitions, NEW o \in records[p], o < ret[p].cursor
                 PROVE  \/ \E i \in Active(leases) : Covers(leases[i], p, o)
                        \/ fence /\ hint[p] # None /\ hint[p] <= o
      BY Zenon DEF NothingLeaks
    <3>1. Kept(p, records[p], ret[p].cursor, leases, fence, hint[p])
      BY DEF IInv
    <3> QED BY <3>1, Zenon DEF Kept
  <2> QED BY <2>3, <2>4 DEF ReclamationIsExact
<1> QED BY <1>1, InvHolds, PTL

(* KEY_LEASE_BUDGET counts the active leases and the sum of their bytes,   *)
(* however many expire at once, and both stay within the group's limits.   *)
THEOREM BudgetAlwaysMatchesLeases == Spec => []BudgetMatchesLeases
<1>1. IInv => BudgetMatchesLeases
  <2> SUFFICES ASSUME IInv PROVE BudgetMatchesLeases
    OBVIOUS
  <2>1. /\ budget.active = Cardinality(Active(leases)) /\ budget.active <= MaxActiveLeases
        /\ budget.reserved = Bytes(leases, Active(leases)) /\ budget.reserved <= MaxGroupBytes
    BY Zenon DEF IInv, Budgeted
  <2>2. ASSUME NEW p \in Partitions PROVE ret[p].floorBytes = EndBefore(p, ret[p].floor)
    BY EndBeforeIs DEF IInv, PartitionOK
  <2>3. ASSUME NEW i \in MutationIds, leases[i] # None
        PROVE  leases[i].bytes = EndBefore(leases[i].partition, leases[i].end)
                                   - EndBefore(leases[i].partition, leases[i].start)
    <3> DEFINE l == leases[i]
               q == l.partition
    <3>1. LeaseOK(l, tail[q], ends[q], records[q], now)
      BY <2>3, Zenon DEF IInv, LeasesOK
    <3> HIDE DEF l
    <3>2. l.bytes = EndBefore(q, l.end) - EndBefore(q, l.start)
      BY <3>1, EndBeforeIs DEF LeaseOK
    <3> QED BY <3>2 DEF l
  <2> QED BY <2>1, <2>2, <2>3, Zenon DEF BudgetMatchesLeases
<1> QED BY <1>1, InvHolds, PTL

(* A lease that is not active is left alone by every command: expiry,      *)
(* renewal and release touch active leases, and the session rejects a      *)
(* mutation that admitted a lease before, receipt or not.                  *)
EndedStay == \A i \in MutationIds :
    leases[i] # None /\ leases[i].lifecycle # "active" => leases'[i] = leases[i]

LEMMA ExpiryLeavesEnded ==
    ASSUME NEW c, NEW i \in MutationIds, leases[i].lifecycle # "active"
    PROVE  ExpiredLeases(c)[i] = leases[i]
BY DEF ExpiredLeases, IsDue

LEMMA RewriteLeavesEnded ==
    ASSUME IInv, NEW c, NEW j \in MutationIds, NEW l,
           leases' = [ExpiredLeases(c) EXCEPT ![j] = l],
           leases[j] = None \/ j \in Active(leases)
    PROVE  EndedStay
<1> SUFFICES ASSUME NEW i \in MutationIds, leases[i] # None, leases[i].lifecycle # "active"
             PROVE  leases'[i] = leases[i]
  BY DEF EndedStay
<1>1. i # j
  BY DEF Active
<1>2. leases'[i] = ExpiredLeases(c)[i]
  <2> DEFINE E == ExpiredLeases(c)
  <2>1. DOMAIN E = MutationIds
    BY DEF ExpiredLeases
  <2> HIDE DEF E
  <2>2. leases' = [E EXCEPT ![j] = l]
    BY DEF E
  <2> QED BY <1>1, <2>1, <2>2 DEF E
<1> QED BY <1>2, ExpiryLeavesEnded

LEMMA StepLeavesEnded ==
    ASSUME IInv, [Next]_vars
    PROVE  EndedStay
<1>0. CASE leases' = leases
  BY <1>0 DEF EndedStay
<1>1. ASSUME NEW c, leases' = ExpiredLeases(c) PROVE EndedStay
  BY <1>1, ExpiryLeavesEnded DEF EndedStay
<1>2. CASE \E p \in Partitions, size \in Sizes : Publish(p, size)
  BY <1>0, <1>2 DEF Publish
<1>3. CASE \E m \in Mutations, t \in 0 .. now : AdvanceRetention(m, Observation(t))
  BY <1>0, <1>3 DEF AdvanceRetention
<1>4. CASE \E m \in Mutations, t \in 0 .. now : AdmitReplayLease(m, Observation(t))
  <2> PICK m \in Mutations, t \in 0 .. now : AdmitReplayLease(m, Observation(t))
    BY <1>4
  <2> DEFINE c == AdvanceClock(Observation(t))
  <2>1. Prior(m) = None
    BY DEF AdmitReplayLease
  <2>2. leases[m.id] = None /\ m.id \in MutationIds
    <3>1. m.id \in MutationIds /\ m.id.session \in Sessions /\ m.id.sequence \in Nat
      BY MutationFields
    <3>2. m.id.sequence > sessions[m.id.session].highest
      BY <2>1, NewMutation
    <3>3. sessions[m.id.session].highest \in Int
      BY <3>1 DEF IInv, TypeOK
    <3>4. ~(m.id.sequence <= sessions[m.id.session].highest)
      BY <3>1, <3>2, <3>3
    <3> QED BY <3>1, <3>4 DEF IInv, Closed
  <2>3. \/ leases' = leases \/ leases' = ExpiredLeases(c)
        \/ \E l : leases' = [ExpiredLeases(c) EXCEPT ![m.id] = l]
    BY Zenon DEF AdmitReplayLease, WriteExpiry
  <2> QED BY <1>0, <1>1, <2>2, <2>3, RewriteLeavesEnded
<1>5. CASE \E m \in Mutations, t \in 0 .. now : RenewReplayLease(m, Observation(t))
  <2> PICK m \in Mutations, t \in 0 .. now : RenewReplayLease(m, Observation(t))
    BY <1>5
  <2> DEFINE c == AdvanceClock(Observation(t))
  <2>1. m.lease \in MutationIds
    BY MutationFields DEF RenewReplayLease
  <2>2. \/ leases' = leases \/ leases' = ExpiredLeases(c)
        \/ /\ RenewalError(m, c) = None
           /\ \E l : leases' = [ExpiredLeases(c) EXCEPT ![m.lease] = l]
    BY Zenon DEF RenewReplayLease, WriteExpiry
  <2>3. RenewalError(m, c) = None => m.lease \in Active(leases)
    <3>1. RenewalError(m, c) = None => LeaseError(m, c) = None
      BY NoneAssumption DEF RenewalError, Reasons
    <3> QED BY <2>1, <3>1, Usable
  <2> QED BY <1>0, <1>1, <2>1, <2>2, <2>3, RewriteLeavesEnded
<1>6. CASE \E m \in Mutations, t \in 0 .. now : ReleaseReplayLease(m, Observation(t))
  <2> PICK m \in Mutations, t \in 0 .. now : ReleaseReplayLease(m, Observation(t))
    BY <1>6
  <2> DEFINE c == AdvanceClock(Observation(t))
  <2>1. m.lease \in MutationIds
    BY MutationFields DEF ReleaseReplayLease
  <2>2. \/ leases' = leases \/ leases' = ExpiredLeases(c)
        \/ /\ LeaseError(m, c) = None
           /\ \E l : leases' = [ExpiredLeases(c) EXCEPT ![m.lease] = l]
    BY Zenon DEF ReleaseReplayLease, WriteExpiry
  <2>3. LeaseError(m, c) = None => m.lease \in Active(leases)
    BY <2>1, Usable
  <2> QED BY <1>0, <1>1, <2>1, <2>2, <2>3, RewriteLeavesEnded
<1>7. CASE \E p \in Partitions, t \in 0 .. now :
              MaintainRetention(p, ret[p].cursor, Observation(t))
  BY <1>1, <1>7, Zenon DEF MaintainRetention
<1>8. CASE AcquireFence \/ ReleaseFence \/ Tick \/ UNCHANGED vars
  BY <1>0, <1>8 DEF AcquireFence, ReleaseFence, Tick, vars
<1> QED BY <1>2, <1>3, <1>4, <1>5, <1>6, <1>7, <1>8, Zenon DEF Next

(* No command brings an ended lease back: not a retried admission whose    *)
(* receipt was evicted, nor a renewal that comes after the expiry.         *)
THEOREM LeasesAlwaysEndForGood == Spec => LeasesEndForGood
<1>1. IInv /\ [Next]_vars => [EndedStay]_vars
  BY StepLeavesEnded
<1>2. Spec => [][EndedStay]_vars
  BY <1>1, InvHolds, PTL DEF Spec
<1> QED BY <1>2, Zenon DEF LeasesEndForGood, EndedStay

-----------------------------------------------------------------------------
(***************************************************************************)
(* Administration of the voters (Membership).  The control state is what   *)
(* every node acts on; its topology is followed through all the commands   *)
(* of storage/lib.rs, with what it takes for one of them to find a control *)
(* state to start from.                                                    *)
(***************************************************************************)

ControlStates ==
    [topo : Topology, op : [Requests -> Lifecycle], slot : Requests \union {NoRequest}]

\* The outgoing nodes of the replacements that are pending in s.
Leaving(s) ==
    {Intent[r].remove : r \in {q \in Requests : s.op[q] = "pending" /\ Intent[q].kind = "replace"}}

\* TopologyMatchesOperation of one control state.
Matches(s) ==
    /\ s.topo.auth = s.topo.desired \union Leaving(s)
    /\ Leaving(s) \intersect s.topo.desired = {}
    /\ Cardinality(s.topo.desired) = Cardinality(Members) /\ IsFiniteSet(s.topo.desired)
    /\ \A r \in Requests : s.op[r] = "pending" => s.slot = r

(* An intent is one of the two kinds, and names nodes.                     *)
LEMMA IntentsAre ==
    ASSUME NEW r \in Requests, Intent[r].kind = "replace"
    PROVE  /\ Intent[r].remove \in Nodes /\ Intent[r].add \in Nodes /\ Intent[r].rev \in Nat
BY MembershipAssumption

(* A node that takes the place of another keeps the number of voters.      *)
LEMMA SwapKeepsCount ==
    ASSUME NEW S, IsFiniteSet(S), NEW x \in S, NEW y, y \notin S
    PROVE  LET T == (S \ {x}) \union {y}
           IN  IsFiniteSet(T) /\ Cardinality(T) = Cardinality(S)
<1> DEFINE R == S \ {x}
<1>1. IsFiniteSet(R) /\ Cardinality(R) = Cardinality(S) - 1 BY FS_RemoveElement
<1>2. y \notin R OBVIOUS
<1>3. /\ IsFiniteSet(R \union {y}) /\ Cardinality(R \union {y}) = Cardinality(R) + 1
  BY <1>1, <1>2, FS_AddElement
<1>4. Cardinality(S) \in Nat BY FS_CardinalityType
<1> QED BY <1>1, <1>3, <1>4

(* The fields of a control state.                                          *)
LEMMA ControlStateIs ==
    ASSUME NEW s \in ControlStates
    PROVE  /\ s.topo \in Topology /\ s.op \in [Requests -> Lifecycle]
           /\ s.topo.auth \subseteq Nodes /\ s.topo.desired \subseteq Nodes /\ s.topo.rev \in Nat
           /\ s.slot \in Requests \union {NoRequest}
BY DEF ControlStates, Topology

(* The control state a bootstrap stores.                                   *)
LEMMA FoundingMatches == NoOperations \in ControlStates /\ Matches(NoOperations) /\ Founding \in Topology
<1>1. Founding \in Topology /\ Founding.auth = Members /\ Founding.desired = Members
  BY MembershipAssumption DEF Founding, Topology
<1>2. /\ NoOperations.topo = Founding /\ \A r \in Requests : NoOperations.op[r] = "none"
      /\ NoOperations \in ControlStates
  BY <1>1 DEF NoOperations, ControlStates, Lifecycle
<1>3. Leaving(NoOperations) = {} BY <1>2 DEF Leaving
<1> QED BY <1>1, <1>2, <1>3, MembershipAssumption DEF Matches

(* Nothing is pending while the slot is free.                              *)
LEMMA FreeSlot ==
    ASSUME NEW s \in ControlStates, Matches(s), \A r \in Requests : s.op[r] = "pending" => s.slot # r
    PROVE  Leaving(s) = {} /\ s.topo.auth = s.topo.desired
<1>1. \A r \in Requests : s.op[r] # "pending" BY DEF Matches
<1>2. Leaving(s) = {} BY <1>1 DEF Leaving
<1> QED BY <1>2 DEF Matches

(* The operation in the slot is the only one that can be pending.          *)
LEMMA OnePending ==
    ASSUME NEW s \in ControlStates, Matches(s), NEW r \in Requests, s.slot = r, s.op[r] = "pending"
    PROVE  Leaving(s) = IF Intent[r].kind = "replace" THEN {Intent[r].remove} ELSE {}
<1>1. \A q \in Requests : s.op[q] = "pending" <=> q = r BY DEF Matches
<1>2. {q \in Requests : s.op[q] = "pending" /\ Intent[q].kind = "replace"}
        = IF Intent[r].kind = "replace" THEN {r} ELSE {}
  BY <1>1
<1> QED BY <1>2 DEF Leaving

(* apply_begin_administration keeps the topology in step.                  *)
LEMMA BeginMatches ==
    ASSUME NEW s \in ControlStates, Matches(s), NEW r \in Requests, CanBegin(s, r)
    PROVE  LET t == BeginAdministration(s, r) IN t \in ControlStates /\ Matches(t)
<1> DEFINE t == BeginAdministration(s, r)  i == Intent[r]
<1>1. s.op[r] = "none" /\ s.slot = NoRequest BY DEF CanBegin
<1>2. \A q \in Requests : s.op[q] # "pending"
  BY <1>1, MembershipAssumption DEF Matches
<1>3. Leaving(s) = {} /\ s.topo.auth = s.topo.desired BY <1>2, FreeSlot
<1>4. /\ t.topo = IF i.kind = "replace" THEN Transition(s.topo, i) ELSE s.topo
      /\ t.op = [s.op EXCEPT ![r] = "pending"] /\ t.slot = r
      /\ t = [topo |-> t.topo, op |-> t.op, slot |-> t.slot]
  BY DEF BeginAdministration
<1>5. t.op \in [Requests -> Lifecycle] BY <1>4, ControlStateIs DEF Lifecycle
<1>6. \A q \in Requests : t.op[q] = "pending" <=> q = r BY <1>2, <1>4, ControlStateIs
<1>7. {q \in Requests : t.op[q] = "pending" /\ Intent[q].kind = "replace"}
        = IF i.kind = "replace" THEN {r} ELSE {}
  BY <1>6
<1>8. Leaving(t) = IF i.kind = "replace" THEN {i.remove} ELSE {} BY <1>7 DEF Leaving
<1>9. /\ s.topo \in Topology /\ s.topo.auth \subseteq Nodes /\ s.topo.desired \subseteq Nodes
      /\ s.topo.rev \in Nat
  BY ControlStateIs
<1>10. IsFiniteSet(s.topo.desired) /\ Cardinality(s.topo.desired) = Cardinality(Members)
  BY DEF Matches
<1> HIDE DEF t, i
<1>11. CASE i.kind = "replace"
  <2>1. /\ i.remove \in s.topo.desired /\ i.add # i.remove /\ i.add \notin s.topo.auth
    BY <1>11 DEF CanBegin, CanReplace, i
  <2>2. i.add \in Nodes /\ i.remove \in Nodes BY <1>11, IntentsAre DEF i
  <2>3. /\ t.topo.rev = s.topo.rev + 1 /\ t.topo.auth = s.topo.auth \union {i.add}
        /\ t.topo.desired = (s.topo.desired \ {i.remove}) \union {i.add}
        /\ t.topo \in Topology
    BY <1>4, <1>9, <1>11, <2>2 DEF Transition, Topology
  <2>4. IsFiniteSet(t.topo.desired) /\ Cardinality(t.topo.desired) = Cardinality(Members)
    BY <1>3, <1>10, <2>1, <2>3, SwapKeepsCount
  <2>5. t.topo.auth = t.topo.desired \union {i.remove} /\ i.remove \notin t.topo.desired
    BY <1>3, <2>1, <2>3
  <2>6. t \in ControlStates BY <1>4, <1>5, <2>3 DEF ControlStates
  <2>7. Leaving(t) = {i.remove} BY <1>8, <1>11
  <2>8. \A q \in Requests : t.op[q] = "pending" => t.slot = q BY <1>4, <1>6
  <2>9. Matches(t) BY <2>4, <2>5, <2>7, <2>8 DEF Matches
  <2> QED BY <2>6, <2>9 DEF t
<1>12. CASE i.kind # "replace"
  <2>1. t.topo = s.topo /\ Leaving(t) = {} BY <1>4, <1>8, <1>12
  <2>2. t \in ControlStates BY <1>4, <1>5, <1>9, <2>1 DEF ControlStates
  <2>3. \A q \in Requests : t.op[q] = "pending" => t.slot = q BY <1>4, <1>6
  <2>4. Matches(t) BY <1>3, <1>10, <2>1, <2>3 DEF Matches
  <2> QED BY <2>2, <2>4 DEF t
<1> QED BY <1>11, <1>12 DEF t

(* What both ends of an operation do to its record and the slot.           *)
LEMMA EndMatches ==
    ASSUME NEW s \in ControlStates, Matches(s), NEW r \in Requests, s.op[r] = "pending", s.slot = r,
           NEW t, t = [topo |-> t.topo, op |-> t.op, slot |-> t.slot],
           t.slot \in {r, NoRequest}, t.topo \in Topology,
           NEW e \in {"complete", "aborted"}, t.op = [s.op EXCEPT ![r] = e],
           t.topo.auth = t.topo.desired, IsFiniteSet(t.topo.desired),
           Cardinality(t.topo.desired) = Cardinality(Members)
    PROVE  t \in ControlStates /\ Matches(t)
<1>1. \A q \in Requests : s.op[q] = "pending" => q = r BY DEF Matches
<1>2. \A q \in Requests : t.op[q] # "pending" BY <1>1, ControlStateIs
<1>3. Leaving(t) = {} BY <1>2 DEF Leaving
<1>4. t.op \in [Requests -> Lifecycle] BY ControlStateIs DEF Lifecycle
<1> QED BY <1>2, <1>3, <1>4 DEF Matches, ControlStates

(* apply_complete_administration takes the outgoing node off the list.     *)
LEMMA CompleteMatches ==
    ASSUME NEW s \in ControlStates, Matches(s), NEW r \in Requests, CanEnd(s, r)
    PROVE  LET t == CompleteAdministration(s, r) IN t \in ControlStates /\ Matches(t)
<1> DEFINE t == CompleteAdministration(s, r)  i == Intent[r]
<1>1. s.op[r] = "pending" /\ s.slot = r BY DEF CanEnd
<1>2. Leaving(s) = IF i.kind = "replace" THEN {i.remove} ELSE {} BY <1>1, OnePending
<1>3. /\ t.topo = IF i.kind = "replace" THEN Completion(s.topo, i) ELSE s.topo
      /\ t.op = [s.op EXCEPT ![r] = "complete"] /\ t.slot = NoRequest
      /\ t = [topo |-> t.topo, op |-> t.op, slot |-> t.slot]
  BY DEF CompleteAdministration
<1>4. /\ s.topo \in Topology /\ s.topo.auth \subseteq Nodes /\ s.topo.desired \subseteq Nodes
      /\ s.topo.rev \in Nat
  BY ControlStateIs
<1>5. /\ s.topo.auth = s.topo.desired \union Leaving(s) /\ Leaving(s) \intersect s.topo.desired = {}
      /\ IsFiniteSet(s.topo.desired) /\ Cardinality(s.topo.desired) = Cardinality(Members)
  BY DEF Matches
<1> HIDE DEF t, i
<1>6. t.topo \in Topology /\ t.topo.desired = s.topo.desired /\ t.topo.auth = t.topo.desired
  <2>1. CASE i.kind = "replace"
    <3>1. t.topo = [rev |-> s.topo.rev + 1, auth |-> s.topo.auth \ {i.remove},
                    desired |-> s.topo.desired]
      BY <1>3, <2>1 DEF Completion
    <3>2. s.topo.auth \ {i.remove} = s.topo.desired BY <1>2, <1>5, <2>1
    <3> QED BY <1>4, <3>1, <3>2 DEF Topology
  <2>2. CASE i.kind # "replace" BY <1>2, <1>3, <1>4, <1>5, <2>2
  <2> QED BY <2>1, <2>2
<1>7. t \in ControlStates /\ Matches(t)
  <2>1. "complete" \in {"complete", "aborted"} OBVIOUS
  <2> QED BY <1>1, <1>3, <1>5, <1>6, <2>1, EndMatches
<1> QED BY <1>7 DEF t

(* apply_abort_administration brings the outgoing node back and takes the  *)
(* incoming one off the list.                                              *)
LEMMA AbortMatches ==
    ASSUME NEW s \in ControlStates, Matches(s), NEW r \in Requests, CanEnd(s, r)
    PROVE  LET t == AbortAdministration(s, r) IN t \in ControlStates /\ Matches(t)
<1> DEFINE t == AbortAdministration(s, r)  i == Intent[r]
<1>1. s.op[r] = "pending" /\ s.slot = r BY DEF CanEnd
<1>2. Leaving(s) = IF i.kind = "replace" THEN {i.remove} ELSE {} BY <1>1, OnePending
<1>3. /\ t.topo = IF i.kind = "replace" THEN Restoration(s.topo, i) ELSE s.topo
      /\ t.op = [s.op EXCEPT ![r] = "aborted"] /\ t.slot = r
      /\ t = [topo |-> t.topo, op |-> t.op, slot |-> t.slot]
  BY DEF AbortAdministration
<1>4. /\ s.topo \in Topology /\ s.topo.auth \subseteq Nodes /\ s.topo.desired \subseteq Nodes
      /\ s.topo.rev \in Nat
  BY ControlStateIs
<1>5. /\ s.topo.auth = s.topo.desired \union Leaving(s) /\ Leaving(s) \intersect s.topo.desired = {}
      /\ IsFiniteSet(s.topo.desired) /\ Cardinality(s.topo.desired) = Cardinality(Members)
  BY DEF Matches
<1>6. i.kind = "replace" => /\ i.remove \notin s.topo.desired /\ i.add \in s.topo.desired
                            /\ i.remove \in Nodes
  BY IntentsAre DEF CanEnd, IsTransitional
<1> HIDE DEF t, i
<1>7. /\ t.topo \in Topology /\ t.topo.auth = t.topo.desired
      /\ IsFiniteSet(t.topo.desired) /\ Cardinality(t.topo.desired) = Cardinality(Members)
  <2>1. CASE i.kind = "replace"
    <3> DEFINE new == (s.topo.desired \ {i.add}) \union {i.remove}
    <3>1. t.topo = [rev |-> s.topo.rev + 1, auth |-> s.topo.auth \ {i.add}, desired |-> new]
      BY <1>3, <2>1 DEF Restoration
    <3>2. s.topo.auth \ {i.add} = new BY <1>2, <1>5, <1>6, <2>1
    <3>3. IsFiniteSet(new) /\ Cardinality(new) = Cardinality(s.topo.desired)
      BY <1>5, <1>6, <2>1, SwapKeepsCount
    <3>4. new \subseteq Nodes BY <1>4, <1>6, <2>1
    <3> HIDE DEF new
    <3> QED BY <1>4, <1>5, <3>1, <3>2, <3>3, <3>4 DEF Topology
  <2>2. CASE i.kind # "replace" BY <1>2, <1>3, <1>4, <1>5, <2>2
  <2> QED BY <2>1, <2>2
<1>8. t \in ControlStates /\ Matches(t)
  <2>1. "aborted" \in {"complete", "aborted"} OBVIOUS
  <2> QED BY <1>1, <1>3, <1>7, <2>1, EndMatches
<1> QED BY <1>8 DEF t

(* apply_finish_administration_abort frees the slot when nothing is        *)
(* pending.                                                                *)
LEMMA FinishMatches ==
    ASSUME NEW s \in ControlStates, Matches(s), NEW r \in Requests, CanFinishAbort(s, r)
    PROVE  LET t == FinishAdministrationAbort(s, r) IN t \in ControlStates /\ Matches(t)
<1> DEFINE t == FinishAdministrationAbort(s, r)
<1>1. s.op[r] = "aborted" /\ s.slot = r BY DEF CanFinishAbort
<1>2. \A q \in Requests : s.op[q] # "pending" BY <1>1 DEF Matches
<1>3. t.topo = s.topo /\ t.op = s.op /\ t.slot = NoRequest /\ t \in ControlStates
  BY DEF FinishAdministrationAbort, ControlStates
<1>4. Leaving(t) = Leaving(s) BY <1>3 DEF Leaving
<1> HIDE DEF t
<1>5. Matches(t) BY <1>2, <1>3, <1>4 DEF Matches
<1> QED BY <1>3, <1>5 DEF t

-----------------------------------------------------------------------------
(* The inductive invariant.                                                *)

HistorySound(c) == c \in Seq(ControlStates) /\ \A i \in DOMAIN c : Matches(c[i])

(* A replica has applied a prefix of the history.                          *)
AppliedSound(a, c) == a \in [Nodes -> Nat] /\ \A n \in Nodes : a[n] <= Len(c)

Confs == [sets : SUBSET (SUBSET Nodes), learners : SUBSET Nodes, booted : BOOLEAN]

(* The control group has a control state once it is bootstrapped, so the   *)
(* seed never stores the founding topology over another one.               *)
ControlGroupSound(f, c) ==
    /\ f = [g \in Groups |-> f[g]] /\ f[Control] \in Seq(Confs)
    /\ c # <<>> => f[Control] # <<>> /\ Last(f[Control]).booted

(* A node is active only in a cluster that has a control state.            *)
ManifestsSound(m, d, c) ==
    /\ m \in [Nodes -> Manifests] /\ d \in [Nodes -> Manifests]
    /\ \A n \in Nodes : m[n].state = "active" \/ d[n].state = "active" => c # <<>>

Passes ==
    [step : {"groups", "retire", "activate", "complete", "finish", "transfer"}, req : Requests,
     aborted : BOOLEAN, topo : Topology, todo : SUBSET Groups]

(* A pass of the reconciler acts on an operation it has read.              *)
PassSound(p, c) ==
    p # NoPass => /\ p \in Passes /\ c # <<>>
                  /\ p.step = "groups" /\ ~p.aborted => Intent[p.req].kind = "replace"

PassesSound(p, c) == p = [n \in Nodes |-> p[n]] /\ \A n \in Nodes : PassSound(p[n], c)

AbortSound(a, c) == a # NoAbort => a.req \in Requests /\ c # <<>>

FormSound(f, g, c) ==
    /\ f = "groups" => g[Control] # <<>>
    /\ f \in {"activate", "done"} => c # <<>>

AdminInv ==
    /\ HistorySound(ctl) /\ AppliedSound(applied, ctl)
    /\ ControlGroupSound(conf, ctl) /\ ManifestsSound(mem, disk, ctl)
    /\ PassesSound(pass, ctl) /\ AbortSound(abort, ctl) /\ FormSound(form, conf, ctl)

(* The last control state is sound, and so is the one a node has applied.  *)
LEMMA HistoryIs ==
    ASSUME HistorySound(ctl)
    PROVE  /\ Len(ctl) \in Nat /\ DOMAIN ctl = 1 .. Len(ctl)
           /\ \A i \in 1 .. Len(ctl) : ctl[i] \in ControlStates /\ Matches(ctl[i])
           /\ ctl # <<>> => Len(ctl) > 0 /\ Last(ctl) \in ControlStates /\ Matches(Last(ctl))
           /\ Len(ctl) > 0 => ctl # <<>>
BY DEF HistorySound, Last

(* What a node has applied comes from the control group.                   *)
LEMMA LocalIs ==
    ASSUME HistorySound(ctl), AppliedSound(applied, ctl), NEW n \in Nodes, applied[n] > 0
    PROVE  /\ ctl # <<>> /\ ctl[applied[n]] \in ControlStates /\ LocalTopo(n) \in Topology
           /\ Slot(n) \in Requests \union {NoRequest}
<1>1. applied[n] \in 1 .. Len(ctl) /\ Len(ctl) \in Nat BY HistoryIs DEF AppliedSound
<1>2. ctl # <<>> BY <1>1, HistoryIs
<1>3. ctl[applied[n]] \in ControlStates BY <1>1, HistoryIs
<1> QED BY <1>2, <1>3, ControlStateIs DEF LocalTopo, Slot

(* The fields of a manifest.                                               *)
LEMMA ManifestIs ==
    ASSUME NEW m, NEW d, NEW c, ManifestsSound(m, d, c), NEW n \in Nodes
    PROVE  /\ m[n] \in Manifests /\ d[n] \in Manifests /\ m[n].state \in States /\ m[n].topo \in Topology
           /\ \A t \in Topology : [m[n] EXCEPT !.topo = t] \in Manifests
           /\ \A t \in Topology : [m[n] EXCEPT !.topo = t].state = m[n].state
           /\ \A t \in Topology : [d[n] EXCEPT !.topo = t] \in Manifests
           /\ \A t \in Topology : [d[n] EXCEPT !.topo = t].state = d[n].state
           /\ \A st \in States : /\ [m[n] EXCEPT !.state = st] \in Manifests
                                 /\ [m[n] EXCEPT !.state = st].state = st
BY DEF ManifestsSound, Manifests

(* write_manifest keeps the manifests sound.                               *)
LEMMA PersistKeeps ==
    ASSUME ManifestsSound(mem, disk, ctl), NEW n, NEW m \in Manifests, Persist(n, m),
           m.state = "active" => ctl # <<>>
    PROVE  ManifestsSound(mem', disk', ctl)
<1>1. mem' \in [Nodes -> Manifests] /\ disk' \in [Nodes -> Manifests]
  BY DEF Persist, ManifestsSound
<1>2. \A k \in Nodes : (mem'[k] = mem[k] \/ mem'[k] = m) /\ (disk'[k] = disk[k] \/ disk'[k] = m)
  BY DEF Persist, ManifestsSound
<1> QED BY <1>1, <1>2 DEF ManifestsSound

(* A control command that leaves the topology in step is taken by the      *)
(* history, and by the nodes that learn it at once.                        *)
LEMMA CommitKeeps ==
    ASSUME HistorySound(ctl), AppliedSound(applied, ctl), ManifestsSound(mem, disk, ctl),
           ctl # <<>>, NEW n, NEW s \in ControlStates, Matches(s), Commit(n, s)
    PROVE  /\ HistorySound(ctl') /\ AppliedSound(applied', ctl') /\ ManifestsSound(mem', disk', ctl')
           /\ ctl' # <<>>
<1> DEFINE prompt == {m \in Prompt(n, Last(conf[Control])) : applied[m] = Len(ctl)}
           Follow(f) == [m \in Nodes |-> IF m \in prompt THEN [f[m] EXCEPT !.topo = s.topo] ELSE f[m]]
<1>1. /\ ctl' = Append(ctl, s)
      /\ applied' = [m \in Nodes |-> IF m \in prompt THEN Len(ctl) + 1 ELSE applied[m]]
      /\ mem' = Follow(mem) /\ disk' = Follow(disk)
  BY DEF Commit
<1>2. ctl \in Seq(ControlStates) /\ Len(ctl) \in Nat BY DEF HistorySound
<1>3. /\ ctl' \in Seq(ControlStates) /\ Len(ctl') = Len(ctl) + 1 /\ ctl' # <<>>
      /\ DOMAIN ctl' = 1 .. Len(ctl) + 1
      /\ \A i \in 1 .. Len(ctl) : ctl'[i] = ctl[i]
      /\ ctl'[Len(ctl) + 1] = s
  BY <1>1, <1>2
<1>4. \A i \in 1 .. Len(ctl) + 1 : Matches(ctl'[i])
  <2>1. \A i \in 1 .. Len(ctl) : Matches(ctl[i]) BY HistoryIs
  <2>2. \A i \in 1 .. Len(ctl) + 1 : i \in 1 .. Len(ctl) \/ i = Len(ctl) + 1 BY <1>2
  <2> QED BY <1>3, <2>1, <2>2
<1>5. AppliedSound(applied', ctl') BY <1>1, <1>2, <1>3 DEF AppliedSound
<1>6. s.topo \in Topology BY ControlStateIs
<1>7. \A m \in Nodes : mem'[m] \in Manifests /\ disk'[m] \in Manifests
  BY <1>1, <1>6, ManifestIs
<1>8. ManifestsSound(mem', disk', ctl') BY <1>1, <1>3, <1>7 DEF ManifestsSound
<1> QED BY <1>3, <1>4, <1>5, <1>8 DEF HistorySound

(* The facts of the invariant that a longer history keeps.                 *)
LEMMA LongerKeeps ==
    ASSUME AdminInv, ctl # <<>> => ctl' # <<>>
    PROVE  /\ PassesSound(pass, ctl') /\ AbortSound(abort, ctl')
           /\ FormSound(form, conf, ctl') /\ ManifestsSound(mem, disk, ctl')
BY DEF AdminInv, PassesSound, PassSound, AbortSound, FormSound, ManifestsSound

(* Steps that commit a control command.                                    *)
LEMMA CommandKeeps ==
    ASSUME AdminInv, ctl # <<>>, NEW n, NEW s \in ControlStates, Matches(s), Commit(n, s),
           UNCHANGED <<conf, form>>, PassesSound(pass', ctl), AbortSound(abort', ctl)
    PROVE  AdminInv'
<1>1. /\ HistorySound(ctl') /\ AppliedSound(applied', ctl') /\ ManifestsSound(mem', disk', ctl')
      /\ ctl' # <<>>
  BY CommitKeeps DEF AdminInv
<1>2. ControlGroupSound(conf, ctl') BY <1>1 DEF AdminInv, ControlGroupSound
<1>3. FormSound(form, conf, ctl') BY <1>1, LongerKeeps
<1>4. PassesSound(pass', ctl') BY <1>1 DEF PassesSound, PassSound
<1>5. AbortSound(abort', ctl') BY <1>1 DEF AbortSound
<1> QED BY <1>1, <1>2, <1>3, <1>4, <1>5 DEF AdminInv

(* An entry of a group's membership, in the control group or another.      *)
LEMMA ConfKeeps ==
    ASSUME AdminInv, NEW n, NEW g \in Groups, NEW c, AppendConf(n, g, c),
           g = Control => /\ conf[Control] # <<>> /\ c \in Confs
                          /\ Last(conf[Control]).booted => c.booted
    PROVE  /\ ControlGroupSound(conf', ctl)
           /\ conf'[Control] # <<>> \/ conf'[Control] = conf[Control]
<1>1. /\ conf = [h \in Groups |-> conf[h]] /\ conf[Control] \in Seq(Confs)
      /\ ctl # <<>> => conf[Control] # <<>> /\ Last(conf[Control]).booted
  BY DEF AdminInv, ControlGroupSound
<1>2. conf' = [conf EXCEPT ![g] = Append(conf[g], c)] BY DEF AppendConf
<1>3. Control \in Groups BY DEF Groups
<1>4. CASE g # Control
  <2>1. conf'[Control] = conf[Control] /\ conf' = [h \in Groups |-> conf'[h]]
    BY <1>1, <1>2, <1>3, <1>4
  <2> QED BY <1>1, <2>1 DEF ControlGroupSound
<1>5. CASE g = Control
  <2>1. conf'[Control] = Append(conf[Control], c) BY <1>1, <1>2, <1>3, <1>5
  <2>2. /\ conf'[Control] \in Seq(Confs) /\ conf'[Control] # <<>> /\ Last(conf'[Control]) = c
    BY <1>1, <1>5, <2>1 DEF Last
  <2>3. conf' = [h \in Groups |-> conf'[h]] BY <1>1, <1>2
  <2> QED BY <1>1, <1>5, <2>2, <2>3 DEF ControlGroupSound
<1> QED BY <1>4, <1>5

(* The control group's latest membership.                                  *)
LEMMA LastConfIs ==
    ASSUME AdminInv, conf[Control] # <<>>
    PROVE  Last(conf[Control]) \in Confs
BY DEF AdminInv, ControlGroupSound, Last

(* A step that appends to a group's membership and changes nothing else    *)
(* the invariant is about but the passes.                                  *)
LEMMA MembershipKeeps ==
    ASSUME AdminInv, NEW n, NEW g \in Groups, NEW c, AppendConf(n, g, c),
           UNCHANGED <<ctl, applied, mem, disk, form, abort>>, PassesSound(pass', ctl),
           g = Control => /\ conf[Control] # <<>> /\ c \in Confs
                          /\ Last(conf[Control]).booted => c.booted
    PROVE  AdminInv'
<1>1. /\ ControlGroupSound(conf', ctl)
      /\ conf'[Control] # <<>> \/ conf'[Control] = conf[Control]
  BY ConfKeeps
<1> QED BY <1>1 DEF AdminInv, FormSound

(* A step that changes manifests, the formation, the passes and the abort  *)
(* request, each in a sound way, and leaves both histories alone.          *)
LEMMA NodesKeep ==
    ASSUME AdminInv, UNCHANGED <<ctl, conf>>, AppliedSound(applied', ctl),
           ManifestsSound(mem', disk', ctl), PassesSound(pass', ctl), AbortSound(abort', ctl),
           FormSound(form', conf, ctl)
    PROVE  AdminInv'
BY DEF AdminInv

(* Some of the parts, for the steps that leave them alone.                 *)
LEMMA PartsAre ==
    ASSUME AdminInv
    PROVE  /\ HistorySound(ctl) /\ AppliedSound(applied, ctl) /\ ControlGroupSound(conf, ctl)
           /\ ManifestsSound(mem, disk, ctl) /\ PassesSound(pass, ctl) /\ AbortSound(abort, ctl)
           /\ FormSound(form, conf, ctl)
BY DEF AdminInv

(* A leader knows the whole history.                                       *)
LEMMA LeadKeeps ==
    ASSUME AdminInv, NEW g, NEW n, Lead(g, n) PROVE AppliedSound(applied', ctl)
<1>1. Len(ctl) \in Nat BY PartsAre, HistoryIs
<1>2. \A m \in Nodes : applied'[m] = applied[m] \/ applied'[m] = Len(ctl)
  BY PartsAre DEF Lead, AppliedSound
<1>3. applied' = [m \in Nodes |-> applied'[m]] BY PartsAre DEF Lead, AppliedSound
<1> QED BY <1>1, <1>2, <1>3, PartsAre DEF AppliedSound

(* prove_active finds a control state.                                     *)
LEMMA ProvedIsThere ==
    ASSUME AdminInv, NEW n \in Nodes, NEW topo, ProveActive(n, topo)
    PROVE  ctl # <<>> /\ topo \in Topology
BY PartsAre, LocalIs DEF ProveActive

(* The steps of bootstrap_three_voter and form_cluster that write a        *)
(* manifest or move on.                                                    *)
LEMMA FormationKeeps ==
    ASSUME AdminInv,
           \/ Bootstrap \/ AlreadyFormed \/ Prepared \/ Elected \/ FormCluster \/ EndBootstrap
           \/ \E n \in Members : PrepareJoin(n) \/ Activate(n)
    PROVE  AdminInv'
<1>1. Seed \in Nodes /\ Members \subseteq Nodes /\ Control \in Groups
  BY MembershipAssumption DEF Groups
<1>2. Founding \in Topology BY FoundingMatches
<1>3. ASSUME NEW st \in States PROVE [state |-> st, topo |-> Founding] \in Manifests
  BY <1>2 DEF Manifests
<1>4. CASE Bootstrap
  <2>1. ManifestsSound(mem', disk', ctl)
    <3>1. CASE mem[Seed].state = "none"
      <4>1. Persist(Seed, [state |-> "forming", topo |-> Founding]) BY <1>4, <3>1 DEF Bootstrap
      <4>2. [state |-> "forming", topo |-> Founding] \in Manifests BY <1>3 DEF States
      <4> QED BY <4>1, <4>2, PartsAre, PersistKeeps
    <3>2. CASE mem[Seed].state # "none" BY <1>4, <3>2, PartsAre DEF Bootstrap
    <3> QED BY <3>1, <3>2
  <2>2. FormSound(form', conf, ctl)
    BY <1>1, <1>4, PartsAre DEF Bootstrap, FormSound, ManifestsSound
  <2> QED BY <1>4, <2>1, <2>2, PartsAre, NodesKeep DEF Bootstrap, raftVars
<1>5. CASE AlreadyFormed \/ FormCluster
  <2>1. ctl # <<>> BY <1>1, <1>5, ProvedIsThere DEF AlreadyFormed, FormCluster
  <2>2. [mem[Seed] EXCEPT !.state = "active"] \in Manifests BY <1>1, PartsAre, ManifestIs DEF States
  <2>3. ManifestsSound(mem', disk', ctl)
    BY <1>5, <2>1, <2>2, PartsAre, PersistKeeps DEF AlreadyFormed, FormCluster
  <2>4. FormSound(form', conf, ctl) BY <1>5, <2>1 DEF AlreadyFormed, FormCluster, FormSound
  <2> QED BY <1>5, <2>3, <2>4, PartsAre, NodesKeep DEF AlreadyFormed, FormCluster, raftVars
<1>6. CASE Prepared \/ Elected \/ EndBootstrap
  <2>1. FormSound(form', conf, ctl)
    BY <1>1, <1>6, PartsAre DEF Prepared, Elected, EndBootstrap, FormSound, Initialized
  <2> QED BY <1>6, <2>1, PartsAre, NodesKeep DEF Prepared, Elected, EndBootstrap, raftVars, nodeVars
<1>7. ASSUME NEW n \in Members, PrepareJoin(n) PROVE AdminInv'
  <2>1. [state |-> "joining", topo |-> Founding] \in Manifests BY <1>3 DEF States
  <2>2. ManifestsSound(mem', disk', ctl) BY <1>7, <2>1, PartsAre, PersistKeeps DEF PrepareJoin
  <2> QED BY <1>7, <2>2, PartsAre, NodesKeep DEF PrepareJoin, raftVars, taskVars
<1>8. ASSUME NEW n \in Members, Activate(n) PROVE AdminInv'
  <2>1. n \in Nodes BY <1>1
  <2>2. ctl # <<>> BY <1>8, <2>1, ProvedIsThere DEF Activate
  <2>3. [mem[n] EXCEPT !.state = "active"] \in Manifests BY <2>1, PartsAre, ManifestIs DEF States
  <2>4. ManifestsSound(mem', disk', ctl) BY <1>8, <2>2, <2>3, PartsAre, PersistKeeps DEF Activate
  <2> QED BY <1>8, <2>4, PartsAre, NodesKeep DEF Activate, raftVars, taskVars
<1> QED BY <1>4, <1>5, <1>6, <1>7, <1>8

(* The seed initializes a group that has no membership yet; the control    *)
(* group then has no control state either.                                 *)
LEMMA InitializeKeeps ==
    ASSUME AdminInv, NEW g \in Groups, Initialize(g) PROVE AdminInv'
<1>1. Seed \in Nodes /\ Control \in Groups BY MembershipAssumption DEF Groups
<1> DEFINE c == [sets |-> {{Seed}}, learners |-> {}, booted |-> FALSE]
<1>2. c \in Confs BY <1>1 DEF Confs
<1>3. conf[g] = <<>> /\ conf' = [conf EXCEPT ![g] = <<c>>]
  BY DEF Initialize, IsFirst, Initialized
<1>4. UNCHANGED <<ctl, applied, mem, disk, form, pass, abort>>
  BY DEF Initialize, nodeVars, taskVars
<1> HIDE DEF c
<1>5. conf = [h \in Groups |-> conf[h]] /\ conf[Control] \in Seq(Confs)
  BY PartsAre DEF ControlGroupSound
<1>6. /\ conf' = [h \in Groups |-> conf'[h]] /\ conf'[Control] \in Seq(Confs)
      /\ conf'[Control] # <<>> \/ conf'[Control] = conf[Control]
      /\ g # Control => conf'[Control] = conf[Control]
  BY <1>1, <1>2, <1>3, <1>5
<1>7. ControlGroupSound(conf', ctl) BY <1>3, <1>6, PartsAre DEF ControlGroupSound
<1>8. FormSound(form, conf', ctl) BY <1>6, PartsAre DEF FormSound
<1> QED BY <1>4, <1>7, <1>8, PartsAre DEF AdminInv

(* ensure_bootstrap_command stores the founding topology in a control      *)
(* group that has none.                                                    *)
LEMMA BootstrapGroupKeeps ==
    ASSUME AdminInv, NEW g \in Groups, BootstrapGroup(g) PROVE AdminInv'
<1>1. /\ form = "groups" /\ ~Last(conf[g]).booted
      /\ AppendConf(Seed, g, [Last(conf[g]) EXCEPT !.booted = TRUE])
      /\ UNCHANGED <<mem, disk, form, pass, abort>>
  BY DEF BootstrapGroup, IsFirst, nodeVars, taskVars
<1>2. conf[Control] # <<>> BY <1>1, PartsAre DEF FormSound
<1>3. Last(conf[Control]) \in Confs BY <1>2, LastConfIs
<1> DEFINE c == [Last(conf[g]) EXCEPT !.booted = TRUE]
<1>4. g = Control => c \in Confs /\ c.booted BY <1>3 DEF Confs
<1> HIDE DEF c
<1>5. CASE g # Control
  BY <1>1, <1>5, PartsAre, MembershipKeeps DEF BootstrapGroup
<1>6. CASE g = Control
  <2>1. ctl = <<>> BY <1>1, <1>6, PartsAre DEF ControlGroupSound
  <2>2. ctl' = <<NoOperations>> /\ applied' = [applied EXCEPT ![Seed] = 1]
    BY <1>6 DEF BootstrapGroup
  <2>3. HistorySound(ctl')
    <3>1. NoOperations \in ControlStates /\ Matches(NoOperations) BY FoundingMatches
    <3>2. ctl' \in Seq(ControlStates) /\ DOMAIN ctl' = {1} /\ ctl'[1] = NoOperations
      BY <2>2, <3>1
    <3> QED BY <3>1, <3>2 DEF HistorySound
  <2>4. AppliedSound(applied', ctl')
    <3>1. Len(ctl) = 0 /\ Len(ctl') = 1 BY <2>1, <2>2
    <3>2. applied \in [Nodes -> Nat] BY PartsAre DEF AppliedSound
    <3>3. \A n \in Nodes : applied[n] = 0 BY <3>1, <3>2, PartsAre DEF AppliedSound
    <3>4. applied' \in [Nodes -> Nat] /\ \A n \in Nodes : applied'[n] \in {0, 1}
      BY <2>2, <3>2, <3>3
    <3> QED BY <3>1, <3>4 DEF AppliedSound
  <2>5. ctl' # <<>> BY <2>2
  <2>6. conf' = [h \in Groups |-> conf'[h]] /\ conf'[Control] = Append(conf[Control], c)
    BY <1>1, <1>6, PartsAre DEF ControlGroupSound, AppendConf, c
  <2>7. /\ conf'[Control] \in Seq(Confs) /\ conf'[Control] # <<>> /\ Last(conf'[Control]) = c
    BY <1>4, <1>6, <2>6, PartsAre DEF ControlGroupSound, Last
  <2>8. ControlGroupSound(conf', ctl') BY <1>4, <1>6, <2>6, <2>7 DEF ControlGroupSound
  <2>9. FormSound(form, conf', ctl') BY <2>5, <2>7 DEF FormSound
  <2>10. PassesSound(pass, ctl') /\ AbortSound(abort, ctl') /\ ManifestsSound(mem, disk, ctl')
    BY <2>5, LongerKeeps
  <2> QED BY <1>1, <2>3, <2>4, <2>8, <2>9, <2>10 DEF AdminInv
<1> QED BY <1>5, <1>6

(* change_membership keeps the form of a membership, and the bootstrap     *)
(* record.                                                                 *)
LEMMA ChangeIs ==
    ASSUME NEW c \in Confs, NEW voters \in SUBSET Nodes
    PROVE  Change(c, voters) \in Confs /\ Change(c, voters).booted = c.booted
<1>1. c.sets \union {voters} \in SUBSET (SUBSET Nodes) /\ {voters} \in SUBSET (SUBSET Nodes)
      /\ c.learners \ voters \in SUBSET Nodes /\ {} \in SUBSET Nodes
  BY DEF Confs
<1> DEFINE both == c.sets \union {voters}  left == c.learners \ voters  one == {voters}
<1>2. Change(c, voters) = IF voters \in c.sets THEN [c EXCEPT !.sets = one, !.learners = {}]
                          ELSE [c EXCEPT !.sets = both, !.learners = left]
  BY DEF Change
<1>3. /\ one \in SUBSET (SUBSET Nodes) /\ both \in SUBSET (SUBSET Nodes)
      /\ left \in SUBSET Nodes /\ {} \in SUBSET Nodes
  BY <1>1
<1> HIDE DEF both, left, one
<1>4. /\ [c EXCEPT !.sets = one, !.learners = {}] \in Confs
      /\ [c EXCEPT !.sets = one, !.learners = {}].booted = c.booted
  BY <1>3 DEF Confs
<1>5. /\ [c EXCEPT !.sets = both, !.learners = left] \in Confs
      /\ [c EXCEPT !.sets = both, !.learners = left].booted = c.booted
  BY <1>3 DEF Confs
<1> QED BY <1>2, <1>4, <1>5

(* add_learners and converge_membership.                                   *)
LEMMA GrowKeeps ==
    ASSUME AdminInv, NEW g \in Groups, (\E n \in Members : AddMember(g, n)) \/ Converge(g)
    PROVE  AdminInv'
<1>1. Members \subseteq Nodes BY MembershipAssumption
<1>2. form = "groups" BY DEF AddMember, Converge
<1>3. Last(conf[Control]) \in Confs /\ conf[Control] # <<>>
  BY <1>2, PartsAre, LastConfIs DEF FormSound
<1>4. ASSUME NEW n \in Members, AddMember(g, n) PROVE AdminInv'
  <2>1. g = Control => /\ AddLearner(Last(conf[g]), n) \in Confs
                       /\ AddLearner(Last(conf[g]), n).booted = Last(conf[Control]).booted
    BY <1>1, <1>3 DEF AddLearner, Confs
  <2> QED BY <1>3, <1>4, <2>1, PartsAre, MembershipKeeps DEF AddMember, nodeVars, taskVars
<1>5. CASE Converge(g)
  <2>1. g = Control => /\ Change(Last(conf[g]), Members) \in Confs
                       /\ Change(Last(conf[g]), Members).booted = Last(conf[Control]).booted
    BY <1>1, <1>3, ChangeIs
  <2> QED BY <1>3, <1>5, <2>1, PartsAre, MembershipKeeps DEF Converge, nodeVars, taskVars
<1> QED BY <1>4, <1>5

(* Openraft elects, and replicates what is committed.                      *)
LEMMA RaftKeeps ==
    ASSUME AdminInv, Raft \/ \E g \in Groups : ElectSeed(g) PROVE AdminInv'
<1>1. ASSUME NEW g \in Groups, NEW n, Elect(g, n) \/ ElectSeed(g) PROVE AdminInv'
  <2>1. AppliedSound(applied', ctl) BY <1>1, LeadKeeps DEF Elect, ElectSeed
  <2> QED BY <1>1, <2>1, PartsAre, NodesKeep DEF Elect, ElectSeed, nodeVars, taskVars
<1>2. ASSUME NEW g \in Groups, NEW n, Learn(n, g) PROVE AdminInv'
  BY <1>2, PartsAre, NodesKeep DEF Learn, nodeVars, taskVars
<1>3. ASSUME NEW n \in Nodes, LearnControl(n) PROVE AdminInv'
  <2>1. AppliedSound(applied', ctl)
    <3>1. Len(ctl) \in Nat /\ applied[n] \in Nat /\ applied[n] < Len(ctl)
      BY <1>3, PartsAre, HistoryIs DEF LearnControl, AppliedSound
    <3>2. applied' = [applied EXCEPT ![n] = applied[n] + 1] BY <1>3 DEF LearnControl
    <3>3. applied[n] + 1 \in Nat /\ applied[n] + 1 <= Len(ctl) BY <3>1
    <3> QED BY <3>2, <3>3, PartsAre DEF AppliedSound
  <2> QED BY <1>3, <2>1, PartsAre, NodesKeep DEF LearnControl, raftVars, nodeVars, taskVars
<1> QED BY <1>1, <1>2, <1>3 DEF Raft

(* The passes after one of them changed.                                   *)
LEMMA PassKeeps ==
    ASSUME AdminInv, NEW n, NEW p, PassSound(p, ctl), pass' = [pass EXCEPT ![n] = p]
    PROVE  PassesSound(pass', ctl)
<1>1. pass = [k \in Nodes |-> pass[k]] /\ \A k \in Nodes : PassSound(pass[k], ctl)
  BY PartsAre DEF PassesSound
<1>2. /\ pass' = [k \in Nodes |-> pass'[k]]
      /\ \A k \in Nodes : pass'[k] = pass[k] \/ pass'[k] = p
  BY <1>1
<1> QED BY <1>1, <1>2 DEF PassesSound

(* A pass that has ended.                                                  *)
LEMMA EndPassKeeps ==
    ASSUME AdminInv, NEW n, EndPass(n) PROVE PassesSound(pass', ctl)
<1>1. PassSound(NoPass, ctl) BY DEF PassSound
<1> QED BY <1>1, PassKeeps DEF EndPass

(* A pass with a step in progress is one the invariant speaks of.          *)
LEMMA PassIs ==
    ASSUME AdminInv, NEW n \in Nodes, pass[n].step # "none"
    PROVE  /\ pass[n] \in Passes /\ ctl # <<>> /\ pass[n].req \in Requests
           /\ pass[n].topo \in Topology /\ pass[n].topo.desired \subseteq Nodes
           /\ pass[n].topo.rev \in Nat /\ pass[n].topo.auth \subseteq Nodes
           /\ pass[n].aborted \in BOOLEAN
           /\ pass[n].step = "groups" /\ ~pass[n].aborted => Intent[pass[n].req].kind = "replace"
<1>1. pass[n] # NoPass BY DEF NoPass
<1>2. PassSound(pass[n], ctl) BY PartsAre DEF PassesSound
<1>3. /\ pass[n] \in Passes /\ ctl # <<>>
      /\ pass[n].step = "groups" /\ ~pass[n].aborted => Intent[pass[n].req].kind = "replace"
  BY <1>1, <1>2 DEF PassSound
<1>4. /\ pass[n].req \in Requests /\ pass[n].topo \in Topology /\ pass[n].aborted \in BOOLEAN
  BY <1>3 DEF Passes
<1> QED BY <1>3, <1>4 DEF Topology

(* A pass that goes on to another step.                                    *)
LEMMA GotoKeeps ==
    ASSUME AdminInv, NEW n \in Nodes, pass[n].step # "none",
           NEW step \in {"retire", "activate", "complete", "finish", "transfer"}, Goto(n, step)
    PROVE  PassesSound(pass', ctl)
<1> DEFINE p == [pass[n] EXCEPT !.step = step]
<1>1. pass[n] \in Passes /\ ctl # <<>> BY PassIs
<1>2. p \in Passes /\ p.step = step BY <1>1 DEF Passes
<1>3. PassSound(p, ctl) BY <1>1, <1>2 DEF PassSound
<1>4. pass' = [pass EXCEPT ![n] = p] BY DEF Goto
<1> HIDE DEF p
<1> QED BY <1>3, <1>4, PassKeeps

(* A group that is done, or left in a joint configuration.                 *)
LEMMA DoneKeeps ==
    ASSUME AdminInv, NEW n \in Nodes, pass[n].step # "none", NEW done \in SUBSET Groups,
           pass' = [pass EXCEPT ![n].todo = done]
    PROVE  PassesSound(pass', ctl)
<1> DEFINE p == [pass[n] EXCEPT !.todo = done]
<1>1. PassSound(pass[n], ctl) /\ pass[n] \in Passes /\ ctl # <<>> BY PassIs, PartsAre DEF PassesSound
<1>2. /\ p \in Passes /\ p.step = pass[n].step /\ p.aborted = pass[n].aborted
      /\ p.req = pass[n].req
  BY <1>1 DEF Passes
<1>3. pass[n] # NoPass BY DEF NoPass
<1>4. PassSound(p, ctl) BY <1>1, <1>2, <1>3 DEF PassSound
<1>5. pass' = [pass EXCEPT ![n] = p] OBVIOUS
<1> HIDE DEF p
<1> QED BY <1>4, <1>5, PassKeeps

(* reconcile_administration reads an operation and prepares the incoming   *)
(* node.                                                                   *)
LEMMA StartPassKeeps ==
    ASSUME AdminInv, NEW n \in Nodes, StartPass(n) PROVE AdminInv'
<1> DEFINE i == Intent[Slot(n)]
           Begun(step) == [step |-> step, req |-> Slot(n), aborted |-> ~IsPending(n),
                           topo |-> LocalTopo(n), todo |-> Groups]
<1>1. applied[n] > 0 /\ Slot(n) # NoRequest BY DEF StartPass
<1>2. ctl # <<>> /\ LocalTopo(n) \in Topology /\ Slot(n) \in Requests
  BY <1>1, PartsAre, LocalIs
<1>3. IsPending(n) \in BOOLEAN BY DEF IsPending
<1>4. /\ Begun("groups") \in Passes /\ Begun("transfer") \in Passes
      /\ Begun("groups").step = "groups" /\ Begun("transfer").step = "transfer"
      /\ Begun("groups").aborted = ~IsPending(n) /\ Begun("groups").req = Slot(n)
  BY <1>2, <1>3 DEF Passes
<1>5. UNCHANGED <<ctl, conf, applied, form, abort>> BY DEF StartPass, raftVars
<1>6. CASE i.kind = "replace" /\ IsPending(n)
  <2>1. /\ PrepareReplacement(i.add, LocalTopo(n))
        /\ pass' = [pass EXCEPT ![n] = Begun("groups")]
    BY <1>6 DEF StartPass
  <2>2. i.add \in Nodes BY <1>2, <1>6, IntentsAre
  <2> DEFINE m == [state |-> IF mem[i.add].state = "none" THEN "joining" ELSE mem[i.add].state,
                   topo |-> LocalTopo(n)]
  <2>3. m \in Manifests BY <1>2, <2>2, PartsAre, ManifestIs DEF Manifests, States
  <2>4. Persist(i.add, m) BY <2>1 DEF PrepareReplacement
  <2> HIDE DEF m
  <2>5. ManifestsSound(mem', disk', ctl) BY <1>2, <2>3, <2>4, PartsAre, PersistKeeps
  <2>6. PassSound(Begun("groups"), ctl) BY <1>2, <1>4, <1>6 DEF PassSound
  <2>7. PassesSound(pass', ctl) BY <2>1, <2>6, PassKeeps
  <2> QED BY <1>5, <2>5, <2>7, PartsAre, NodesKeep
<1>7. CASE ~(i.kind = "replace" /\ IsPending(n))
  <2>1. /\ pass' = [pass EXCEPT ![n] = Begun(IF IsPending(n) THEN "transfer" ELSE "groups")]
        /\ UNCHANGED <<mem, disk>>
    BY <1>7 DEF StartPass
  <2>2. CASE IsPending(n)
    <3>1. PassSound(Begun("transfer"), ctl) BY <1>2, <1>4 DEF PassSound
    <3>2. PassesSound(pass', ctl) BY <2>1, <2>2, <3>1, PassKeeps
    <3> QED BY <1>5, <2>1, <3>2, PartsAre, NodesKeep
  <2>3. CASE ~IsPending(n)
    <3>1. PassSound(Begun("groups"), ctl) BY <1>2, <1>4, <2>3 DEF PassSound
    <3>2. PassesSound(pass', ctl) BY <2>1, <2>3, <3>1, PassKeeps
    <3> QED BY <1>5, <2>1, <3>2, PartsAre, NodesKeep
  <2> QED BY <2>2, <2>3
<1> QED BY <1>6, <1>7

(* The checks at the end of a pass, and a transfer of the lead.            *)
LEMMA CheckKeeps ==
    ASSUME AdminInv, NEW n \in Nodes, CheckGroups(n) \/ ReconcileTransfer(n) PROVE AdminInv'
<1>1. pass[n].step # "none" BY DEF CheckGroups, ReconcileTransfer
<1>2. CASE CheckGroups(n)
  <2>1. PassesSound(pass', ctl)
    <3>1. EndPass(n) \/ Goto(n, "finish") \/ Goto(n, "retire")
      BY <1>1, <1>2, PassIs DEF CheckGroups
    <3> QED BY <1>1, <3>1, EndPassKeeps, GotoKeeps
  <2> QED BY <1>2, <2>1, PartsAre, NodesKeep DEF CheckGroups, raftVars, nodeVars
<1>3. CASE ReconcileTransfer(n)
  <2>1. PassesSound(pass', ctl)
    <3>1. EndPass(n) \/ Goto(n, "complete") BY <1>3 DEF ReconcileTransfer
    <3> QED BY <1>1, <3>1, EndPassKeeps, GotoKeeps
  <2>2. AppliedSound(applied', ctl)
    <3>1. UNCHANGED applied \/ Lead(Intent[pass[n].req].group, Intent[pass[n].req].target)
      BY <1>3 DEF ReconcileTransfer
    <3> QED BY <3>1, PartsAre, LeadKeeps
  <2> QED BY <1>3, <2>1, <2>2, PartsAre, NodesKeep DEF ReconcileTransfer, nodeVars
<1> QED BY <1>2, <1>3

(* retire_replacement and activate_replacement write the manifests of the  *)
(* two nodes.                                                              *)
LEMMA SwitchKeeps ==
    ASSUME AdminInv, NEW n \in Nodes, RetireReplacement(n) \/ ActivateReplacement(n)
    PROVE  AdminInv'
<1>1. pass[n].step # "none" BY DEF RetireReplacement, ActivateReplacement
<1>2. /\ ctl # <<>> /\ pass[n].topo \in Topology /\ pass[n].topo.rev \in Nat
      /\ pass[n].topo.auth \subseteq Nodes /\ pass[n].topo.desired \subseteq Nodes
  BY <1>1, PassIs
<1> DEFINE i == Intent[pass[n].req]
<1>3. CASE RetireReplacement(n)
  <2> DEFINE m == [state |-> "retired", topo |-> Completion(pass[n].topo, i)]
  <2>1. Completion(pass[n].topo, i) \in Topology BY <1>2 DEF Completion, Topology
  <2>2. m \in Manifests BY <2>1 DEF Manifests, States
  <2>3. \/ Persist(i.remove, m) /\ Goto(n, "activate")
        \/ EndPass(n) /\ UNCHANGED <<mem, disk>>
    BY <1>3 DEF RetireReplacement
  <2> HIDE DEF m
  <2>4. ManifestsSound(mem', disk', ctl)
    <3>1. CASE Persist(i.remove, m) BY <1>2, <2>2, <3>1, PartsAre, PersistKeeps
    <3>2. CASE UNCHANGED <<mem, disk>> BY <3>2, PartsAre
    <3> QED BY <2>3, <3>1, <3>2
  <2>5. PassesSound(pass', ctl) BY <1>1, <2>3, EndPassKeeps, GotoKeeps
  <2> QED BY <1>3, <2>4, <2>5, PartsAre, NodesKeep DEF RetireReplacement, raftVars
<1>4. CASE ActivateReplacement(n)
  <2> DEFINE m == [state |-> "active", topo |-> pass[n].topo]
  <2>1. m \in Manifests BY <1>2 DEF Manifests, States
  <2>2. \/ Persist(i.add, m) /\ Goto(n, "complete")
        \/ mem' = [mem EXCEPT ![i.add].topo = pass[n].topo] /\ UNCHANGED disk /\ EndPass(n)
        \/ EndPass(n) /\ UNCHANGED <<mem, disk>>
    BY <1>4 DEF ActivateReplacement
  <2> HIDE DEF m
  <2>3. ManifestsSound(mem', disk', ctl)
    <3>1. CASE Persist(i.add, m) BY <1>2, <2>1, <3>1, PartsAre, PersistKeeps
    <3>2. CASE mem' = [mem EXCEPT ![i.add].topo = pass[n].topo] /\ UNCHANGED disk
      <4>1. mem \in [Nodes -> Manifests] /\ disk \in [Nodes -> Manifests]
        BY PartsAre DEF ManifestsSound
      <4>2. \A k \in Nodes : [mem[k] EXCEPT !.topo = pass[n].topo] \in Manifests
        BY <1>2, PartsAre, ManifestIs
      <4>3. mem' \in [Nodes -> Manifests] BY <3>2, <4>1, <4>2
      <4> QED BY <1>2, <3>2, <4>1, <4>3 DEF ManifestsSound
    <3>3. CASE UNCHANGED <<mem, disk>> BY <3>3, PartsAre
    <3> QED BY <2>2, <3>1, <3>2, <3>3
  <2>4. PassesSound(pass', ctl) BY <1>1, <2>2, EndPassKeeps, GotoKeeps
  <2> QED BY <1>4, <2>3, <2>4, PartsAre, NodesKeep DEF ActivateReplacement, raftVars
<1> QED BY <1>3, <1>4

(* A pass that is done with a group, or keeps it.                          *)
LEMMA ReducedKeeps ==
    ASSUME AdminInv, NEW n \in Nodes, NEW g \in Groups, pass[n].step # "none", Done(n, g)
    PROVE  PassesSound(pass', ctl)
<1> DEFINE todo == pass[n].todo
           rest == IF Cardinality(Last(conf'[g]).sets) = 2 THEN todo ELSE todo \ {g}
<1>1. todo \subseteq Groups BY PassIs DEF Passes
<1>2. rest \in SUBSET Groups BY <1>1
<1>3. pass' = [pass EXCEPT ![n].todo = rest] BY DEF Done
<1> HIDE DEF rest
<1> QED BY <1>2, <1>3, DoneKeeps

(* A membership change of the reconciler, or the end of a pass that cannot *)
(* make it.                                                                *)
LEMMA ChangeToKeeps ==
    ASSUME AdminInv, NEW n \in Nodes, NEW g \in Groups, pass[n].step # "none",
           ChangeTo(n, g, pass[n].topo.desired),
           UNCHANGED <<ctl, applied, mem, disk, form, abort>>
    PROVE  AdminInv'
<1> DEFINE v == pass[n].topo.desired  c == Change(Last(conf[g]), v)
<1>1. ctl # <<>> /\ v \in SUBSET Nodes BY PassIs
<1>2. conf[Control] # <<>> BY <1>1, PartsAre DEF ControlGroupSound
<1>3. g = Control => c \in Confs /\ c.booted = Last(conf[Control]).booted
  BY <1>1, <1>2, LastConfIs, ChangeIs
<1>4. CASE CanChange(Last(conf[g]), v)
  <2>1. AppendConf(n, g, c) /\ Done(n, g) BY <1>4 DEF ChangeTo
  <2>2. PassesSound(pass', ctl) BY <2>1, ReducedKeeps
  <2> HIDE DEF c
  <2> QED BY <1>2, <1>3, <2>1, <2>2, MembershipKeeps
<1>5. CASE ~CanChange(Last(conf[g]), v)
  <2>1. EndPass(n) /\ UNCHANGED conf BY <1>5 DEF ChangeTo
  <2>2. PassesSound(pass', ctl) BY <2>1, EndPassKeeps
  <2> QED BY <2>1, <2>2, PartsAre, NodesKeep
<1> QED BY <1>4, <1>5

(* A group of a replacement gets its learner, its voters, or another       *)
(* leader.                                                                 *)
LEMMA ReconcileGroupKeeps ==
    ASSUME AdminInv, NEW n \in Nodes, NEW g \in Groups, ReconcileGroup(n, g) PROVE AdminInv'
<1>1. /\ pass[n].step = "groups" /\ UNCHANGED <<ctl, mem, disk, form, abort>>
      /\ ReconcileTarget(n, g) \/ ReconcileReplacement(n, g)
  BY DEF ReconcileGroup, nodeVars
<1>2. pass[n].step # "none" BY <1>1
<1>3. CASE ReconcileTarget(n, g) BY <1>1, <1>2, <1>3, ChangeToKeeps DEF ReconcileTarget
<1>4. CASE ReconcileReplacement(n, g)
  <2> DEFINE i == Intent[pass[n].req]
             t == Min((Voters(Last(conf[g])) \intersect pass[n].topo.desired) \ {i.remove})
             c == AddLearner(Last(conf[g]), i.add)
  <2>1. \/ AppendConf(n, g, c) /\ Done(n, g) /\ UNCHANGED applied
        \/ ChangeTo(n, g, pass[n].topo.desired) /\ UNCHANGED applied
        \/ Lead(g, t) /\ pass' = [pass EXCEPT ![n].todo = pass[n].todo \ {g}] /\ UNCHANGED conf
    BY <1>4 DEF ReconcileReplacement
  <2>2. i.add \in Nodes /\ ctl # <<>>
    BY <1>1, <1>2, <1>4, PassIs, IntentsAre DEF ReconcileReplacement
  <2>3. conf[Control] # <<>> BY <2>2, PartsAre DEF ControlGroupSound
  <2>4. g = Control => c \in Confs /\ c.booted = Last(conf[Control]).booted
    BY <2>2, <2>3, LastConfIs DEF AddLearner, Confs
  <2> HIDE DEF t, c
  <2>5. CASE AppendConf(n, g, c) /\ Done(n, g) /\ UNCHANGED applied
    <3>1. PassesSound(pass', ctl) BY <1>2, <2>5, ReducedKeeps
    <3> QED BY <1>1, <2>3, <2>4, <2>5, <3>1, MembershipKeeps
  <2>6. CASE ChangeTo(n, g, pass[n].topo.desired) /\ UNCHANGED applied
    BY <1>1, <1>2, <2>6, ChangeToKeeps
  <2>7. CASE Lead(g, t) /\ pass' = [pass EXCEPT ![n].todo = pass[n].todo \ {g}] /\ UNCHANGED conf
    <3>1. AppliedSound(applied', ctl) BY <2>7, LeadKeeps
    <3>2. pass[n].todo \ {g} \in SUBSET Groups BY <1>2, PassIs DEF Passes
    <3>3. PassesSound(pass', ctl) BY <1>2, <2>7, <3>2, DoneKeeps
    <3> QED BY <1>1, <2>7, <3>1, <3>3, PartsAre, NodesKeep
  <2> QED BY <2>1, <2>5, <2>6, <2>7
<1> QED BY <1>1, <1>3, <1>4

(* The write that completes an operation or frees the slot.                *)
LEMMA EndOperationKeeps ==
    ASSUME AdminInv, NEW n \in Nodes, EndOperation(n) PROVE AdminInv'
<1> DEFINE r == pass[n].req  s == Last(ctl)
<1>1. pass[n].step # "none" /\ EndPass(n) /\ UNCHANGED <<conf, form, abort>>
  BY DEF EndOperation, raftVars
<1>2. ctl # <<>> /\ r \in Requests BY <1>1, PassIs
<1>3. s \in ControlStates /\ Matches(s) BY <1>2, PartsAre, HistoryIs
<1>4. PassesSound(pass', ctl) /\ AbortSound(abort', ctl) BY <1>1, EndPassKeeps, PartsAre
<1>5. \/ UNCHANGED <<ctl, applied, mem, disk>>
      \/ CanEnd(s, r) /\ Commit(n, CompleteAdministration(s, r))
      \/ CanFinishAbort(s, r) /\ Commit(n, FinishAdministrationAbort(s, r))
  BY DEF EndOperation
<1> HIDE DEF r, s
<1>6. CASE UNCHANGED <<ctl, applied, mem, disk>> BY <1>1, <1>4, <1>6, PartsAre, NodesKeep
<1>7. CASE CanEnd(s, r) /\ Commit(n, CompleteAdministration(s, r))
  <2> DEFINE t == CompleteAdministration(s, r)
  <2>1. t \in ControlStates /\ Matches(t) BY <1>2, <1>3, <1>7, CompleteMatches
  <2> HIDE DEF t
  <2> QED BY <1>1, <1>2, <1>4, <1>7, <2>1, CommandKeeps DEF t
<1>8. CASE CanFinishAbort(s, r) /\ Commit(n, FinishAdministrationAbort(s, r))
  <2> DEFINE t == FinishAdministrationAbort(s, r)
  <2>1. t \in ControlStates /\ Matches(t) BY <1>2, <1>3, <1>8, FinishMatches
  <2> HIDE DEF t
  <2> QED BY <1>1, <1>2, <1>4, <1>8, <2>1, CommandKeeps DEF t
<1> QED BY <1>5, <1>6, <1>7, <1>8

(* The operator begins an operation, or aborts one in two steps.           *)
LEMMA OperatorKeeps ==
    ASSUME AdminInv,
           SubmitAbort \/ \E n \in Nodes, r \in Requests : Begin(n, r) \/ RequestAbort(n, r)
    PROVE  AdminInv'
<1>1. ASSUME NEW n \in Nodes, NEW r \in Requests, Begin(n, r) PROVE AdminInv'
  <2> DEFINE s == Last(ctl)  t == BeginAdministration(s, r)
  <2>1. form = "done" /\ CanBegin(s, r) /\ Commit(n, t) /\ UNCHANGED <<conf, form, pass, abort>>
    BY <1>1 DEF Begin, CanWrite, raftVars, taskVars
  <2>2. ctl # <<>> BY <2>1, PartsAre DEF FormSound
  <2>3. s \in ControlStates /\ Matches(s) BY <2>2, PartsAre, HistoryIs
  <2>4. t \in ControlStates /\ Matches(t) BY <2>1, <2>3, BeginMatches
  <2> HIDE DEF t
  <2> QED BY <2>1, <2>2, <2>4, PartsAre, CommandKeeps
<1>2. ASSUME NEW n \in Nodes, NEW r \in Requests, RequestAbort(n, r) PROVE AdminInv'
  <2>1. /\ applied[n] > 0 /\ abort' = [node |-> n, req |-> r]
        /\ UNCHANGED <<ctl, applied, conf, mem, disk, form, pass>>
    BY <1>2 DEF RequestAbort, AbortAllowed, raftVars, nodeVars
  <2>2. ctl # <<>> BY <2>1, PartsAre, LocalIs
  <2>3. AbortSound(abort', ctl) BY <2>1, <2>2 DEF AbortSound
  <2> QED BY <2>1, <2>3, PartsAre, NodesKeep
<1>3. CASE SubmitAbort
  <2> DEFINE s == Last(ctl)  r == abort.req  t == AbortAdministration(s, r)
  <2>1. abort # NoAbort /\ abort' = NoAbort /\ UNCHANGED <<conf, form, pass>>
    BY <1>3 DEF SubmitAbort, raftVars
  <2>2. r \in Requests /\ ctl # <<>> BY <2>1, PartsAre DEF AbortSound
  <2>3. \/ UNCHANGED <<ctl, applied, mem, disk>>
        \/ CanEnd(s, r) /\ Commit(abort.node, t)
    BY <1>3 DEF SubmitAbort
  <2>4. AbortSound(abort', ctl) BY <2>1 DEF AbortSound
  <2>5. s \in ControlStates /\ Matches(s) BY <2>2, PartsAre, HistoryIs
  <2>6. CASE UNCHANGED <<ctl, applied, mem, disk>> BY <2>1, <2>4, <2>6, PartsAre, NodesKeep
  <2>7. CASE CanEnd(s, r) /\ Commit(abort.node, t)
    <3>1. t \in ControlStates /\ Matches(t) BY <2>2, <2>5, <2>7, AbortMatches
    <3> HIDE DEF t
    <3> QED BY <2>1, <2>2, <2>4, <2>7, <3>1, PartsAre, CommandKeeps
  <2> QED BY <2>3, <2>6, <2>7
<1> QED BY <1>1, <1>2, <1>3

(* A node syncs its manifest, dies, or comes back.                         *)
LEMMA ProcessKeeps ==
    ASSUME AdminInv, NEW n \in Nodes, SyncTopology(n) \/ Crash(n) \/ Restart(n) PROVE AdminInv'
<1>1. CASE SyncTopology(n)
  <2> DEFINE m == [mem[n] EXCEPT !.topo = LocalTopo(n)]
  <2>1. applied[n] > 0 /\ Persist(n, m) /\ UNCHANGED <<ctl, applied, conf, form, pass, abort>>
    BY <1>1 DEF SyncTopology, raftVars, taskVars
  <2>2. ctl # <<>> /\ LocalTopo(n) \in Topology BY <2>1, PartsAre, LocalIs
  <2>3. m \in Manifests BY <2>2, PartsAre, ManifestIs
  <2> HIDE DEF m
  <2>4. ManifestsSound(mem', disk', ctl) BY <2>1, <2>2, <2>3, PartsAre, PersistKeeps
  <2> QED BY <2>1, <2>4, PartsAre, NodesKeep
<1>2. CASE Restart(n)
  <2> DEFINE m == IF applied[n] = 0 \/ disk[n].state = "none" THEN disk[n]
                  ELSE [disk[n] EXCEPT !.topo = LocalTopo(n)]
  <2>1. Persist(n, m) /\ UNCHANGED <<ctl, applied, conf, form, pass, abort>>
    BY <1>2 DEF Restart, raftVars, taskVars
  <2>2. applied[n] \in Nat BY PartsAre DEF AppliedSound
  <2>3. m \in Manifests /\ m.state = disk[n].state
    <3>1. CASE m = disk[n] BY <3>1, PartsAre, ManifestIs
    <3>2. CASE applied[n] # 0 /\ disk[n].state # "none"
      <4>1. applied[n] > 0 BY <2>2, <3>2
      <4>2. LocalTopo(n) \in Topology BY <4>1, PartsAre, LocalIs
      <4>3. m = [disk[n] EXCEPT !.topo = LocalTopo(n)] BY <3>2
      <4> QED BY <4>2, <4>3, PartsAre, ManifestIs
    <3> QED BY <3>1, <3>2
  <2>4. m.state = "active" => ctl # <<>> BY <2>3, PartsAre DEF ManifestsSound
  <2> HIDE DEF m
  <2>5. ManifestsSound(mem', disk', ctl) BY <2>1, <2>3, <2>4, PartsAre, PersistKeeps
  <2> QED BY <2>1, <2>5, PartsAre, NodesKeep
<1>3. CASE Crash(n)
  <2>1. /\ mem' = [mem EXCEPT ![n] = NoManifest] /\ pass' = [pass EXCEPT ![n] = NoPass]
        /\ abort' = NoAbort \/ abort' = abort
        /\ form' = "idle" \/ form' = form
        /\ UNCHANGED <<ctl, conf, applied, disk>>
    BY <1>3 DEF Crash
  <2>2. NoManifest \in Manifests /\ NoManifest.state = "none"
    BY FoundingMatches DEF NoManifest, Manifests, States
  <2>3. /\ mem \in [Nodes -> Manifests] /\ disk \in [Nodes -> Manifests]
        /\ \A k \in Nodes : mem[k].state = "active" \/ disk[k].state = "active" => ctl # <<>>
    BY PartsAre DEF ManifestsSound
  <2>4. mem' \in [Nodes -> Manifests] /\ \A k \in Nodes : mem'[k] = mem[k] \/ mem'[k] = NoManifest
    BY <2>1, <2>2, <2>3
  <2>5. ManifestsSound(mem', disk', ctl) BY <2>1, <2>2, <2>3, <2>4 DEF ManifestsSound
  <2>6. PassesSound(pass', ctl) BY <2>1, EndPassKeeps DEF EndPass
  <2>7. AbortSound(abort', ctl) BY <2>1, PartsAre DEF AbortSound
  <2>8. FormSound(form', conf, ctl) BY <2>1, PartsAre DEF FormSound
  <2> QED BY <2>1, <2>5, <2>6, <2>7, <2>8, PartsAre, NodesKeep
<1> QED BY <1>1, <1>2, <1>3

(* Nothing is formed, and no command was taken.                            *)
LEMMA AdminInit == ASSUME MembershipInit PROVE AdminInv
<1>1. /\ ctl = <<>> /\ conf = [g \in Groups |-> <<>>] /\ applied = [n \in Nodes |-> 0]
      /\ mem = [n \in Nodes |-> NoManifest] /\ disk = mem /\ form = "idle"
      /\ pass = [n \in Nodes |-> NoPass] /\ abort = NoAbort
  BY DEF MembershipInit
<1>2. HistorySound(ctl) /\ AppliedSound(applied, ctl) BY <1>1 DEF HistorySound, AppliedSound
<1>3. Control \in Groups BY DEF Groups
<1>4. ControlGroupSound(conf, ctl) BY <1>1, <1>3 DEF ControlGroupSound
<1>5. NoManifest \in Manifests /\ NoManifest.state = "none"
  BY FoundingMatches DEF NoManifest, Manifests, States
<1>6. ManifestsSound(mem, disk, ctl) BY <1>1, <1>5 DEF ManifestsSound
<1>7. PassesSound(pass, ctl) /\ AbortSound(abort, ctl) BY <1>1 DEF PassesSound, PassSound, AbortSound
<1>8. FormSound(form, conf, ctl) BY <1>1 DEF FormSound
<1> QED BY <1>2, <1>4, <1>6, <1>7, <1>8 DEF AdminInv

(* Every step keeps the invariant.                                         *)
LEMMA AdminStep == ASSUME AdminInv, [MembershipNext]_membershipVars PROVE AdminInv'
<1>1. CASE UNCHANGED membershipVars
  BY <1>1, PartsAre, NodesKeep DEF membershipVars
<1>2. CASE Formation
  BY <1>2, FormationKeeps, GrowKeeps, InitializeKeeps, RaftKeeps, BootstrapGroupKeeps DEF Formation
<1>3. CASE Raft BY <1>3, RaftKeeps
<1>4. ASSUME NEW n \in Nodes, Reconcile(n) PROVE AdminInv'
  BY <1>4, StartPassKeeps, CheckKeeps, SwitchKeeps, EndOperationKeeps, ReconcileGroupKeeps
  DEF Reconcile
<1>5. ASSUME NEW n \in Nodes, SyncTopology(n) \/ Crash(n) \/ Restart(n) PROVE AdminInv'
  BY <1>5, ProcessKeeps
<1>6. CASE SubmitAbort \/ \E n \in Nodes, r \in Requests : Begin(n, r) \/ RequestAbort(n, r)
  BY <1>6, OperatorKeeps
<1> QED BY <1>1, <1>2, <1>3, <1>4, <1>5, <1>6 DEF MembershipNext

(* Whatever operations an operator begins and aborts, whichever nodes die  *)
(* and come back, and however far the replicas are behind: in every state  *)
(* of the control group the authorized nodes are the desired voters and    *)
(* the outgoing node of the one pending replacement, and the number of     *)
(* voters is that of the formation (apply_begin_, apply_complete_,         *)
(* apply_abort_ and apply_finish_administration_abort).  For any set of    *)
(* nodes, any intents, and any number of operations and crashes.           *)
THEOREM TopologyAlwaysMatchesOperation == MembershipSpec => []TopologyMatchesOperation
<1>1. AdminInv => TopologyMatchesOperation
  BY DEF AdminInv, HistorySound, TopologyMatchesOperation, Matches, Leaving
<1> QED BY <1>1, AdminInit, AdminStep, PTL DEF MembershipSpec
=============================================================================
