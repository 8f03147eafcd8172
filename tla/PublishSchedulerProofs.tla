----------------------- MODULE PublishSchedulerProofs -----------------------
(***************************************************************************)
(* Proofs about PublishScheduler, for every set of requests, every charge  *)
(* and every configuration try_new accepts: requests reach Raft in the     *)
(* order in which they were queued, answers are true, and the admission    *)
(* counters are the work.                                                  *)
(***************************************************************************)
EXTENDS PublishScheduler, TLAPS, WellFoundedInduction, FiniteSetTheorems

-----------------------------------------------------------------------------
(* Queues.                                                                 *)

(* The least number of a set; the induction of the lemmas below.           *)
LEMMA LeastNatural ==
    ASSUME NEW T \in SUBSET Nat, T # {}
    PROVE  \E m \in T : \A n \in T : m <= n
<1>1. PICK m \in T : \A n \in T : ~(<<n, m>> \in OpToRel(<, Nat))
  BY NatLessThanWellFounded, WFMin
<1>2. ASSUME NEW n \in T PROVE m <= n
  <2>1. n < m => <<n, m>> \in OpToRel(<, Nat)
    BY DEF OpToRel
  <2>2. ~(n < m)
    BY <1>1, <2>1, Zenon
  <2> QED BY <2>2
<1> QED BY <1>2

(* One step of discard_cancelled.                                          *)
KeepOne(s, n, t) == IF caller[s[n]] # "cancelled" THEN Append(t, s[n]) ELSE t

IsLiveOf(f, s, n) ==
    /\ f \in [0 .. n -> Seq(Requests)] /\ f[0] = <<>>
    /\ \A i \in 1 .. n : f[i] = KeepOne(s, i, f[i - 1])

LEMMA LiveOfExists ==
    ASSUME NEW s \in Seq(Requests), NEW n \in 0 .. Len(s)
    PROVE  \E f : IsLiveOf(f, s, n)
<1> DEFINE bad == {i \in 0 .. Len(s) : ~\E f : IsLiveOf(f, s, i)}
<1> SUFFICES ASSUME bad # {} PROVE FALSE
  OBVIOUS
<1>1. PICK m \in bad : \A i \in bad : m <= i
  <2>1. bad \in SUBSET Nat
    OBVIOUS
  <2> HIDE DEF bad
  <2> QED BY <2>1, LeastNatural
<1>2. CASE m = 0
  <2> DEFINE f == [i \in 0 .. 0 |-> <<>>]
  <2>1. IsLiveOf(f, s, 0)
    BY DEF IsLiveOf
  <2> QED BY <1>1, <1>2, <2>1
<1>3. CASE m # 0
  <2>1. /\ m \in 1 .. Len(s) /\ m - 1 \in 0 .. Len(s) /\ m - 1 \notin bad
        /\ m \in Nat /\ m > 0
    BY <1>1, <1>3
  <2>2. PICK f : IsLiveOf(f, s, m - 1)
    BY <2>1
  <2> DEFINE g == [i \in 0 .. m |-> IF i = m THEN KeepOne(s, m, f[m - 1]) ELSE f[i]]
  <2>3. f[m - 1] \in Seq(Requests) /\ s[m] \in Requests
    BY <2>1, <2>2 DEF IsLiveOf
  <2>4. KeepOne(s, m, f[m - 1]) \in Seq(Requests)
    BY <2>3 DEF KeepOne
  <2>5. \A i \in 0 .. m - 1 : g[i] = f[i] /\ g[i] \in Seq(Requests)
    BY <2>1, <2>2 DEF IsLiveOf
  <2>6. g[m] = KeepOne(s, m, f[m - 1]) /\ DOMAIN g = 0 .. m /\ g = [i \in 0 .. m |-> g[i]]
    BY <2>1
  <2> HIDE DEF g, bad
  <2>7. ASSUME NEW i \in 0 .. m PROVE g[i] \in Seq(Requests)
    <3>1. i = m \/ i \in 0 .. m - 1
      BY <2>1
    <3> QED BY <3>1, <2>4, <2>5, <2>6
  <2>8. g \in [0 .. m -> Seq(Requests)] /\ g[0] = <<>>
    <3>1. 0 \in 0 .. m - 1
      BY <2>1
    <3>2. g[0] = <<>>
      BY <3>1, <2>2, <2>5 DEF IsLiveOf
    <3>3. g \in [0 .. m -> Seq(Requests)]
      BY <2>6, <2>7
    <3> QED BY <3>2, <3>3
  <2>9. ASSUME NEW i \in 1 .. m PROVE g[i] = KeepOne(s, i, g[i - 1])
    <3>1. CASE i = m
      <4>1. m - 1 \in 0 .. m - 1
        BY <2>1
      <4> QED BY <4>1, <2>5, <2>6, <3>1
    <3>2. CASE i # m
      <4>1. i \in 1 .. m - 1 /\ i \in 0 .. m - 1 /\ i - 1 \in 0 .. m - 1
        BY <2>1, <3>2
      <4>2. f[i] = KeepOne(s, i, f[i - 1])
        BY <4>1, <2>2 DEF IsLiveOf
      <4> QED BY <4>1, <4>2, <2>5
    <3> QED BY <3>1, <3>2
  <2>10. IsLiveOf(g, s, m)
    BY <2>8, <2>9 DEF IsLiveOf
  <2> QED BY <1>1, <2>10 DEF bad
<1> QED BY <1>2, <1>3

LEMMA LiveOfIs ==
    ASSUME NEW s \in Seq(Requests)
    PROVE  IsLiveOf(LiveOf(s), s, Len(s))
<1> DEFINE Body(f) == [n \in 0 .. Len(s) |->
               IF n = 0 THEN <<>>
               ELSE IF caller[s[n]] # "cancelled" THEN Append(f[n - 1], s[n]) ELSE f[n - 1]]
<1>1. PICK f : IsLiveOf(f, s, Len(s))
  BY LiveOfExists
<1>2. f = Body(f)
  <2>1. f = [n \in 0 .. Len(s) |-> f[n]]
    BY <1>1 DEF IsLiveOf
  <2>2. ASSUME NEW n \in 0 .. Len(s) PROVE f[n] = Body(f)[n]
    <3>1. n = 0 \/ n \in 1 .. Len(s)
      OBVIOUS
    <3>2. n \in 1 .. Len(s) => f[n] = KeepOne(s, n, f[n - 1])
      BY <1>1 DEF IsLiveOf
    <3>3. n = 0 => f[n] = <<>>
      BY <1>1 DEF IsLiveOf
    <3> QED BY <3>1, <3>2, <3>3 DEF KeepOne
  <2>3. Body(f) = [n \in 0 .. Len(s) |-> Body(f)[n]]
    OBVIOUS
  <2> HIDE DEF Body
  <2> QED BY <2>1, <2>2, <2>3
<1>3. LiveOf(s) = CHOOSE h : h = Body(h)
  BY Zenon DEF LiveOf
<1>4. LiveOf(s) = Body(LiveOf(s))
  <2> HIDE DEF Body
  <2> QED BY <1>2, <1>3, Zenon
<1> DEFINE k == LiveOf(s)
<1>5. k = Body(k)
  BY <1>4
<1> HIDE DEF k
<1>6. \A n \in 0 .. Len(s) : k[n] = IF n = 0 THEN <<>> ELSE KeepOne(s, n, k[n - 1])
  BY <1>5 DEF KeepOne
<1>7. k = f
  <2>1. ASSUME NEW n \in 0 .. Len(s), k[n] # f[n] PROVE FALSE
    <3> DEFINE bad == {i \in 0 .. Len(s) : k[i] # f[i]}
    <3>1. PICK m \in bad : \A i \in bad : m <= i
      <4>1. bad \in SUBSET Nat /\ bad # {}
        BY <2>1
      <4> HIDE DEF bad
      <4> QED BY <4>1, LeastNatural
    <3>2. m # 0 /\ m - 1 \in 0 .. Len(s) /\ k[m - 1] = f[m - 1]
      BY <3>1, <1>6, <1>1 DEF IsLiveOf
    <3> QED BY <3>1, <3>2, <1>6, <1>1 DEF IsLiveOf
  <2> QED BY <2>1, <1>5, <1>2
<1> QED BY <1>1, <1>7 DEF k

(* What is kept of the first n requests: those whose callers are there, in *)
(* the order of the queue.                                                 *)
KeepsFirst(t, s, n) ==
    /\ t \in Seq(Requests)
    /\ \A i \in DOMAIN t : \E a \in 1 .. n : t[i] = s[a] /\ caller[s[a]] # "cancelled"
    /\ \A a \in 1 .. n : caller[s[a]] # "cancelled" => \E i \in DOMAIN t : t[i] = s[a]
    /\ \A i, j \in DOMAIN t : i < j => \E a, b \in 1 .. n : a < b /\ t[i] = s[a] /\ t[j] = s[b]

LEMMA KeepOneKeepsFirst ==
    ASSUME NEW s \in Seq(Requests), NEW m \in 1 .. Len(s), NEW t, KeepsFirst(t, s, m - 1)
    PROVE  KeepsFirst(KeepOne(s, m, t), s, m)
<1>1. t \in Seq(Requests) /\ s[m] \in Requests /\ Len(t) \in Nat /\ DOMAIN t = 1 .. Len(t)
  BY DEF KeepsFirst
<1>2. 1 .. m = (1 .. m - 1) \cup {m} /\ \A a \in 1 .. m - 1 : a < m
  OBVIOUS
<1>3. CASE caller[s[m]] = "cancelled"
  <2>1. KeepOne(s, m, t) = t
    BY <1>3 DEF KeepOne
  <2> QED BY <1>2, <1>3, <2>1 DEF KeepsFirst
<1>4. CASE caller[s[m]] # "cancelled"
  <2> DEFINE u == Append(t, s[m])
  <2>1. KeepOne(s, m, t) = u
    BY <1>4 DEF KeepOne
  <2>2. /\ u \in Seq(Requests) /\ DOMAIN u = 1 .. Len(t) + 1
        /\ u[Len(t) + 1] = s[m] /\ \A i \in DOMAIN t : u[i] = t[i]
    BY <1>1
  <2> HIDE DEF u
  <2>3. \A i \in DOMAIN u : i = Len(t) + 1 \/ i \in DOMAIN t
    BY <1>1, <2>2
  <2>4. \A i \in DOMAIN t : i \in DOMAIN u /\ i < Len(t) + 1
    BY <1>1, <2>2
  <2>5. Len(t) + 1 \in DOMAIN u
    BY <1>1, <2>2
  <2>6. ASSUME NEW i \in DOMAIN u
        PROVE  \E a \in 1 .. m : u[i] = s[a] /\ caller[s[a]] # "cancelled"
    <3>1. CASE i = Len(t) + 1
      BY <1>2, <1>4, <2>2, <3>1
    <3>2. CASE i \in DOMAIN t
      <4>1. PICK a \in 1 .. m - 1 : t[i] = s[a] /\ caller[s[a]] # "cancelled"
        BY <3>2 DEF KeepsFirst
      <4> QED BY <4>1, <1>2, <2>2, <3>2
    <3> QED BY <2>3, <3>1, <3>2
  <2>7. ASSUME NEW a \in 1 .. m, caller[s[a]] # "cancelled" PROVE \E i \in DOMAIN u : u[i] = s[a]
    <3>1. CASE a = m
      BY <2>2, <2>5, <3>1
    <3>2. CASE a \in 1 .. m - 1
      <4>1. PICK i \in DOMAIN t : t[i] = s[a]
        BY <2>7, <3>2 DEF KeepsFirst
      <4> QED BY <4>1, <2>2, <2>4
    <3> QED BY <1>2, <3>1, <3>2
  <2>8. ASSUME NEW i \in DOMAIN u, NEW j \in DOMAIN u, i < j
        PROVE  \E a, b \in 1 .. m : a < b /\ u[i] = s[a] /\ u[j] = s[b]
    <3>1. i \in DOMAIN t
      BY <1>1, <2>2, <2>8
    <3>2. CASE j \in DOMAIN t
      <4>1. PICK a \in 1 .. m - 1, b \in 1 .. m - 1 : a < b /\ t[i] = s[a] /\ t[j] = s[b]
        BY <3>1, <3>2, <2>8 DEF KeepsFirst
      <4> QED BY <4>1, <1>2, <2>2, <3>1, <3>2
    <3>3. CASE j = Len(t) + 1
      <4>1. PICK a \in 1 .. m - 1 : t[i] = s[a]
        BY <3>1 DEF KeepsFirst
      <4> QED BY <4>1, <1>2, <2>2, <3>1, <3>3
    <3> QED BY <2>3, <3>2, <3>3
  <2> QED BY <2>1, <2>2, <2>6, <2>7, <2>8 DEF KeepsFirst
<1> QED BY <1>3, <1>4

(* What discard_cancelled leaves of a queue.                               *)
LEMMA LiveKeepsOrder ==
    ASSUME NEW s \in Seq(Requests)
    PROVE  /\ Live(s) \in Seq(Requests)
           /\ Elements(Live(s)) = Elements(s) \ Cancelled(s)
           /\ \A i, j \in DOMAIN Live(s) : i < j =>
                 \E a, b \in DOMAIN s : a < b /\ Live(s)[i] = s[a] /\ Live(s)[j] = s[b]
<1> DEFINE k == LiveOf(s)
           bad == {n \in 0 .. Len(s) : ~KeepsFirst(k[n], s, n)}
<1>1. IsLiveOf(k, s, Len(s))
  BY LiveOfIs
<1> HIDE DEF k
<1>2. ASSUME bad # {} PROVE FALSE
  <2>1. PICK m \in bad : \A i \in bad : m <= i
    <3>1. bad \in SUBSET Nat
      OBVIOUS
    <3> HIDE DEF bad
    <3> QED BY <1>2, <3>1, LeastNatural
  <2>2. m # 0
    <3>1. k[0] = <<>>
      BY <1>1 DEF IsLiveOf
    <3>2. KeepsFirst(<<>>, s, 0)
      BY DEF KeepsFirst
    <3> QED BY <2>1, <3>1, <3>2
  <2>3. m \in 1 .. Len(s) /\ m - 1 \in 0 .. Len(s) /\ m - 1 \notin bad
    BY <2>1, <2>2
  <2>4. KeepsFirst(k[m - 1], s, m - 1)
    BY <2>3
  <2>5. k[m] = KeepOne(s, m, k[m - 1])
    BY <1>1, <2>3 DEF IsLiveOf
  <2> QED BY <2>1, <2>3, <2>4, <2>5, KeepOneKeepsFirst
<1>3. KeepsFirst(Live(s), s, Len(s))
  <2>1. Len(s) \in 0 .. Len(s)
    OBVIOUS
  <2> QED BY <1>2, <2>1 DEF k, Live
<1>4. DOMAIN s = 1 .. Len(s)
  OBVIOUS
<1> DEFINE t == Live(s)
<1> HIDE DEF t, k, bad
<1>5. KeepsFirst(t, s, Len(s))
  BY <1>3 DEF t
<1>6. Elements(t) = Elements(s) \ Cancelled(s)
  <2>1. ASSUME NEW r \in Elements(t) PROVE r \in Elements(s) \ Cancelled(s)
    <3>1. PICK i \in DOMAIN t : r = t[i]
      BY DEF Elements
    <3>2. PICK a \in 1 .. Len(s) : t[i] = s[a] /\ caller[s[a]] # "cancelled"
      BY <1>5 DEF KeepsFirst
    <3> QED BY <1>4, <3>1, <3>2 DEF Elements, Cancelled
  <2>2. ASSUME NEW r \in Elements(s) \ Cancelled(s) PROVE r \in Elements(t)
    <3>1. PICK a \in 1 .. Len(s) : r = s[a] /\ caller[s[a]] # "cancelled"
      BY <1>4 DEF Elements, Cancelled
    <3>2. PICK i \in DOMAIN t : t[i] = s[a]
      BY <1>5, <3>1 DEF KeepsFirst
    <3> QED BY <3>1, <3>2 DEF Elements
  <2> QED BY <2>1, <2>2
<1>7. ASSUME NEW i \in DOMAIN t, NEW j \in DOMAIN t, i < j
      PROVE  \E a, b \in DOMAIN s : a < b /\ t[i] = s[a] /\ t[j] = s[b]
  <2>1. PICK a \in 1 .. Len(s), b \in 1 .. Len(s) : a < b /\ t[i] = s[a] /\ t[j] = s[b]
    BY <1>5, <1>7 DEF KeepsFirst
  <2> QED BY <1>4, <2>1
<1> QED BY <1>5, <1>6, <1>7 DEF KeepsFirst, t

(* take_batch takes at least one request.                                  *)
LEMMA BatchIsAPrefix ==
    ASSUME NEW s \in Seq(Requests), s # <<>>
    PROVE  BatchLength(s) \in 1 .. Len(s)
<1> DEFINE fit == {n \in DOMAIN s : n = 1 \/ (n <= BatchRequests /\ RecordsOf(s)[n] <= BatchRecords)}
           over == {Len(s) - n : n \in fit}
<1>1. 1 \in fit /\ fit \subseteq 1 .. Len(s)
  OBVIOUS
<1> HIDE DEF fit
<1>2. over \in SUBSET Nat /\ over # {}
  BY <1>1
<1>3. PICK m \in over : \A n \in over : m <= n
  <2> HIDE DEF over
  <2> QED BY <1>2, LeastNatural
<1>4. PICK n \in fit : m = Len(s) - n
  BY <1>3
<1>5. ASSUME NEW i \in fit PROVE n >= i
  <2>1. Len(s) - i \in over
    OBVIOUS
  <2>2. Len(s) - n <= Len(s) - i
    BY <2>1, <1>3, <1>4
  <2>3. n \in Int /\ i \in Int /\ Len(s) \in Int
    BY <1>1
  <2> QED BY <2>2, <2>3
<1>6. Max(fit) \in fit
  BY <1>4, <1>5, Zenon DEF Max
<1> QED BY <1>1, <1>6 DEF fit, BatchLength

-----------------------------------------------------------------------------
(* Charges: Charge adds up the records of a set, whatever the order in     *)
(* which the sum visits it.                                                *)

Pick(s) == CHOOSE x \in s : TRUE

LEMMA Picked ==
    ASSUME NEW s, s # {}
    PROVE  Pick(s) \in s
BY Zenon DEF Pick

(* The sets of requests are finite, and smaller without a member.          *)
LEMMA SetsOfRequests ==
    ASSUME NEW s \in SUBSET Requests
    PROVE  /\ IsFiniteSet(s) /\ Cardinality(s) \in Nat
           /\ Cardinality(s) = 0 <=> s = {}
           /\ \A x \in s : Cardinality(s \ {x}) = Cardinality(s) - 1
<1>1. IsFiniteSet(s)
  BY SchedulerAssumption, FS_Subset
<1> QED BY <1>1, FS_CardinalityType, FS_EmptySet, FS_RemoveElement

(* The sum over the subsets of S with at most n members.                   *)
Small(S, n) == {s \in SUBSET S : Cardinality(s) <= n}
SumStep(f, s) == IF s = {} THEN 0 ELSE Records[Pick(s)] + f[s \ {Pick(s)}]
IsSum(f, S, n) ==
    /\ f \in [Small(S, n) -> Nat]
    /\ \A s \in Small(S, n) : f[s] = SumStep(f, s)

LEMMA SumExists ==
    ASSUME NEW S \in SUBSET Requests, NEW n \in Nat
    PROVE  \E f : IsSum(f, S, n)
<1> DEFINE bad == {i \in Nat : ~\E f : IsSum(f, S, i)}
<1> SUFFICES ASSUME bad # {} PROVE FALSE
  OBVIOUS
<1>1. PICK m \in bad : \A i \in bad : m <= i
  <2>1. bad \in SUBSET Nat
    OBVIOUS
  <2> HIDE DEF bad
  <2> QED BY <2>1, LeastNatural
<1>2. m \in Nat /\ ~\E f : IsSum(f, S, m)
  BY <1>1
<1>3. CASE m = 0
  <2> DEFINE f == [s \in Small(S, 0) |-> 0]
  <2>1. ASSUME NEW s \in Small(S, 0) PROVE s = {}
    <3>1. s \in SUBSET Requests /\ Cardinality(s) <= 0
      BY DEF Small
    <3>2. Cardinality(s) = 0
      BY <3>1, SetsOfRequests
    <3> QED BY <3>1, <3>2, SetsOfRequests
  <2>2. IsSum(f, S, 0)
    BY <2>1 DEF IsSum, SumStep
  <2> QED BY <1>2, <1>3, <2>2
<1>4. CASE m # 0
  <2>1. m - 1 \in Nat /\ m - 1 \notin bad
    BY <1>1, <1>2, <1>4
  <2>2. PICK f : IsSum(f, S, m - 1)
    BY <2>1
  <2> DEFINE g == [s \in Small(S, m) |-> SumStep(f, s)]
  <2>3. ASSUME NEW s \in Small(S, m), s # {}
        PROVE  s \ {Pick(s)} \in Small(S, m - 1) /\ s \ {Pick(s)} \in Small(S, m) /\ Pick(s) \in Requests
    <3>1. s \in SUBSET Requests /\ s \in SUBSET S /\ Cardinality(s) <= m
      BY DEF Small
    <3>2. Pick(s) \in s
      BY <2>3, Picked
    <3>3. Cardinality(s) \in Nat /\ Cardinality(s \ {Pick(s)}) = Cardinality(s) - 1
      BY <3>1, <3>2, SetsOfRequests
    <3> QED BY <1>2, <3>1, <3>2, <3>3 DEF Small
  <2>4. \A s \in Small(S, m - 1) : f[s] \in Nat /\ f[s] = SumStep(f, s)
    BY <2>2 DEF IsSum
  <2>5. ASSUME NEW s \in Small(S, m) PROVE SumStep(f, s) \in Nat
    <3>1. CASE s = {}
      BY <3>1 DEF SumStep
    <3>2. CASE s # {}
      <4>1. Records[Pick(s)] \in Nat /\ f[s \ {Pick(s)}] \in Nat
        BY <3>2, <2>3, <2>4, SchedulerAssumption
      <4> QED BY <3>2, <4>1 DEF SumStep
    <3> QED BY <3>1, <3>2
  <2>6. g \in [Small(S, m) -> Nat]
    BY <2>5
  <2>7. ASSUME NEW s \in Small(S, m) PROVE g[s] = SumStep(g, s)
    <3>1. CASE s = {}
      BY <3>1 DEF SumStep
    <3>2. CASE s # {}
      <4> DEFINE u == s \ {Pick(s)}
      <4>1. u \in Small(S, m - 1) /\ u \in Small(S, m)
        BY <3>2, <2>3
      <4>2. g[u] = f[u]
        BY <4>1, <2>4
      <4>3. g[s] = Records[Pick(s)] + f[u]
        BY <3>2 DEF SumStep
      <4> QED BY <3>2, <4>2, <4>3 DEF SumStep
    <3> QED BY <3>1, <3>2
  <2> HIDE DEF g
  <2>8. IsSum(g, S, m)
    BY <2>6, <2>7 DEF IsSum
  <2> QED BY <1>2, <2>8
<1> QED BY <1>3, <1>4

SumsOver(f, S) == \A s \in SUBSET S : f[s] = SumStep(f, s)

(* Any two such sums agree on the sets they both cover.                    *)
LEMMA SumsAgree ==
    ASSUME NEW S \in SUBSET Requests, NEW T \in SUBSET Requests,
           NEW f, SumsOver(f, S), NEW g, SumsOver(g, T), NEW s \in SUBSET (S \cap T)
    PROVE  f[s] = g[s]
<1> DEFINE bad == {Cardinality(u) : u \in {v \in SUBSET (S \cap T) : f[v] # g[v]}}
<1> SUFFICES ASSUME f[s] # g[s] PROVE FALSE
  OBVIOUS
<1>1. PICK m \in bad : \A i \in bad : m <= i
  <2>1. bad \in SUBSET Nat /\ bad # {}
    BY SetsOfRequests
  <2> HIDE DEF bad
  <2> QED BY <2>1, LeastNatural
<1>2. PICK u \in SUBSET (S \cap T) : f[u] # g[u] /\ m = Cardinality(u)
  BY <1>1
<1>3. f[u] = SumStep(f, u) /\ g[u] = SumStep(g, u)
  BY DEF SumsOver
<1>4. u # {}
  BY <1>2, <1>3 DEF SumStep
<1> DEFINE v == u \ {Pick(u)}
<1>5. f[v] # g[v] /\ v \in SUBSET (S \cap T)
  BY <1>2, <1>3, <1>4 DEF SumStep
<1>6. Cardinality(v) \in bad
  BY <1>5
<1>7. Cardinality(v) = m - 1 /\ m \in Nat
  <2>1. u \in SUBSET Requests /\ Pick(u) \in u
    BY <1>4, Picked
  <2> QED BY <2>1, <1>2, SetsOfRequests
<1> HIDE DEF bad
<1> QED BY <1>1, <1>6, <1>7

(* Charge as a recursion over what is left.                                *)
LEMMA ChargeStep ==
    ASSUME NEW S \in SUBSET Requests
    PROVE  /\ Charge(S) \in Nat
           /\ S = {} => Charge(S) = 0
           /\ S # {} => Charge(S) = Records[Pick(S)] + Charge(S \ {Pick(S)})
<1> DEFINE Body(U, f) == [s \in SUBSET U |->
               IF s = {} THEN 0 ELSE Records[CHOOSE x \in s : TRUE] + f[s \ {CHOOSE x \in s : TRUE}]]
           Iter(U) == CHOOSE f : f = Body(U, f)
<1>1. \A U : Charge(U) = Iter(U)[U]
  BY DEF Charge, MapThenSumSet, MapThenFoldSet
<1>2. ASSUME NEW U \in SUBSET Requests
      PROVE  Iter(U) = Body(U, Iter(U)) /\ \E f \in [SUBSET U -> Nat] : f = Iter(U)
  <2>1. Small(U, Cardinality(U)) = SUBSET U /\ Cardinality(U) \in Nat
    <3>1. IsFiniteSet(U) /\ Cardinality(U) \in Nat
      BY SetsOfRequests
    <3>2. \A s \in SUBSET U : Cardinality(s) <= Cardinality(U)
      BY <3>1, FS_Subset
    <3> QED BY <3>1, <3>2 DEF Small
  <2>2. PICK f : IsSum(f, U, Cardinality(U))
    BY <2>1, SumExists
  <2>3. f \in [SUBSET U -> Nat] /\ \A s \in SUBSET U : f[s] = SumStep(f, s)
    BY <2>1, <2>2 DEF IsSum
  <2>4. f = Body(U, f)
    <3>1. \A s \in SUBSET U : f[s] = Body(U, f)[s]
      BY <2>3 DEF SumStep, Pick
    <3>2. f = [s \in SUBSET U |-> f[s]] /\ Body(U, f) = [s \in SUBSET U |-> Body(U, f)[s]]
      BY <2>3
    <3> HIDE DEF Body
    <3> QED BY <3>1, <3>2
  <2>5. Iter(U) = Body(U, Iter(U))
    <3> HIDE DEF Body
    <3> QED BY <2>4, Zenon
  <2> DEFINE h == Iter(U)
  <2>6. h = Body(U, h)
    BY <2>5
  <2> HIDE DEF h
  <2>7. \A s \in SUBSET U : h[s] = SumStep(h, s)
    BY <2>6 DEF SumStep, Pick
  <2>8. ASSUME NEW s \in SUBSET U PROVE h[s] = f[s]
    <3>1. SumsOver(h, U) /\ SumsOver(f, U) /\ s \in SUBSET (U \cap U)
      BY <2>3, <2>7 DEF SumsOver
    <3> QED BY <3>1, SumsAgree
  <2>9. h = f
    BY <2>3, <2>6, <2>8
  <2> QED BY <2>3, <2>5, <2>9 DEF h
<1> HIDE DEF Iter, Body
<1>3. ASSUME NEW U \in SUBSET Requests
      PROVE  \A s \in SUBSET U : Iter(U)[s] = SumStep(Iter(U), s) /\ Iter(U)[s] \in Nat
  <2>1. Iter(U) \in [SUBSET U -> Nat]
    BY <1>2
  <2>2. Iter(U) = Body(U, Iter(U))
    BY <1>2
  <2> QED BY <2>1, <2>2 DEF Body, SumStep, Pick
<1>4. Charge(S) = SumStep(Iter(S), S) /\ Charge(S) \in Nat
  BY <1>1, <1>3
<1>5. ASSUME S # {} PROVE Charge(S \ {Pick(S)}) = Iter(S)[S \ {Pick(S)}]
  <2> DEFINE U == S \ {Pick(S)}
  <2>1. U \in SUBSET Requests /\ U \in SUBSET (U \cap S)
    OBVIOUS
  <2> HIDE DEF U
  <2>2. SumsOver(Iter(U), U) /\ SumsOver(Iter(S), S)
    BY <2>1, <1>3 DEF SumsOver
  <2>3. Iter(U)[U] = Iter(S)[U]
    BY <2>1, <2>2, SumsAgree
  <2> QED BY <1>1, <2>3 DEF U
<1> QED BY <1>4, <1>5 DEF SumStep

(* The sum does not depend on the order.                                   *)
LEMMA ChargeWithout ==
    ASSUME NEW s \in SUBSET Requests, NEW y \in s
    PROVE  Charge(s) = Records[y] + Charge(s \ {y})
<1> DEFINE Wrong(u) == \E z \in u : Charge(u) # Records[z] + Charge(u \ {z})
           bad == {Cardinality(u) : u \in {v \in SUBSET Requests : Wrong(v)}}
<1> SUFFICES ASSUME Wrong(s) PROVE FALSE
  OBVIOUS
<1>1. PICK m \in bad : \A i \in bad : m <= i
  <2>1. bad \in SUBSET Nat /\ bad # {}
    <3> HIDE DEF Wrong
    <3> QED BY SetsOfRequests
  <2> HIDE DEF bad
  <2> QED BY <2>1, LeastNatural
<1>2. PICK u \in SUBSET Requests : Wrong(u) /\ m = Cardinality(u)
  BY <1>1
<1>3. PICK z \in u : Charge(u) # Records[z] + Charge(u \ {z})
  BY <1>2
<1> DEFINE x == Pick(u)
<1>4. x \in u
  BY <1>3, Picked
<1>5. Charge(u) = Records[x] + Charge(u \ {x})
  BY <1>3, ChargeStep
<1> HIDE DEF x
<1>6. \A v \in SUBSET Requests : Cardinality(v) = m - 1 => ~Wrong(v)
  <2>1. m \in Nat
    BY <1>2, SetsOfRequests
  <2> QED BY <2>1, <1>1
<1>7. ~Wrong(u \ {x}) /\ ~Wrong(u \ {z})
  <2>1. u \ {x} \in SUBSET Requests /\ u \ {z} \in SUBSET Requests
    OBVIOUS
  <2>2. Cardinality(u \ {x}) = m - 1 /\ Cardinality(u \ {z}) = m - 1
    BY <1>2, <1>3, <1>4, SetsOfRequests
  <2> HIDE DEF Wrong
  <2> QED BY <1>6, <2>1, <2>2
<1>8. x # z
  BY <1>3, <1>5
<1> DEFINE w == u \ {x, z}
<1>9. (u \ {x}) \ {z} = w /\ (u \ {z}) \ {x} = w
  OBVIOUS
<1> HIDE DEF w, bad
<1>10. Charge(u \ {x}) = Records[z] + Charge(w)
  BY <1>3, <1>7, <1>8, <1>9
<1>11. Charge(u \ {z}) = Records[x] + Charge(w)
  BY <1>4, <1>7, <1>8, <1>9
<1>12. Records[x] \in Nat /\ Records[z] \in Nat /\ Charge(w) \in Nat
  <2>1. w \in SUBSET Requests
    BY DEF w
  <2> QED BY <2>1, <1>3, <1>4, ChargeStep, SchedulerAssumption
<1> QED BY <1>3, <1>5, <1>10, <1>11, <1>12

LEMMA ChargeUnion ==
    ASSUME NEW s \in SUBSET Requests, NEW t \in SUBSET Requests, s \cap t = {}
    PROVE  Charge(s \cup t) = Charge(s) + Charge(t)
<1> DEFINE Wrong(u) == u \cap s = {} /\ Charge(s \cup u) # Charge(s) + Charge(u)
           bad == {Cardinality(u) : u \in {v \in SUBSET Requests : Wrong(v)}}
<1> SUFFICES ASSUME Wrong(t) PROVE FALSE
  OBVIOUS
<1>1. PICK m \in bad : \A i \in bad : m <= i
  <2>1. bad \in SUBSET Nat /\ bad # {}
    <3> HIDE DEF Wrong
    <3> QED BY SetsOfRequests
  <2> HIDE DEF bad
  <2> QED BY <2>1, LeastNatural
<1>2. PICK u \in SUBSET Requests : Wrong(u) /\ m = Cardinality(u)
  BY <1>1
<1>3. u # {}
  <2>1. Charge({}) = 0 /\ Charge(s) \in Nat /\ s \cup {} = s
    BY ChargeStep
  <2> QED BY <1>2, <2>1
<1>4. PICK x : x \in u
  BY <1>3
<1> DEFINE v == u \ {x}
<1>5. v \in SUBSET Requests /\ Cardinality(v) = m - 1 /\ m \in Nat
  BY <1>2, <1>4, SetsOfRequests
<1>6. ~Wrong(v)
  <2> HIDE DEF Wrong, v
  <2> QED BY <1>1, <1>5
<1>7. Charge(u) = Records[x] + Charge(v)
  BY <1>4, ChargeWithout
<1>8. Charge(s \cup u) = Records[x] + Charge(s \cup v)
  <2>1. x \in s \cup u /\ (s \cup u) \ {x} = s \cup v /\ s \cup u \in SUBSET Requests
    BY <1>2, <1>4
  <2> QED BY <2>1, ChargeWithout
<1>9. Charge(s \cup v) = Charge(s) + Charge(v)
  BY <1>2, <1>6
<1>10. Records[x] \in Nat /\ Charge(s) \in Nat /\ Charge(v) \in Nat
  BY <1>4, <1>5, ChargeStep, SchedulerAssumption
<1> QED BY <1>2, <1>7, <1>8, <1>9, <1>10

-----------------------------------------------------------------------------
(* The inductive invariant.                                                *)

(* A request was queued before another one, in the order o.                *)
Before(o, q, r) == \E i, j \in DOMAIN o : i < j /\ o[i] = q /\ o[j] = r
Precedes(o, Q, R) == \A q \in Q, r \in R : Before(o, q, r)
Ordered(o, s) == \A i, j \in DOMAIN s : i < j => Before(o, s[i], s[j])
Once(o) == \A i, j \in DOMAIN o : o[i] = o[j] => i = j

SubmittedIn(bs) == UNION {Elements(bs[b]) : b \in DOMAIN bs}

(* A request is queued once, and passes from the channel to the pending    *)
(* queue, to the batch being submitted, to Raft, without overtaking: every *)
(* stage is in order, and each is ahead of those before it.                *)
Stages(o, chan, pend, sel) ==
    /\ o \in Seq(Requests) /\ Once(o)
    /\ chan \in Seq(Requests) /\ pend \in Seq(Requests) /\ sel \in Seq(Requests)
    /\ Elements(chan) \cup Elements(pend) \cup Elements(sel) \subseteq Elements(o)
    /\ Ordered(o, chan) /\ Ordered(o, pend) /\ Ordered(o, sel)
    /\ Precedes(o, Elements(sel) \cup Elements(pend), Elements(chan))
    /\ Precedes(o, Elements(sel), Elements(pend))

Batches(o, bs) ==
    /\ bs \in Seq(Seq(Requests)) /\ SubmittedIn(bs) \subseteq Elements(o)
    /\ \A b \in DOMAIN bs : Ordered(o, bs[b])
    /\ \A x, y \in DOMAIN bs : x < y => Precedes(o, Elements(bs[x]), Elements(bs[y]))

(* What was submitted is ahead of what was not; a batch that is out is the *)
(* last one.                                                               *)
Ahead(o, chan, pend, sel, step, bs) ==
    /\ Precedes(o, SubmittedIn(bs), Elements(pend)) /\ Precedes(o, SubmittedIn(bs), Elements(chan))
    /\ step = "submit" => Precedes(o, SubmittedIn(bs), Elements(sel))
    /\ step \in {"write", "expired"} => bs # <<>> /\ sel = bs[Len(bs)]

Pipeline(o, chan, pend, sel, step, bs) ==
    /\ Stages(o, chan, pend, sel) /\ Batches(o, bs)
    /\ Ahead(o, chan, pend, sel, step, bs)

PipelineInv == Pipeline(sent, channel, pending, selected, pc, batches)

(* Whoever waits is in a stage, and who is in a stage before Raft has not  *)
(* been answered.                                                          *)
CallerInv ==
    /\ \A r \in Elements(sent) : caller[r] \in {"waiting", "answered", "cancelled"}
    /\ \A r \in Queued : caller[r] \in {"waiting", "cancelled"}
    /\ pc = "submit" => \A r \in Elements(selected) : caller[r] \in {"waiting", "cancelled"}
    /\ pc = "expired" => \A r \in Elements(selected) : caller[r] # "waiting"
    /\ \A r \in Requests : caller[r] = "waiting" => r \in Queued \cup Elements(selected)

(* The counters are the work until the receiver is dropped, and cover it   *)
(* afterwards.                                                             *)
Covers(u, held) ==
    /\ Cardinality(held) <= u.requests /\ u.requests <= QueueRequests
    /\ Charge(held) <= u.records /\ u.records <= QueueRecords
Counts(u, held) == u.requests = Cardinality(held) /\ u.records = Charge(held)

UsageInv == Covers(usage, Held) /\ (pc # "done" => Counts(usage, Held))

(* A worker that ends has closed the admission and emptied its queue.      *)
EndInv ==
    /\ pc \in {"exiting", "done"} => ~usage.accepting /\ pending = <<>>
    /\ pc = "done" => channel = <<>>

(* All work has a permit, and a drained node has given none since.         *)
Working == Held \cup {r \in Requests : caller[r] = "permitted"}

PermitInv ==
    /\ Working \subseteq permits
    /\ phase \in {"draining", "drained", "deadline"} => gate = "closed"
    /\ phase = "drained" => permits = {}

(* Only the shutdown of the node ends the worker or leaves a write behind. *)
ShutdownInv ==
    /\ shutdown = TRUE <=> phase = "stopping"
    /\ pc \in {"closing", "exiting", "done"} => shutdown = TRUE
    /\ shutdown = FALSE => /\ inRaft \subseteq {Len(batches)}
                           /\ inRaft # {} => pc \in {"write", "expired"}

IInv ==
    /\ TypeOK /\ PipelineInv /\ CallerInv /\ UsageInv /\ EndInv /\ PermitInv
    /\ ShutdownInv /\ AnswersAreTrue

-----------------------------------------------------------------------------
(* Facts about the stages.                                                 *)

LEMMA ElementsType ==
    ASSUME NEW s \in Seq(Requests)
    PROVE  Elements(s) \in SUBSET Requests /\ (Elements(s) = {} <=> s = <<>>)
BY DEF Elements

LEMMA FirstOfQueue ==
    ASSUME NEW o, NEW s \in Seq(Requests), s # <<>>
    PROVE  /\ Head(s) \in Requests /\ Tail(s) \in Seq(Requests)
           /\ <<Head(s)>> \in Seq(Requests) /\ Elements(<<Head(s)>>) = {Head(s)}
           /\ Elements(s) = {Head(s)} \cup Elements(Tail(s))
           /\ Ordered(o, s) => Ordered(o, Tail(s)) /\ Precedes(o, {Head(s)}, Elements(Tail(s)))
<1>1. Head(s) \in Requests /\ Tail(s) \in Seq(Requests) /\ <<Head(s)>> \in Seq(Requests)
  OBVIOUS
<1>2. Elements(<<Head(s)>>) = {Head(s)}
  BY DEF Elements
<1>3. /\ Len(s) \in Nat /\ Len(s) > 0 /\ DOMAIN s = 1 .. Len(s) /\ Head(s) = s[1]
      /\ DOMAIN Tail(s) = 1 .. Len(s) - 1
      /\ \A i \in DOMAIN Tail(s) : i + 1 \in DOMAIN s /\ 1 < i + 1 /\ Tail(s)[i] = s[i + 1]
  OBVIOUS
<1>4. \A i \in DOMAIN s : i = 1 \/ (i - 1 \in DOMAIN Tail(s) /\ Tail(s)[i - 1] = s[i])
  BY <1>3
<1>5. Elements(s) = {Head(s)} \cup Elements(Tail(s))
  <2>1. ASSUME NEW i \in DOMAIN s PROVE s[i] \in {Head(s)} \cup Elements(Tail(s))
    BY <1>3, <1>4 DEF Elements
  <2>2. ASSUME NEW i \in DOMAIN Tail(s) PROVE Tail(s)[i] \in Elements(s)
    BY <1>3 DEF Elements
  <2>3. Head(s) \in Elements(s)
    BY <1>3 DEF Elements
  <2> QED BY <2>1, <2>2, <2>3 DEF Elements
<1>6. ASSUME Ordered(o, s) PROVE Ordered(o, Tail(s))
  <2> SUFFICES ASSUME NEW i \in DOMAIN Tail(s), NEW j \in DOMAIN Tail(s), i < j
               PROVE  Before(o, Tail(s)[i], Tail(s)[j])
    BY DEF Ordered
  <2>1. i + 1 \in DOMAIN s /\ j + 1 \in DOMAIN s /\ i + 1 < j + 1
    BY <1>3
  <2>2. Before(o, s[i + 1], s[j + 1])
    BY <1>6, <2>1 DEF Ordered
  <2> QED BY <1>3, <2>2
<1>7. ASSUME Ordered(o, s) PROVE Precedes(o, {Head(s)}, Elements(Tail(s)))
  <2> SUFFICES ASSUME NEW i \in DOMAIN Tail(s) PROVE Before(o, s[1], Tail(s)[i])
    BY <1>3 DEF Precedes, Elements
  <2> QED BY <1>3, <1>7 DEF Ordered
<1> QED BY <1>1, <1>2, <1>5, <1>6, <1>7

LEMMA LastOfQueue ==
    ASSUME NEW o, NEW s \in Seq(Requests), NEW r \in Requests
    PROVE  /\ Append(s, r) \in Seq(Requests) /\ Append(s, r) # <<>>
           /\ Elements(Append(s, r)) = Elements(s) \cup {r}
           /\ Ordered(o, s) /\ Precedes(o, Elements(s), {r}) => Ordered(o, Append(s, r))
<1> DEFINE t == Append(s, r)
<1>1. /\ t \in Seq(Requests) /\ t # <<>> /\ Len(s) \in Nat /\ DOMAIN s = 1 .. Len(s)
      /\ DOMAIN t = 1 .. Len(s) + 1
      /\ t[Len(s) + 1] = r /\ \A i \in DOMAIN s : t[i] = s[i]
  OBVIOUS
<1> HIDE DEF t
<1>2. \A i \in DOMAIN t : i = Len(s) + 1 \/ i \in DOMAIN s
  BY <1>1
<1>3. Len(s) + 1 \in DOMAIN t /\ DOMAIN s \subseteq DOMAIN t
  BY <1>1
<1>4. Elements(t) = Elements(s) \cup {r}
  BY <1>1, <1>2, <1>3 DEF Elements
<1>5. ASSUME Ordered(o, s), Precedes(o, Elements(s), {r}) PROVE Ordered(o, t)
  <2> SUFFICES ASSUME NEW i \in DOMAIN t, NEW j \in DOMAIN t, i < j PROVE Before(o, t[i], t[j])
    BY DEF Ordered
  <2>1. i \in DOMAIN s
    BY <1>1
  <2>2. CASE j \in DOMAIN s
    BY <1>1, <1>5, <2>1, <2>2 DEF Ordered
  <2>3. CASE j = Len(s) + 1
    BY <1>1, <1>5, <2>1, <2>3 DEF Precedes, Elements
  <2> QED BY <1>2, <2>2, <2>3
<1> QED BY <1>1, <1>4, <1>5 DEF t

LEMMA SplitQueue ==
    ASSUME NEW o, NEW s \in Seq(Requests), NEW n \in 1 .. Len(s)
    PROVE  LET first == SubSeq(s, 1, n)
               rest == SubSeq(s, n + 1, Len(s))
           IN  /\ first \in Seq(Requests) /\ rest \in Seq(Requests) /\ first # <<>>
               /\ Elements(s) = Elements(first) \cup Elements(rest)
               /\ Ordered(o, s) => /\ Ordered(o, first) /\ Ordered(o, rest)
                                /\ Precedes(o, Elements(first), Elements(rest))
<1> DEFINE first == SubSeq(s, 1, n)
           rest == SubSeq(s, n + 1, Len(s))
<1>1. /\ Len(s) \in Nat /\ n \in Nat /\ n <= Len(s) /\ n > 0 /\ DOMAIN s = 1 .. Len(s)
      /\ first \in Seq(Requests) /\ rest \in Seq(Requests)
      /\ Len(first) = n /\ Len(rest) = Len(s) - n
      /\ DOMAIN first = 1 .. n /\ DOMAIN rest = 1 .. Len(s) - n
  OBVIOUS
<1>2. \A i \in 1 .. n : first[i] = s[i]
  OBVIOUS
<1>3. ASSUME NEW i \in 1 .. Len(s) - n PROVE rest[i] = s[n + i]
  <2>1. rest[i] = s[(n + 1) + i - 1]
    OBVIOUS
  <2>2. (n + 1) + i - 1 = n + i
    OBVIOUS
  <2> QED BY <2>1, <2>2
<1> HIDE DEF first, rest
<1>4. first # <<>>
  BY <1>1
<1>5. \A i \in DOMAIN first : i \in DOMAIN s /\ first[i] = s[i] /\ i <= n
  BY <1>1, <1>2
<1>6. ASSUME NEW i \in DOMAIN rest PROVE n + i \in DOMAIN s /\ rest[i] = s[n + i] /\ n < n + i
  <2>1. n + i \in DOMAIN s /\ n < n + i
    BY <1>1
  <2> QED BY <2>1, <1>1, <1>3
<1>7. ASSUME NEW i \in DOMAIN s, i \notin DOMAIN first
      PROVE  i - n \in DOMAIN rest /\ rest[i - n] = s[i]
  <2>1. i - n \in DOMAIN rest /\ n + (i - n) = i
    BY <1>1, <1>7
  <2>2. rest[i - n] = s[n + (i - n)]
    BY <2>1, <1>1, <1>3
  <2> QED BY <2>1, <2>2
<1>8. Elements(s) = Elements(first) \cup Elements(rest)
  <2>1. ASSUME NEW i \in DOMAIN s PROVE s[i] \in Elements(first) \cup Elements(rest)
    BY <1>5, <1>7 DEF Elements
  <2>2. ASSUME NEW i \in DOMAIN first PROVE first[i] \in Elements(s)
    BY <1>5 DEF Elements
  <2>3. ASSUME NEW i \in DOMAIN rest PROVE rest[i] \in Elements(s)
    BY <1>6 DEF Elements
  <2> QED BY <2>1, <2>2, <2>3 DEF Elements
<1>9. ASSUME Ordered(o, s) PROVE Ordered(o, first)
  BY <1>5, <1>9 DEF Ordered
<1>10. ASSUME Ordered(o, s) PROVE Ordered(o, rest)
  <2> SUFFICES ASSUME NEW i \in DOMAIN rest, NEW j \in DOMAIN rest, i < j PROVE Before(o, rest[i], rest[j])
    BY DEF Ordered
  <2>1. n + i < n + j
    BY <1>1
  <2>2. Before(o, s[n + i], s[n + j])
    BY <1>6, <1>10, <2>1 DEF Ordered
  <2> QED BY <1>6, <2>2
<1>11. ASSUME Ordered(o, s) PROVE Precedes(o, Elements(first), Elements(rest))
  <2> SUFFICES ASSUME NEW i \in DOMAIN first, NEW j \in DOMAIN rest PROVE Before(o, first[i], rest[j])
    BY DEF Precedes, Elements
  <2>1. i < n + j
    BY <1>1
  <2> QED BY <1>5, <1>6, <1>11, <2>1 DEF Ordered
<1> QED BY <1>1, <1>4, <1>8, <1>9, <1>10, <1>11 DEF first, rest

LEMMA LiveQueue ==
    ASSUME NEW o, NEW s \in Seq(Requests)
    PROVE  /\ Live(s) \in Seq(Requests)
           /\ Elements(Live(s)) = Elements(s) \ Cancelled(s)
           /\ Cancelled(s) \in SUBSET Requests /\ Cancelled(s) \subseteq Elements(s)
           /\ Ordered(o, s) => Ordered(o, Live(s))
<1> DEFINE t == Live(s)
<1>1. /\ t \in Seq(Requests) /\ Elements(t) = Elements(s) \ Cancelled(s)
      /\ \A i, j \in DOMAIN t : i < j =>
            \E a, b \in DOMAIN s : a < b /\ t[i] = s[a] /\ t[j] = s[b]
  BY LiveKeepsOrder
<1> HIDE DEF t
<1>2. ASSUME Ordered(o, s) PROVE Ordered(o, t)
  <2> SUFFICES ASSUME NEW i \in DOMAIN t, NEW j \in DOMAIN t, i < j PROVE Before(o, t[i], t[j])
    BY DEF Ordered
  <2>1. PICK a \in DOMAIN s, b \in DOMAIN s : a < b /\ t[i] = s[a] /\ t[j] = s[b]
    BY <1>1
  <2> QED BY <1>2, <2>1 DEF Ordered
<1>3. Cancelled(s) \in SUBSET Requests /\ Cancelled(s) \subseteq Elements(s)
  BY ElementsType DEF Cancelled
<1> QED BY <1>1, <1>2, <1>3 DEF t

(* A request is not before itself: the stages have no request in common.   *)
LEMMA StagesApart ==
    ASSUME NEW o \in Seq(Requests), Once(o), NEW Q, NEW R, Precedes(o, Q, R)
    PROVE  Q \cap R = {}
<1> SUFFICES ASSUME NEW r \in Q \cap R PROVE FALSE
  OBVIOUS
<1>1. Before(o, r, r)
  BY DEF Precedes
<1>2. PICK i \in DOMAIN o, j \in DOMAIN o : i < j /\ o[i] = r /\ o[j] = r
  BY <1>1 DEF Before
<1>3. i = j
  BY <1>2 DEF Once
<1> QED BY <1>2, <1>3

LEMMA PrecedesParts ==
    ASSUME NEW o, NEW Q, NEW R, Precedes(o, Q, R), NEW P \in SUBSET Q, NEW S \in SUBSET R
    PROVE  Precedes(o, P, S)
BY DEF Precedes

-----------------------------------------------------------------------------
(* Type correctness.                                                       *)

Usage == [accepting : BOOLEAN, requests : Nat, records : Nat]

LEMMA ReleasedIs ==
    ASSUME usage \in Usage, NEW rs \in SUBSET Requests
    PROVE  /\ Released(rs) \in Usage
           /\ [Released(rs) EXCEPT !.accepting = FALSE] \in Usage
           /\ Released(rs).accepting = usage.accepting
           /\ Released(rs).requests = Monus(usage.requests, Cardinality(rs))
           /\ Released(rs).records = Monus(usage.records, Charge(rs))
           /\ [Released(rs) EXCEPT !.accepting = FALSE].accepting = FALSE
           /\ [Released(rs) EXCEPT !.accepting = FALSE].requests = Released(rs).requests
           /\ [Released(rs) EXCEPT !.accepting = FALSE].records = Released(rs).records
<1>1. Cardinality(rs) \in Nat /\ Charge(rs) \in Nat
  BY SetsOfRequests, ChargeStep
<1>2. Monus(usage.requests, Cardinality(rs)) \in Nat /\ Monus(usage.records, Charge(rs)) \in Nat
  BY <1>1 DEF Usage, Monus
<1> QED BY <1>2 DEF Usage, Released

(* The callers and their answers.                                          *)
AnsweredOK ==
    /\ caller \in [Requests -> Callers] /\ answer \in [Requests -> Answers \cup {None}]
    /\ \A r \in Requests : caller[r] = "answered" <=> answer[r] # None

LEMMA ReplyType ==
    ASSUME AnsweredOK, NEW rs, NEW w \in Answers, Reply(rs, w)
    PROVE  AnsweredOK'
BY NoneAssumption DEF AnsweredOK, Reply, Callers

LEMMA ReturnType ==
    ASSUME AnsweredOK, NEW r \in Requests, NEW w \in Answers, Return(r, w)
    PROVE  AnsweredOK'
BY NoneAssumption DEF AnsweredOK, Return, Callers

LEMMA MoveType ==
    ASSUME AnsweredOK, NEW r \in Requests, caller[r] # "answered", NEW c \in Callers \ {"answered"},
           caller' = [caller EXCEPT ![r] = c], UNCHANGED answer
    PROVE  AnsweredOK'
BY DEF AnsweredOK

(* The rest of the type invariant.                                         *)
GateOK == gate \in {"open", "closed"} /\ permits \subseteq Requests /\ phase \in Phases
StagesOK ==
    /\ channel \in Seq(Requests) /\ pending \in Seq(Requests) /\ selected \in Seq(Requests)
    /\ pc \in Steps
    /\ selected # <<>> <=> pc \in {"submit", "write", "expired"}
RaftOK ==
    /\ sent \in Seq(Requests) /\ batches \in Seq(Seq(Requests))
    /\ inRaft \subseteq DOMAIN batches /\ committed \subseteq DOMAIN batches

LEMMA TypeSplit == TypeOK <=> GateOK /\ AnsweredOK /\ usage \in Usage /\ StagesOK /\ RaftOK
                             /\ shutdown \in BOOLEAN
BY DEF TypeOK, GateOK, AnsweredOK, Usage, StagesOK, RaftOK

LEMMA TypeSplitNext ==
    ASSUME GateOK', AnsweredOK', usage' \in Usage, StagesOK', RaftOK', shutdown' \in BOOLEAN
    PROVE  TypeOK'
BY DEF TypeOK, GateOK, AnsweredOK, Usage, StagesOK, RaftOK

LEMMA TypeStep == TypeOK /\ [Next]_vars => TypeOK'
<1> SUFFICES ASSUME TypeOK, [Next]_vars PROVE TypeOK'
  OBVIOUS
<1> USE DEF callers, worker, raft
<1>0. GateOK /\ AnsweredOK /\ usage \in Usage /\ StagesOK /\ RaftOK /\ shutdown \in BOOLEAN
  BY TypeSplit
<1>1. ASSUME NEW r \in Requests, TryAdmitMutation(r) PROVE TypeOK'
  <2>1. GateOK'
    BY <1>0, <1>1 DEF TryAdmitMutation, Return, GateOK
  <2>2. AnsweredOK'
    BY <1>0, <1>1, ReturnType, MoveType DEF TryAdmitMutation, Answers, Definite, Callers
  <2> QED BY <1>0, <1>1, <2>1, <2>2, TypeSplitNext DEF TryAdmitMutation, StagesOK, RaftOK, Usage
<1>2. ASSUME NEW r \in Requests, Refuse(r) PROVE TypeOK'
  <2>1. GateOK'
    BY <1>0, <1>2 DEF Refuse, Return, GateOK
  <2>2. AnsweredOK'
    BY <1>0, <1>2, ReturnType DEF Refuse, Answers, Definite
  <2> QED BY <1>0, <1>2, <2>1, <2>2, TypeSplitNext DEF Refuse, StagesOK, RaftOK, Usage
<1>3. ASSUME NEW r \in Requests, Reserve(r) PROVE TypeOK'
  <2>1. GateOK'
    BY <1>0, <1>3 DEF Reserve, Return, GateOK
  <2>2. AnsweredOK'
    BY <1>0, <1>3, ReturnType, MoveType DEF Reserve, Answers, Definite, Callers
  <2>3. usage' \in Usage
    <3>1. Records[r] \in Nat
      BY SchedulerAssumption
    <3>2. UNCHANGED usage \/ usage' = [usage EXCEPT !.requests = @ + 1, !.records = @ + Records[r]]
      BY <1>3, Zenon DEF Reserve
    <3>3. usage \in Usage
      BY <1>0
    <3>4. usage.requests + 1 \in Nat /\ usage.records + Records[r] \in Nat
      BY <3>1, <3>3 DEF Usage
    <3>5. [usage EXCEPT !.requests = @ + 1, !.records = @ + Records[r]] \in Usage
      BY <3>3, <3>4 DEF Usage
    <3> QED BY <3>2, <3>3, <3>5
  <2> QED BY <1>0, <1>3, <2>1, <2>2, <2>3, TypeSplitNext DEF Reserve, StagesOK, RaftOK
<1>4. ASSUME NEW r \in Requests, Send(r) PROVE TypeOK'
  <2>1. GateOK'
    BY <1>0, <1>4 DEF Send, Return, GateOK
  <2>2. AnsweredOK'
    BY <1>0, <1>4, ReturnType, MoveType DEF Send, Answers, Definite, Callers
  <2>3. usage' \in Usage
    <3>1. {r} \in SUBSET Requests
      OBVIOUS
    <3> QED BY <1>0, <1>4, <3>1, ReleasedIs DEF Send
  <2>4. StagesOK' /\ RaftOK'
    <3>1. \/ channel' = channel /\ sent' = sent
          \/ channel' = Append(channel, r) /\ sent' = Append(sent, r)
      BY <1>4 DEF Send
    <3>2. channel' \in Seq(Requests) /\ sent' \in Seq(Requests)
      <4>1. channel \in Seq(Requests) /\ sent \in Seq(Requests)
        BY <1>0 DEF StagesOK, RaftOK
      <4>2. Append(channel, r) \in Seq(Requests) /\ Append(sent, r) \in Seq(Requests)
        BY <4>1
      <4> QED BY <3>1, <4>1, <4>2
    <3>3. UNCHANGED <<pending, selected, pc, batches, inRaft, committed>>
      BY <1>4 DEF Send
    <3> QED BY <1>0, <3>2, <3>3 DEF StagesOK, RaftOK
  <2> QED BY <1>0, <1>4, <2>1, <2>2, <2>3, <2>4, TypeSplitNext DEF Send
<1>5. ASSUME NEW r \in Requests, Cancel(r) PROVE TypeOK'
  <2>1. GateOK'
    BY <1>0, <1>5 DEF Cancel, GateOK
  <2>2. AnsweredOK'
    BY <1>0, <1>5, MoveType DEF Cancel, Callers
  <2> QED BY <1>0, <1>5, <2>1, <2>2, TypeSplitNext DEF Cancel, StagesOK, RaftOK, Usage
<1>6. CASE BeginIteration
  BY <1>0, <1>6, TypeSplitNext DEF BeginIteration, GateOK, AnsweredOK, StagesOK, RaftOK, Usage, Steps
<1>7. ASSUME NEW s \in Seq(Requests), Discard(s) PROVE usage' \in Usage /\ permits' \subseteq permits
  <2>1. Cancelled(s) \in SUBSET Requests
    BY LiveQueue
  <2> QED BY <1>0, <1>7, <2>1, ReleasedIs DEF Discard
<1>8. CASE ReceiveFirst
  <2>1. <<Head(channel)>> \in Seq(Requests) /\ Tail(channel) \in Seq(Requests)
    BY <1>0, <1>8, FirstOfQueue DEF ReceiveFirst, StagesOK
  <2>2. Live(<<Head(channel)>>) \in Seq(Requests) /\ Discard(<<Head(channel)>>)
    BY <1>8, <2>1, LiveQueue DEF ReceiveFirst
  <2>3. StagesOK'
    BY <1>0, <1>8, <2>1, <2>2 DEF ReceiveFirst, StagesOK, Steps
  <2>4. usage' \in Usage /\ GateOK'
    BY <1>0, <1>7, <1>8, <2>1, <2>2 DEF ReceiveFirst, GateOK
  <2> QED BY <1>0, <1>8, <2>3, <2>4, TypeSplitNext DEF ReceiveFirst, AnsweredOK, RaftOK
<1>9. CASE ObserveShutdown
  BY <1>0, <1>9, TypeSplitNext DEF ObserveShutdown, GateOK, AnsweredOK, StagesOK, RaftOK, Usage, Steps
<1>10. CASE DiscardAll
  <2>1. usage' \in Usage /\ GateOK'
    BY <1>0, <1>7, <1>10 DEF DiscardAll, GateOK, StagesOK
  <2>2. StagesOK'
    BY <1>0, <1>10 DEF DiscardAll, StagesOK, Steps
  <2> QED BY <1>0, <1>10, <2>1, <2>2, TypeSplitNext DEF DiscardAll, AnsweredOK, RaftOK
<1>11. CASE Coalesce
  <2>1. usage' \in Usage /\ GateOK'
    BY <1>0, <1>7, <1>11 DEF Coalesce, GateOK, StagesOK
  <2>2. Live(pending) \in Seq(Requests)
    BY <1>0, LiveQueue DEF StagesOK
  <2>3. channel # <<>> => Head(channel) \in Requests /\ Tail(channel) \in Seq(Requests)
    BY <1>0, FirstOfQueue DEF StagesOK
  <2>4. StagesOK'
    <3>1. selected' = selected /\ pc = "iterate"
      BY <1>11 DEF Coalesce
    <3>2. CASE channel # <<>> /\ pending' = Append(Live(pending), Head(channel))
               /\ channel' = Tail(channel) /\ pc' = "loop"
      BY <1>0, <2>2, <2>3, <3>1, <3>2 DEF StagesOK, Steps
    <3>3. CASE pending' = Live(pending) /\ pc' = "closing" /\ UNCHANGED channel
      BY <1>0, <2>2, <3>1, <3>3 DEF StagesOK, Steps
    <3> QED BY <1>11, <3>2, <3>3 DEF Coalesce
  <2> QED BY <1>0, <1>11, <2>1, <2>4, TypeSplitNext DEF Coalesce, AnsweredOK, RaftOK
<1>12. CASE TakeBatch
  <2> DEFINE kept == Live(pending)
             n == BatchLength(kept)
  <2>1. usage' \in Usage /\ GateOK'
    BY <1>0, <1>7, <1>12 DEF TakeBatch, GateOK, StagesOK
  <2>2. kept \in Seq(Requests) /\ kept # <<>>
    BY <1>0, <1>12, LiveQueue DEF StagesOK, TakeBatch
  <2>3. n \in 1 .. Len(kept)
    BY <2>2, BatchIsAPrefix
  <2>4. selected' = SubSeq(kept, 1, n) /\ pending' = SubSeq(kept, n + 1, Len(kept)) /\ pc' = "submit"
        /\ UNCHANGED <<channel, shutdown>>
    BY <1>12 DEF TakeBatch
  <2> HIDE DEF kept, n
  <2>5. selected' \in Seq(Requests) /\ selected' # <<>> /\ pending' \in Seq(Requests)
    BY <2>2, <2>3, <2>4, SplitQueue
  <2>6. StagesOK'
    BY <1>0, <2>4, <2>5 DEF StagesOK, Steps
  <2> QED BY <1>0, <1>12, <2>1, <2>6, TypeSplitNext DEF TakeBatch, AnsweredOK, RaftOK
<1>13. CASE Submit
  <2>1. usage' \in Usage /\ GateOK'
    BY <1>0, <1>7, <1>13 DEF Submit, GateOK, StagesOK
  <2>2. Live(selected) \in Seq(Requests)
    BY <1>0, LiveQueue DEF StagesOK
  <2>3. StagesOK'
    BY <1>0, <1>13, <2>2 DEF Submit, StagesOK, Steps
  <2>4. RaftOK'
    <3>1. CASE Live(selected) = <<>>
      BY <1>0, <1>13, <3>1 DEF Submit, RaftOK
    <3>2. CASE Live(selected) # <<>>
      <4>1. batches' = Append(batches, Live(selected)) /\ inRaft' = inRaft \cup {Len(batches) + 1}
            /\ UNCHANGED <<sent, committed>>
        BY <1>13, <3>2 DEF Submit
      <4>2. batches' \in Seq(Seq(Requests)) /\ DOMAIN batches' = DOMAIN batches \cup {Len(batches) + 1}
        BY <1>0, <2>2, <4>1 DEF RaftOK
      <4> QED BY <1>0, <4>1, <4>2 DEF RaftOK
    <3> QED BY <3>1, <3>2
  <2> QED BY <1>0, <1>13, <2>1, <2>3, <2>4, TypeSplitNext DEF Submit, AnsweredOK
<1>14. ASSUME FinishBatch, UNCHANGED <<gate, phase, channel, pending>> PROVE usage' \in Usage /\ GateOK' /\ StagesOK'
  <2>1. Elements(selected) \in SUBSET Requests
    BY <1>0, ElementsType DEF StagesOK
  <2>2. usage' \in Usage
    BY <1>0, <1>14, <2>1, ReleasedIs DEF FinishBatch
  <2>3. GateOK'
    BY <1>0, <1>14 DEF FinishBatch, GateOK
  <2>4. StagesOK'
    BY <1>0, <1>14 DEF FinishBatch, StagesOK, Steps
  <2> QED BY <2>2, <2>3, <2>4
<1>15. CASE WriteReturned
  <2>1. usage' \in Usage /\ GateOK' /\ StagesOK'
    BY <1>14, <1>15 DEF WriteReturned
  <2>2. AnsweredOK'
    BY <1>0, <1>15, ReplyType DEF WriteReturned, Answers
  <2> QED BY <1>0, <1>15, <2>1, <2>2, TypeSplitNext DEF WriteReturned, RaftOK
<1>16. CASE Expire
  <2>1. AnsweredOK'
    BY <1>0, <1>16, ReplyType DEF Expire, Answers
  <2>2. StagesOK'
    BY <1>0, <1>16 DEF Expire, StagesOK, Steps
  <2> QED BY <1>0, <1>16, <2>1, <2>2, TypeSplitNext DEF Expire, GateOK, RaftOK, Usage
<1>17. CASE ExpiredWriteReturned
  <2>1. usage' \in Usage /\ GateOK' /\ StagesOK'
    BY <1>14, <1>17 DEF ExpiredWriteReturned
  <2> QED BY <1>0, <1>17, <2>1, TypeSplitNext DEF ExpiredWriteReturned, RaftOK, AnsweredOK
<1>18. CASE AbandonWrite
  <2>1. usage' \in Usage /\ GateOK' /\ StagesOK'
    BY <1>14, <1>18 DEF AbandonWrite
  <2>2. AnsweredOK'
    BY <1>0, <1>18, ReplyType DEF AbandonWrite, Answers
  <2> QED BY <1>0, <1>18, <2>1, <2>2, TypeSplitNext DEF AbandonWrite, RaftOK
<1>19. CASE ClosePending
  <2>1. Elements(pending) \in SUBSET Requests
    BY <1>0, ElementsType DEF StagesOK
  <2>2. usage' \in Usage /\ GateOK' /\ StagesOK'
    BY <1>0, <1>19, <2>1, ReleasedIs DEF ClosePending, GateOK, StagesOK
  <2>3. AnsweredOK'
    BY <1>0, <1>19, ReplyType DEF ClosePending, Answers, Definite
  <2> QED BY <1>0, <1>19, <2>2, <2>3, TypeSplitNext DEF ClosePending, RaftOK
<1>20. CASE CloseChannel
  <2>1. CASE channel # <<>>
    <3>1. {Head(channel)} \in SUBSET Requests /\ Tail(channel) \in Seq(Requests)
      BY <1>0, <2>1, FirstOfQueue DEF StagesOK
    <3>2. usage' \in Usage /\ GateOK' /\ StagesOK'
      BY <1>0, <1>20, <2>1, <3>1, ReleasedIs DEF CloseChannel, GateOK, StagesOK
    <3>3. AnsweredOK'
      BY <1>0, <1>20, <2>1, ReplyType DEF CloseChannel, Answers, Definite
    <3> QED BY <1>0, <1>20, <3>2, <3>3, TypeSplitNext DEF CloseChannel, RaftOK
  <2>2. CASE channel = <<>>
    BY <1>0, <1>20, <2>2, TypeSplitNext
       DEF CloseChannel, GateOK, AnsweredOK, StagesOK, RaftOK, Usage, Steps
  <2> QED BY <2>1, <2>2
<1>21. CASE DropReceiver
  <2>1. AnsweredOK'
    BY <1>0, <1>21, ReplyType DEF DropReceiver, Answers
  <2>2. StagesOK' /\ GateOK'
    BY <1>0, <1>21 DEF DropReceiver, StagesOK, Steps, GateOK
  <2> QED BY <1>0, <1>21, <2>1, <2>2, TypeSplitNext DEF DropReceiver, RaftOK, Usage
<1>22. ASSUME NEW b \in DOMAIN batches, Commit(b) PROVE TypeOK'
  BY <1>0, <1>22, TypeSplitNext DEF Commit, GateOK, AnsweredOK, StagesOK, RaftOK, Usage
<1>23. CASE StartDrain \/ FinishDrain
  BY <1>0, <1>23, TypeSplitNext
     DEF StartDrain, FinishDrain, GateOK, AnsweredOK, StagesOK, RaftOK, Usage, Phases
<1>24. CASE StopPublisher
  <2>1. usage' \in Usage
    BY <1>0, <1>24 DEF StopPublisher, Usage
  <2> QED BY <1>0, <1>24, <2>1, TypeSplitNext
             DEF StopPublisher, GateOK, AnsweredOK, StagesOK, RaftOK, Phases
<1>25. CASE UNCHANGED vars
  BY <1>0, <1>25, TypeSplitNext DEF vars, GateOK, AnsweredOK, StagesOK, RaftOK, Usage
<1> QED BY <1>1, <1>2, <1>3, <1>4, <1>5, <1>6, <1>8, <1>9, <1>10, <1>11, <1>12, <1>13, <1>15, <1>16,
          <1>17, <1>18, <1>19, <1>20, <1>21, <1>22, <1>23, <1>24, <1>25 DEF Next, WorkerSteps, WriteReturns
-----------------------------------------------------------------------------
(* The moves of the pipeline.                                              *)

(* Requests leave a stage, and nothing else happens.                       *)
LEMMA Shrink ==
    ASSUME NEW o, NEW chan, NEW pend, NEW sel, NEW step, NEW bs,
           Pipeline(o, chan, pend, sel, step, bs),
           NEW chan2 \in Seq(Requests), NEW pend2 \in Seq(Requests), NEW sel2 \in Seq(Requests),
           NEW step2,
           Ordered(o, chan2), Ordered(o, pend2), Ordered(o, sel2),
           Elements(chan2) \subseteq Elements(chan), Elements(pend2) \subseteq Elements(pend),
           Elements(sel2) \subseteq Elements(sel),
           step2 = "submit" => step = "submit",
           step2 \in {"write", "expired"} => step \in {"write", "expired"} /\ sel2 = sel
    PROVE  Pipeline(o, chan2, pend2, sel2, step2, bs)
<1>1. Stages(o, chan, pend, sel) /\ Batches(o, bs) /\ Ahead(o, chan, pend, sel, step, bs)
  BY DEF Pipeline
<1>2. /\ Precedes(o, Elements(sel2) \cup Elements(pend2), Elements(chan2))
      /\ Precedes(o, Elements(sel2), Elements(pend2))
  BY <1>1 DEF Stages, Precedes
<1>3. Stages(o, chan2, pend2, sel2)
  BY <1>1, <1>2 DEF Stages
<1>4. /\ Precedes(o, SubmittedIn(bs), Elements(pend2)) /\ Precedes(o, SubmittedIn(bs), Elements(chan2))
      /\ step2 = "submit" => Precedes(o, SubmittedIn(bs), Elements(sel2))
  BY <1>1 DEF Ahead, Precedes
<1>5. Ahead(o, chan2, pend2, sel2, step2, bs)
  BY <1>1, <1>4 DEF Ahead
<1> QED BY <1>1, <1>3, <1>5 DEF Pipeline

(* try_send: the new request is last in the order.                         *)
LEMMA Enqueue ==
    ASSUME NEW o, NEW chan, NEW pend, NEW sel, NEW step, NEW bs,
           Pipeline(o, chan, pend, sel, step, bs),
           NEW r \in Requests, r \notin Elements(o)
    PROVE  Pipeline(Append(o, r), Append(chan, r), pend, sel, step, bs)
<1> DEFINE p == Append(o, r)
           c == Append(chan, r)
<1>1. Stages(o, chan, pend, sel) /\ Batches(o, bs) /\ Ahead(o, chan, pend, sel, step, bs)
  BY DEF Pipeline
<1>2. o \in Seq(Requests) /\ chan \in Seq(Requests) /\ Once(o)
  BY <1>1 DEF Stages
<1>3. /\ p \in Seq(Requests) /\ DOMAIN o = 1 .. Len(o) /\ Len(o) \in Nat
      /\ DOMAIN p = 1 .. Len(o) + 1 /\ p[Len(o) + 1] = r /\ \A i \in DOMAIN o : p[i] = o[i]
  BY <1>2
<1>4. Elements(p) = Elements(o) \cup {r}
  BY <1>2, LastOfQueue
<1> HIDE DEF p
<1>5. Once(p)
  <2> SUFFICES ASSUME NEW i \in DOMAIN p, NEW j \in DOMAIN p, p[i] = p[j] PROVE i = j
    BY DEF Once
  <2>1. (i \in DOMAIN o \/ i = Len(o) + 1) /\ (j \in DOMAIN o \/ j = Len(o) + 1)
    BY <1>3
  <2> QED BY <1>2, <1>3, <2>1 DEF Once, Elements
<1>6. ASSUME NEW q, NEW s, Before(o, q, s) PROVE Before(p, q, s)
  BY <1>3, <1>6 DEF Before
<1>7. ASSUME NEW q \in Elements(o) PROVE Before(p, q, r)
  <2>1. PICK i \in DOMAIN o : o[i] = q
    BY DEF Elements
  <2>2. i \in DOMAIN p /\ i < Len(o) + 1 /\ Len(o) + 1 \in DOMAIN p /\ p[i] = q
    BY <1>3, <2>1
  <2> QED BY <1>3, <2>2 DEF Before
<1>8. \A Q, R : Precedes(o, Q, R) => Precedes(p, Q, R)
  BY <1>6 DEF Precedes
<1>9. \A s : Ordered(o, s) => Ordered(p, s)
  BY <1>6 DEF Ordered
<1>10. \A Q : Q \subseteq Elements(o) => Precedes(p, Q, {r})
  BY <1>7 DEF Precedes
<1>11. Elements(c) = Elements(chan) \cup {r} /\ c \in Seq(Requests)
  BY <1>2, LastOfQueue
<1>12. Ordered(p, c)
  <2>1. Ordered(p, chan) /\ Precedes(p, Elements(chan), {r})
    BY <1>1, <1>9, <1>10 DEF Stages
  <2> QED BY <1>2, <2>1, LastOfQueue
<1> HIDE DEF c
<1>13. ASSUME NEW Q, Q \subseteq Elements(o), Precedes(o, Q, Elements(chan))
       PROVE  Precedes(p, Q, Elements(c))
  BY <1>8, <1>10, <1>11, <1>13 DEF Precedes
<1>14. Stages(p, c, pend, sel)
  <2>1. Precedes(p, Elements(sel) \cup Elements(pend), Elements(c))
    BY <1>1, <1>13 DEF Stages
  <2>2. Precedes(p, Elements(sel), Elements(pend)) /\ Ordered(p, pend) /\ Ordered(p, sel)
    BY <1>1, <1>8, <1>9 DEF Stages
  <2> QED BY <1>1, <1>3, <1>4, <1>5, <1>11, <1>12, <2>1, <2>2 DEF Stages
<1>15. Batches(p, bs)
  BY <1>1, <1>4, <1>8, <1>9 DEF Batches
<1>16. Ahead(p, c, pend, sel, step, bs)
  <2>1. Precedes(p, SubmittedIn(bs), Elements(c))
    BY <1>1, <1>13 DEF Ahead, Batches
  <2> QED BY <1>1, <1>8, <2>1 DEF Ahead
<1> QED BY <1>14, <1>15, <1>16 DEF Pipeline, p, c

(* A request is received behind the pending ones.                          *)
LEMMA Pull ==
    ASSUME NEW o, NEW chan, NEW pend, NEW sel, NEW step, NEW bs,
           Pipeline(o, chan, pend, sel, step, bs), chan # <<>>
    PROVE  Pipeline(o, Tail(chan), Append(pend, Head(chan)), sel, step, bs)
<1> DEFINE c == Tail(chan)
           h == Head(chan)
           p == Append(pend, h)
<1>1. Stages(o, chan, pend, sel) /\ Batches(o, bs) /\ Ahead(o, chan, pend, sel, step, bs)
  BY DEF Pipeline
<1>2. o \in Seq(Requests) /\ chan \in Seq(Requests) /\ pend \in Seq(Requests) /\ sel \in Seq(Requests)
  BY <1>1 DEF Stages
<1>3. /\ h \in Requests /\ c \in Seq(Requests) /\ Elements(chan) = {h} \cup Elements(c)
      /\ Ordered(o, c) /\ Precedes(o, {h}, Elements(c))
  BY <1>1, <1>2, FirstOfQueue DEF Stages
<1> HIDE DEF c, h
<1>4. p \in Seq(Requests) /\ Elements(p) = Elements(pend) \cup {h}
  BY <1>2, <1>3, LastOfQueue
<1>5. Ordered(o, p)
  <2>1. Ordered(o, pend) /\ Precedes(o, Elements(pend), {h})
    BY <1>1, <1>3 DEF Stages, Precedes
  <2> QED BY <1>2, <1>3, <2>1, LastOfQueue
<1> HIDE DEF p
<1>6. /\ Precedes(o, Elements(sel) \cup Elements(p), Elements(c))
      /\ Precedes(o, Elements(sel), Elements(p))
  BY <1>1, <1>3, <1>4 DEF Stages, Precedes
<1>7. Stages(o, c, p, sel)
  BY <1>1, <1>3, <1>4, <1>5, <1>6 DEF Stages
<1>8. Precedes(o, SubmittedIn(bs), Elements(p)) /\ Precedes(o, SubmittedIn(bs), Elements(c))
  BY <1>1, <1>3, <1>4 DEF Ahead, Precedes
<1>9. Ahead(o, c, p, sel, step, bs)
  BY <1>1, <1>8 DEF Ahead
<1> QED BY <1>1, <1>7, <1>9 DEF Pipeline, p, c, h

(* take_batch: the first n pending requests are the next batch.            *)
LEMMA Take ==
    ASSUME NEW o, NEW chan, NEW pend, NEW step, NEW bs,
           Pipeline(o, chan, pend, <<>>, step, bs), NEW n \in 1 .. Len(pend)
    PROVE  Pipeline(o, chan, SubSeq(pend, n + 1, Len(pend)), SubSeq(pend, 1, n), "submit", bs)
<1> DEFINE first == SubSeq(pend, 1, n)
           rest == SubSeq(pend, n + 1, Len(pend))
<1>1. Stages(o, chan, pend, <<>>) /\ Batches(o, bs) /\ Ahead(o, chan, pend, <<>>, step, bs)
  BY DEF Pipeline
<1>2. pend \in Seq(Requests) /\ Ordered(o, pend)
  BY <1>1 DEF Stages
<1>3. /\ first \in Seq(Requests) /\ rest \in Seq(Requests)
      /\ Elements(pend) = Elements(first) \cup Elements(rest)
      /\ Ordered(o, first) /\ Ordered(o, rest) /\ Precedes(o, Elements(first), Elements(rest))
  BY <1>2, SplitQueue
<1> HIDE DEF first, rest
<1>4. Precedes(o, Elements(first) \cup Elements(rest), Elements(chan))
  BY <1>1, <1>3 DEF Stages, Precedes
<1>5. Stages(o, chan, rest, first)
  BY <1>1, <1>3, <1>4 DEF Stages
<1>6. Precedes(o, SubmittedIn(bs), Elements(first)) /\ Precedes(o, SubmittedIn(bs), Elements(rest))
  BY <1>1, <1>3 DEF Ahead, Precedes
<1>7. Ahead(o, chan, rest, first, "submit", bs)
  BY <1>1, <1>6 DEF Ahead
<1> QED BY <1>1, <1>5, <1>7 DEF Pipeline, first, rest

LEMMA AppendFacts ==
    ASSUME NEW T, NEW s \in Seq(T), NEW e \in T
    PROVE  LET t == Append(s, e) IN
           /\ t \in Seq(T) /\ t # <<>> /\ Len(s) \in Nat /\ DOMAIN s = 1 .. Len(s)
           /\ Len(t) = Len(s) + 1 /\ DOMAIN t = 1 .. Len(s) + 1 /\ t[Len(s) + 1] = e
           /\ \A i \in DOMAIN s : t[i] = s[i]
OBVIOUS

(* client_write: the batch is the last one submitted.                      *)
LEMMA Push ==
    ASSUME NEW o, NEW chan, NEW pend, NEW sel, NEW bs,
           Pipeline(o, chan, pend, sel, "submit", bs)
    PROVE  /\ Pipeline(o, chan, pend, sel, "write", Append(bs, sel))
           /\ SubmittedIn(Append(bs, sel)) = SubmittedIn(bs) \cup Elements(sel)
<1> DEFINE bt == Append(bs, sel)
<1>1. Stages(o, chan, pend, sel) /\ Batches(o, bs) /\ Ahead(o, chan, pend, sel, "submit", bs)
  BY DEF Pipeline
<1>2. bs \in Seq(Seq(Requests)) /\ sel \in Seq(Requests)
  BY <1>1 DEF Stages, Batches
<1>3. /\ bt \in Seq(Seq(Requests)) /\ bt # <<>> /\ Len(bs) \in Nat /\ DOMAIN bs = 1 .. Len(bs)
      /\ Len(bt) = Len(bs) + 1 /\ DOMAIN bt = 1 .. Len(bs) + 1 /\ bt[Len(bs) + 1] = sel
      /\ \A b \in DOMAIN bs : bt[b] = bs[b]
  BY <1>2, AppendFacts
<1> HIDE DEF bt
<1>4. DOMAIN bt = DOMAIN bs \cup {Len(bs) + 1}
  BY <1>3
<1>5. SubmittedIn(bt) = SubmittedIn(bs) \cup Elements(sel)
  BY <1>3, <1>4 DEF SubmittedIn
<1>6. Precedes(o, SubmittedIn(bs), Elements(sel))
  BY <1>1 DEF Ahead
<1>7. Batches(o, bt)
  <2>1. SubmittedIn(bt) \subseteq Elements(o)
    BY <1>1, <1>5 DEF Batches, Stages
  <2>2. ASSUME NEW b \in DOMAIN bt PROVE Ordered(o, bt[b])
    BY <1>1, <1>3, <1>4 DEF Batches, Stages
  <2>3. ASSUME NEW x \in DOMAIN bt, NEW y \in DOMAIN bt, x < y
        PROVE  Precedes(o, Elements(bt[x]), Elements(bt[y]))
    <3>1. x \in DOMAIN bs
      BY <1>3, <2>3
    <3>2. CASE y \in DOMAIN bs
      BY <1>1, <1>3, <2>3, <3>1, <3>2 DEF Batches
    <3>3. CASE y = Len(bs) + 1
      <4>1. Elements(bs[x]) \subseteq SubmittedIn(bs)
        BY <3>1 DEF SubmittedIn
      <4> QED BY <1>3, <1>6, <3>1, <3>3, <4>1 DEF Precedes
    <3> QED BY <1>4, <3>2, <3>3
  <2> QED BY <1>3, <2>1, <2>2, <2>3 DEF Batches
<1>8. Precedes(o, SubmittedIn(bt), Elements(pend)) /\ Precedes(o, SubmittedIn(bt), Elements(chan))
  BY <1>1, <1>5 DEF Ahead, Stages, Precedes
<1>9. Ahead(o, chan, pend, sel, "write", bt)
  BY <1>3, <1>8 DEF Ahead
<1> QED BY <1>1, <1>5, <1>7, <1>9 DEF Pipeline, bt

LEMMA EmptyQueue == <<>> \in Seq(Requests) /\ Elements(<<>>) = {} /\ \A o : Ordered(o, <<>>)
BY DEF Elements, Ordered

LEMMA PipelineStep ==
    ASSUME TypeOK, PipelineInv, CallerInv, [Next]_vars
    PROVE  PipelineInv'
<1> USE DEF callers, worker, raft
<1>0. /\ Pipeline(sent, channel, pending, selected, pc, batches)
      /\ Stages(sent, channel, pending, selected)
      /\ channel \in Seq(Requests) /\ pending \in Seq(Requests) /\ selected \in Seq(Requests)
      /\ Ordered(sent, channel) /\ Ordered(sent, pending) /\ Ordered(sent, selected)
  BY DEF PipelineInv, Pipeline, Stages
<1>a. selected # <<>> <=> pc \in {"submit", "write", "expired"}
  BY DEF TypeOK
<1>b. SUFFICES Pipeline(sent', channel', pending', selected', pc', batches')
  BY DEF PipelineInv
<1>1. ASSUME sent' = sent, channel' = channel, pending' = pending, selected' = selected, pc' = pc,
             batches' = batches
      PROVE  Pipeline(sent', channel', pending', selected', pc', batches')
  BY <1>0, <1>1
<1>2. ASSUME NEW r \in Requests, Send(r) PROVE Pipeline(sent', channel', pending', selected', pc', batches')
  <2>1. CASE channel' = channel /\ sent' = sent
    BY <1>1, <1>2, <2>1 DEF Send
  <2>2. CASE channel' = Append(channel, r) /\ sent' = Append(sent, r)
    <3>1. r \notin Elements(sent)
      BY <1>2 DEF Send, CallerInv
    <3>2. Pipeline(Append(sent, r), Append(channel, r), pending, selected, pc, batches)
      BY <1>0, <3>1, Enqueue
    <3>3. UNCHANGED <<pending, selected, pc, batches>>
      BY <1>2 DEF Send
    <3> QED BY <2>2, <3>2, <3>3
  <2> QED BY <1>2, <2>1, <2>2 DEF Send
<1>3. ASSUME NEW chan2 \in Seq(Requests), NEW pend2 \in Seq(Requests), NEW sel2 \in Seq(Requests),
             NEW step2,
             Ordered(sent, chan2), Ordered(sent, pend2), Ordered(sent, sel2),
             Elements(chan2) \subseteq Elements(channel), Elements(pend2) \subseteq Elements(pending),
             Elements(sel2) \subseteq Elements(selected),
             step2 = "submit" => pc = "submit",
             step2 \in {"write", "expired"} => pc \in {"write", "expired"} /\ sel2 = selected
      PROVE  Pipeline(sent, chan2, pend2, sel2, step2, batches)
  BY <1>0, <1>3, Shrink
<1>4. CASE BeginIteration \/ ObserveShutdown
  <2>1. /\ UNCHANGED <<sent, channel, pending, selected, batches>>
        /\ pc' \in {"closing", "iterate"}
    BY <1>4 DEF BeginIteration, ObserveShutdown
  <2>2. Pipeline(sent, channel, pending, selected, pc', batches)
    BY <1>0, <1>3, <2>1
  <2> QED BY <2>1, <2>2
<1>5. CASE ReceiveFirst
  <2> DEFINE h == Head(channel)
             got == Live(<<h>>)
  <2>1. /\ channel # <<>> /\ pending = <<>> /\ pc = "iterate" /\ channel' = Tail(channel) /\ pending' = got
        /\ UNCHANGED <<sent, selected, batches>> /\ pc' \in {"loop", "iterate"}
    BY <1>5 DEF ReceiveFirst
  <2>2. Pipeline(sent, Tail(channel), Append(pending, h), selected, pc, batches)
    BY <1>0, <2>1, Pull
  <2>3. /\ <<h>> \in Seq(Requests) /\ Tail(channel) \in Seq(Requests)
        /\ Append(pending, h) = <<h>>
    BY <1>0, <2>1, FirstOfQueue
  <2>4. Ordered(sent, Tail(channel)) /\ Ordered(sent, <<h>>) /\ Ordered(sent, selected)
    BY <2>2, <2>3 DEF Pipeline, Stages
  <2>5. got \in Seq(Requests) /\ Elements(got) \subseteq Elements(<<h>>) /\ Ordered(sent, got)
    BY <2>3, <2>4, LiveQueue
  <2> HIDE DEF h, got
  <2>6. pc' # "submit" /\ pc' \notin {"write", "expired"}
    BY <2>1
  <2>7. Pipeline(sent, Tail(channel), got, selected, pc', batches)
    BY <1>0, <2>2, <2>3, <2>4, <2>5, <2>6, Shrink
  <2> QED BY <2>1, <2>7
<1>6. CASE DiscardAll
  <2>1. /\ UNCHANGED <<sent, channel, selected, batches>> /\ pending' = <<>> /\ pc' = "loop"
    BY <1>6 DEF DiscardAll
  <2>2. Pipeline(sent, channel, <<>>, selected, "loop", batches)
    BY <1>0, <1>3, EmptyQueue
  <2> QED BY <2>1, <2>2
<1>7. CASE Coalesce
  <2> DEFINE kept == Live(pending)
             h == Head(channel)
  <2>1. /\ UNCHANGED <<sent, selected, batches>> /\ pc = "iterate"
        /\ \/ /\ channel # <<>> /\ channel' = Tail(channel) /\ pending' = Append(kept, h)
              /\ pc' = "loop"
           \/ channel' = channel /\ pending' = kept /\ pc' = "closing"
    BY <1>7 DEF Coalesce
  <2>2. kept \in Seq(Requests) /\ Elements(kept) \subseteq Elements(pending) /\ Ordered(sent, kept)
    BY <1>0, LiveQueue
  <2> HIDE DEF kept, h
  <2>3. /\ Pipeline(sent, channel, kept, selected, "closing", batches)
        /\ Pipeline(sent, channel, kept, selected, "loop", batches)
    BY <1>0, <1>3, <2>2
  <2>4. channel # <<>> => Pipeline(sent, Tail(channel), Append(kept, h), selected, "loop", batches)
    BY <2>3, Pull DEF h
  <2> QED BY <2>1, <2>3, <2>4
<1>8. CASE TakeBatch
  <2> DEFINE kept == Live(pending)
             n == BatchLength(kept)
  <2>1. /\ UNCHANGED <<sent, channel, batches>> /\ pc = "iterate" /\ kept # <<>>
        /\ selected' = SubSeq(kept, 1, n) /\ pending' = SubSeq(kept, n + 1, Len(kept))
        /\ pc' = "submit"
    BY <1>8 DEF TakeBatch
  <2>2. kept \in Seq(Requests) /\ Elements(kept) \subseteq Elements(pending) /\ Ordered(sent, kept)
    BY <1>0, LiveQueue
  <2>3. n \in 1 .. Len(kept)
    BY <2>1, <2>2, BatchIsAPrefix
  <2> HIDE DEF kept, n
  <2>4. Pipeline(sent, channel, kept, <<>>, "loop", batches)
    BY <1>0, <1>3, <2>2, EmptyQueue
  <2>5. Pipeline(sent, channel, SubSeq(kept, n + 1, Len(kept)), SubSeq(kept, 1, n), "submit", batches)
    BY <2>3, <2>4, Take
  <2> QED BY <2>1, <2>5
<1>9. CASE Submit
  <2> DEFINE kept == Live(selected)
  <2>1. /\ UNCHANGED <<sent, channel, pending>> /\ pc = "submit" /\ selected' = kept
        /\ \/ pc' = "loop" /\ batches' = batches
           \/ pc' = "write" /\ batches' = Append(batches, kept)
    BY <1>9 DEF Submit
  <2>2. kept \in Seq(Requests) /\ Elements(kept) \subseteq Elements(selected) /\ Ordered(sent, kept)
    BY <1>0, LiveQueue
  <2> HIDE DEF kept
  <2>3. /\ Pipeline(sent, channel, pending, kept, "loop", batches)
        /\ Pipeline(sent, channel, pending, kept, "submit", batches)
    BY <1>0, <1>3, <2>1, <2>2
  <2>4. Pipeline(sent, channel, pending, kept, "write", Append(batches, kept))
    BY <2>3, Push
  <2> QED BY <2>1, <2>3, <2>4
<1>10. CASE WriteReturned \/ ExpiredWriteReturned \/ AbandonWrite
  <2>1. UNCHANGED <<sent, channel, pending, batches>> /\ selected' = <<>> /\ pc' = "loop"
    BY <1>10 DEF WriteReturned, ExpiredWriteReturned, AbandonWrite, FinishBatch
  <2>2. Pipeline(sent, channel, pending, <<>>, "loop", batches)
    BY <1>0, <1>3, EmptyQueue
  <2> QED BY <2>1, <2>2
<1>11. CASE Expire
  <2>1. UNCHANGED <<sent, channel, pending, selected, batches>> /\ pc = "write" /\ pc' = "expired"
    BY <1>11 DEF Expire
  <2>2. Pipeline(sent, channel, pending, selected, "expired", batches)
    BY <1>0, <1>3, <2>1
  <2> QED BY <2>1, <2>2
<1>12. CASE ClosePending
  <2>1. UNCHANGED <<sent, channel, selected, pc, batches>> /\ pc = "closing" /\ pending' = <<>>
    BY <1>12 DEF ClosePending
  <2>2. Pipeline(sent, channel, <<>>, selected, "closing", batches)
    BY <1>0, <1>3, EmptyQueue
  <2> QED BY <2>1, <2>2
<1>13. CASE CloseChannel
  <2>1. /\ UNCHANGED <<sent, pending, selected, batches>> /\ pc = "closing"
        /\ \/ channel # <<>> /\ channel' = Tail(channel) /\ pc' = pc
           \/ channel' = channel /\ pc' = "exiting"
    BY <1>13 DEF CloseChannel
  <2>2. channel # <<>> => /\ Tail(channel) \in Seq(Requests) /\ Ordered(sent, Tail(channel))
                          /\ Elements(Tail(channel)) \subseteq Elements(channel)
    BY <1>0, FirstOfQueue
  <2>3. channel # <<>> => Pipeline(sent, Tail(channel), pending, selected, "closing", batches)
    BY <1>0, <1>3, <2>2
  <2>4. Pipeline(sent, channel, pending, selected, "exiting", batches)
    BY <1>0, <1>3
  <2> QED BY <2>1, <2>3, <2>4
<1>14. CASE DropReceiver
  <2>1. UNCHANGED <<sent, pending, selected, batches>> /\ channel' = <<>> /\ pc' = "done"
    BY <1>14 DEF DropReceiver
  <2>2. Pipeline(sent, <<>>, pending, selected, "done", batches)
    BY <1>0, <1>3, EmptyQueue
  <2> QED BY <2>1, <2>2
<1>15. ASSUME NEW r \in Requests, TryAdmitMutation(r) \/ Refuse(r) \/ Reserve(r) \/ Cancel(r)
       PROVE  Pipeline(sent', channel', pending', selected', pc', batches')
  BY <1>1, <1>15 DEF TryAdmitMutation, Refuse, Reserve, Cancel
<1>16. ASSUME NEW b \in DOMAIN batches, Commit(b)
       PROVE  Pipeline(sent', channel', pending', selected', pc', batches')
  BY <1>1, <1>16 DEF Commit
<1>17. CASE StartDrain \/ FinishDrain \/ StopPublisher \/ UNCHANGED vars
  BY <1>1, <1>17 DEF StartDrain, FinishDrain, StopPublisher, vars
<1> QED BY <1>2, <1>4, <1>5, <1>6, <1>7, <1>8, <1>9, <1>10, <1>11, <1>12, <1>13, <1>14, <1>15, <1>16, <1>17
        DEF Next, WorkerSteps, WriteReturns

-----------------------------------------------------------------------------
(* The work, and what the worker gives back of it.                         *)
Reserved == {r \in Requests : caller[r] = "reserved"}
Work == Queued \cup Elements(selected)

LEMMA StagesDisjoint ==
    ASSUME PipelineInv, CallerInv
    PROVE  /\ channel \in Seq(Requests) /\ pending \in Seq(Requests) /\ selected \in Seq(Requests)
           /\ Elements(channel) \cap Elements(pending) = {}
           /\ Elements(channel) \cap Elements(selected) = {}
           /\ Elements(pending) \cap Elements(selected) = {}
           /\ channel # <<>> => Head(channel) \notin Elements(Tail(channel))
           /\ Work \in SUBSET Requests /\ Work \cap Reserved = {} /\ Work \subseteq Elements(sent)
           /\ Held = Reserved \cup Work
<1>1. Stages(sent, channel, pending, selected)
  BY DEF PipelineInv, Pipeline
<1>2. /\ sent \in Seq(Requests) /\ Once(sent)
      /\ channel \in Seq(Requests) /\ pending \in Seq(Requests) /\ selected \in Seq(Requests)
      /\ Work \subseteq Elements(sent)
  BY <1>1 DEF Stages, Work, Queued
<1>3. /\ Precedes(sent, Elements(pending), Elements(channel))
      /\ Precedes(sent, Elements(selected), Elements(channel))
      /\ Precedes(sent, Elements(selected), Elements(pending))
  BY <1>1 DEF Stages, Precedes
<1>4. /\ Elements(channel) \cap Elements(pending) = {}
      /\ Elements(channel) \cap Elements(selected) = {}
      /\ Elements(pending) \cap Elements(selected) = {}
  BY <1>2, <1>3, StagesApart
<1>5. ASSUME channel # <<>> PROVE Head(channel) \notin Elements(Tail(channel))
  <2>1. Precedes(sent, {Head(channel)}, Elements(Tail(channel)))
    BY <1>1, <1>5, FirstOfQueue DEF Stages
  <2>2. {Head(channel)} \cap Elements(Tail(channel)) = {}
    BY <1>2, <2>1, StagesApart
  <2> QED BY <2>2
<1>6. Work \in SUBSET Requests
  BY <1>2, ElementsType DEF Work, Queued
<1>7. Work \cap Reserved = {}
  BY <1>2 DEF CallerInv, Reserved
<1> QED BY <1>2, <1>4, <1>5, <1>6, <1>7 DEF Held, Reserved, Work

(* The requests rs leave the pipeline, with their charges and permits.     *)
GivesBack(rs) ==
    /\ rs \in SUBSET Work /\ Work' = Work \ rs /\ Reserved' = Reserved
    /\ permits' = permits \ rs
    /\ usage' \in {Released(rs), [Released(rs) EXCEPT !.accepting = FALSE]}

LEMMA SameReserved ==
    ASSUME NEW rs, NEW w, Reply(rs, w)
    PROVE  Reserved' = Reserved
BY DEF Reply, Reserved

LEMMA WorkerGivesBack ==
    ASSUME TypeOK, PipelineInv, CallerInv,
           \/ ReceiveFirst \/ DiscardAll \/ Coalesce \/ TakeBatch \/ Submit
           \/ WriteReturned \/ ExpiredWriteReturned \/ AbandonWrite
           \/ ClosePending \/ (CloseChannel /\ channel # <<>>)
    PROVE  \E rs : GivesBack(rs)
<1> USE DEF callers, worker, raft
<1>0. /\ channel \in Seq(Requests) /\ pending \in Seq(Requests) /\ selected \in Seq(Requests)
      /\ Elements(channel) \cap Elements(pending) = {}
      /\ Elements(channel) \cap Elements(selected) = {}
      /\ Elements(pending) \cap Elements(selected) = {}
      /\ channel # <<>> => Head(channel) \notin Elements(Tail(channel))
  BY StagesDisjoint
<1>a. Work = Elements(channel) \cup Elements(pending) \cup Elements(selected)
      /\ Work' = Elements(channel') \cup Elements(pending') \cup Elements(selected')
  BY DEF Work, Queued
<1>b. channel # <<>> => /\ <<Head(channel)>> \in Seq(Requests)
                        /\ Elements(<<Head(channel)>>) = {Head(channel)}
                        /\ Elements(channel) = {Head(channel)} \cup Elements(Tail(channel))
  BY <1>0, FirstOfQueue
<1>c. caller' = caller => Reserved' = Reserved
  BY DEF Reserved
<1>1. CASE ReceiveFirst
  <2> DEFINE got == <<Head(channel)>>
  <2>1. /\ channel # <<>> /\ pending = <<>> /\ channel' = Tail(channel) /\ pending' = Live(got)
        /\ Discard(got) /\ UNCHANGED <<caller, selected>>
    BY <1>1 DEF ReceiveFirst
  <2>2. Elements(Live(got)) = {Head(channel)} \ Cancelled(got) /\ Cancelled(got) \subseteq {Head(channel)}
    BY <1>b, <2>1, LiveQueue
  <2> HIDE DEF got
  <2>3. Work' = Work \ Cancelled(got) /\ Cancelled(got) \in SUBSET Work
    BY <1>0, <1>a, <1>b, <2>1, <2>2, EmptyQueue
  <2>4. GivesBack(Cancelled(got))
    BY <1>c, <2>1, <2>3 DEF Discard, GivesBack
  <2> QED BY <2>4
<1>2. CASE DiscardAll
  <2>1. /\ pending' = <<>> /\ Live(pending) = <<>> /\ Discard(pending)
        /\ UNCHANGED <<caller, channel, selected>>
    BY <1>2 DEF DiscardAll
  <2>2. {} = Elements(pending) \ Cancelled(pending) /\ Cancelled(pending) \subseteq Elements(pending)
    BY <1>0, <2>1, LiveQueue, EmptyQueue
  <2>3. Work' = Work \ Cancelled(pending) /\ Cancelled(pending) \in SUBSET Work
    BY <1>0, <1>a, <2>1, <2>2, EmptyQueue
  <2>4. GivesBack(Cancelled(pending))
    BY <1>c, <2>1, <2>3 DEF Discard, GivesBack
  <2> QED BY <2>4
<1>3. CASE Coalesce
  <2> DEFINE kept == Live(pending)
             h == Head(channel)
  <2>1. /\ UNCHANGED <<selected, caller>> /\ Discard(pending)
        /\ \/ channel # <<>> /\ channel' = Tail(channel) /\ pending' = Append(kept, h)
           \/ channel' = channel /\ pending' = kept
    BY <1>3 DEF Coalesce
  <2>2. /\ kept \in Seq(Requests) /\ Elements(kept) = Elements(pending) \ Cancelled(pending)
        /\ Cancelled(pending) \subseteq Elements(pending)
    BY <1>0, LiveQueue
  <2>3. channel # <<>> => Elements(Append(kept, h)) = Elements(kept) \cup {h}
    BY <1>0, <2>2, FirstOfQueue, LastOfQueue
  <2> HIDE DEF kept
  <2>4. Work' = Work \ Cancelled(pending) /\ Cancelled(pending) \in SUBSET Work
    <3>1. CASE channel # <<>> /\ channel' = Tail(channel) /\ pending' = Append(kept, h)
      BY <1>0, <1>a, <1>b, <2>1, <2>2, <2>3, <3>1
    <3>2. CASE channel' = channel /\ pending' = kept
      BY <1>0, <1>a, <2>1, <2>2, <3>2
    <3> QED BY <2>1, <3>1, <3>2
  <2>5. GivesBack(Cancelled(pending))
    BY <1>c, <2>1, <2>4 DEF Discard, GivesBack
  <2> QED BY <2>5
<1>4. CASE TakeBatch
  <2> DEFINE kept == Live(pending)
             n == BatchLength(kept)
  <2>1. /\ UNCHANGED <<caller, channel>> /\ Discard(pending) /\ kept # <<>> /\ pc = "iterate"
        /\ selected' = SubSeq(kept, 1, n) /\ pending' = SubSeq(kept, n + 1, Len(kept))
    BY <1>4 DEF TakeBatch
  <2>2. /\ kept \in Seq(Requests) /\ Elements(kept) = Elements(pending) \ Cancelled(pending)
        /\ Cancelled(pending) \subseteq Elements(pending)
    BY <1>0, LiveQueue
  <2>3. n \in 1 .. Len(kept)
    BY <2>1, <2>2, BatchIsAPrefix
  <2>4. selected = <<>>
    BY <2>1 DEF TypeOK
  <2> HIDE DEF kept, n
  <2>5. Elements(selected') \cup Elements(pending') = Elements(kept)
    BY <2>1, <2>2, <2>3, SplitQueue
  <2>6. Work' = Work \ Cancelled(pending) /\ Cancelled(pending) \in SUBSET Work
    BY <1>0, <1>a, <2>1, <2>2, <2>4, <2>5, EmptyQueue
  <2>7. GivesBack(Cancelled(pending))
    BY <1>c, <2>1, <2>6 DEF Discard, GivesBack
  <2> QED BY <2>7
<1>5. CASE Submit
  <2>1. UNCHANGED <<caller, channel, pending>> /\ Discard(selected) /\ selected' = Live(selected)
    BY <1>5 DEF Submit
  <2>2. /\ Elements(Live(selected)) = Elements(selected) \ Cancelled(selected)
        /\ Cancelled(selected) \subseteq Elements(selected)
    BY <1>0, LiveQueue
  <2>3. Work' = Work \ Cancelled(selected) /\ Cancelled(selected) \in SUBSET Work
    BY <1>0, <1>a, <2>1, <2>2
  <2>4. GivesBack(Cancelled(selected))
    BY <1>c, <2>1, <2>3 DEF Discard, GivesBack
  <2> QED BY <2>4
<1>6. CASE WriteReturned \/ ExpiredWriteReturned \/ AbandonWrite
  <2>1. FinishBatch /\ UNCHANGED <<channel, pending>>
    BY <1>6 DEF WriteReturned, ExpiredWriteReturned, AbandonWrite
  <2>2. Reserved' = Reserved
    BY <1>6, <1>c, SameReserved DEF WriteReturned, ExpiredWriteReturned, AbandonWrite
  <2>3. Work' = Work \ Elements(selected) /\ Elements(selected) \in SUBSET Work
    BY <1>0, <1>a, <2>1, EmptyQueue DEF FinishBatch
  <2>4. GivesBack(Elements(selected))
    BY <2>1, <2>2, <2>3 DEF FinishBatch, GivesBack
  <2> QED BY <2>4
<1>7. CASE ClosePending
  <2>1. UNCHANGED <<channel, selected>> /\ pending' = <<>> /\ Reserved' = Reserved
    BY <1>7, SameReserved DEF ClosePending
  <2>2. Work' = Work \ Elements(pending) /\ Elements(pending) \in SUBSET Work
    BY <1>0, <1>a, <2>1, EmptyQueue
  <2>3. GivesBack(Elements(pending))
    BY <1>7, <2>1, <2>2 DEF ClosePending, GivesBack
  <2> QED BY <2>3
<1>8. CASE CloseChannel /\ channel # <<>>
  <2>1. UNCHANGED <<pending, selected>> /\ channel' = Tail(channel) /\ Reserved' = Reserved
    BY <1>8, SameReserved DEF CloseChannel
  <2>2. Work' = Work \ {Head(channel)} /\ {Head(channel)} \in SUBSET Work
    BY <1>0, <1>a, <1>b, <1>8, <2>1
  <2>3. GivesBack({Head(channel)})
    BY <1>8, <2>1, <2>2 DEF CloseChannel, GivesBack
  <2> QED BY <2>3
<1> QED BY <1>1, <1>2, <1>3, <1>4, <1>5, <1>6, <1>7, <1>8

-----------------------------------------------------------------------------
(* The counters.                                                           *)

LEMMA TakeAway ==
    ASSUME NEW held \in SUBSET Requests, NEW rs \in SUBSET held
    PROVE  /\ Cardinality(held) \in Nat /\ Cardinality(rs) \in Nat /\ Cardinality(held \ rs) \in Nat
           /\ Cardinality(held) = Cardinality(held \ rs) + Cardinality(rs)
           /\ Charge(held) \in Nat /\ Charge(rs) \in Nat /\ Charge(held \ rs) \in Nat
           /\ Charge(held) = Charge(held \ rs) + Charge(rs)
<1>1. held \ rs \in SUBSET Requests /\ rs \in SUBSET Requests /\ (held \ rs) \cap rs = {}
      /\ (held \ rs) \cup rs = held /\ held \cap rs = rs
  OBVIOUS
<1>2. IsFiniteSet(held) /\ Cardinality(held) \in Nat /\ Cardinality(rs) \in Nat
      /\ Cardinality(held \ rs) \in Nat
  BY <1>1, SetsOfRequests
<1>3. Cardinality(held \ rs) = Cardinality(held) - Cardinality(held \cap rs)
  BY <1>2, FS_Difference
<1>4. Charge(held) \in Nat /\ Charge(rs) \in Nat /\ Charge(held \ rs) \in Nat
  BY <1>1, ChargeStep
<1>5. Charge((held \ rs) \cup rs) = Charge(held \ rs) + Charge(rs)
  BY <1>1, ChargeUnion
<1>6. Charge(held) = Charge(held \ rs) + Charge(rs)
  BY <1>1, <1>5, Zenon
<1>7. Cardinality(held \ rs) = Cardinality(held) - Cardinality(rs)
  BY <1>1, <1>3, Zenon
<1> QED BY <1>2, <1>4, <1>6, <1>7

LEMMA ReleaseHeld ==
    ASSUME usage \in Usage, NEW held \in SUBSET Requests, NEW rs \in SUBSET held,
           Covers(usage, held),
           NEW u \in {Released(rs), [Released(rs) EXCEPT !.accepting = FALSE]}
    PROVE  /\ Covers(u, held \ rs)
           /\ Counts(usage, held) => Counts(u, held \ rs)
<1>1. rs \in SUBSET Requests
  OBVIOUS
<1>2. /\ u.requests = Monus(usage.requests, Cardinality(rs))
      /\ u.records = Monus(usage.records, Charge(rs))
  BY <1>1, ReleasedIs
<1>3. usage.requests \in Nat /\ usage.records \in Nat /\ QueueRequests \in Nat /\ QueueRecords \in Nat
  BY SchedulerAssumption DEF Usage
<1> HIDE DEF Usage
<1> QED BY <1>2, <1>3, TakeAway DEF Covers, Counts, Monus

LEMMA UsageStep ==
    ASSUME TypeOK, PipelineInv, CallerInv, UsageInv, EndInv, [Next]_vars
    PROVE  UsageInv'
<1> USE DEF callers, worker, raft
<1>0. usage \in Usage /\ usage.requests \in Nat /\ usage.records \in Nat /\ usage.accepting \in BOOLEAN
  BY DEF TypeOK, Usage
<1>a. /\ Work \in SUBSET Requests /\ Reserved \in SUBSET Requests /\ Work \cap Reserved = {}
      /\ Held = Reserved \cup Work /\ Held \in SUBSET Requests
      /\ channel \in Seq(Requests)
  BY StagesDisjoint DEF Reserved
<1>b. Held' = Reserved' \cup Work'
  BY DEF Held, Reserved, Work
<1>c. Covers(usage, Held) /\ (pc # "done" => Counts(usage, Held))
  BY DEF UsageInv
<1>d. SUFFICES Covers(usage', Held') /\ (pc' # "done" => Counts(usage', Held'))
  BY DEF UsageInv
<1>e. caller \in [Requests -> Callers]
  BY DEF TypeOK
<1>1. ASSUME NEW rs, GivesBack(rs), pc # "done"
      PROVE  Covers(usage', Held') /\ (pc' # "done" => Counts(usage', Held'))
  <2>1. Held' = Held \ rs /\ rs \in SUBSET Held
    BY <1>a, <1>b, <1>1 DEF GivesBack
  <2>2. usage' \in {Released(rs), [Released(rs) EXCEPT !.accepting = FALSE]}
    BY <1>1 DEF GivesBack
  <2>3. Covers(usage', Held \ rs) /\ Counts(usage', Held \ rs)
    BY <1>0, <1>a, <1>c, <1>1, <2>1, <2>2, ReleaseHeld
  <2> QED BY <2>1, <2>3
<1>2. ASSUME usage'.requests = usage.requests, usage'.records = usage.records, Reserved' = Reserved,
             UNCHANGED <<channel, pending, selected>>, pc' # "done" => pc # "done"
      PROVE  Covers(usage', Held') /\ (pc' # "done" => Counts(usage', Held'))
  <2>1. Held' = Held
    BY <1>a, <1>b, <1>2 DEF Work, Queued
  <2> QED BY <1>c, <1>2, <2>1 DEF Covers, Counts
<1>3. CASE ReceiveFirst \/ DiscardAll \/ Coalesce \/ TakeBatch \/ Submit \/ WriteReturned
           \/ ExpiredWriteReturned \/ AbandonWrite \/ ClosePending \/ (CloseChannel /\ channel # <<>>)
  <2>1. pc # "done"
    BY <1>3 DEF ReceiveFirst, DiscardAll, Coalesce, TakeBatch, Submit, WriteReturned,
                ExpiredWriteReturned, AbandonWrite, ClosePending, CloseChannel
  <2>2. \E rs : GivesBack(rs)
    BY <1>3, WorkerGivesBack
  <2> QED BY <1>1, <2>1, <2>2
<1>4. ASSUME NEW r \in Requests, NEW w, caller[r] # "reserved", Return(r, w), UNCHANGED <<usage, worker>>
      PROVE  Covers(usage', Held') /\ (pc' # "done" => Counts(usage', Held'))
  <2>1. Reserved' = Reserved
    BY <1>e, <1>4 DEF Return, Reserved
  <2> QED BY <1>2, <1>4, <2>1
<1>5. ASSUME NEW r \in Requests, TryAdmitMutation(r) \/ Refuse(r) \/ Cancel(r)
      PROVE  Covers(usage', Held') /\ (pc' # "done" => Counts(usage', Held'))
  <2>1. CASE TryAdmitMutation(r)
    <3>1. CASE gate = "closed"
      BY <1>4, <2>1, <3>1 DEF TryAdmitMutation
    <3>2. CASE gate # "closed"
      <4>1. Reserved' = Reserved
        BY <1>e, <2>1, <3>2 DEF TryAdmitMutation, Reserved
      <4> QED BY <1>2, <2>1, <4>1 DEF TryAdmitMutation
    <3> QED BY <3>1, <3>2
  <2>2. CASE Refuse(r)
    BY <1>4, <2>2 DEF Refuse
  <2>3. CASE Cancel(r)
    <3>1. Reserved' = Reserved
      BY <1>e, <2>3 DEF Cancel, Reserved
    <3> QED BY <1>2, <2>3, <3>1 DEF Cancel
  <2> QED BY <1>5, <2>1, <2>2, <2>3
<1>6. ASSUME NEW r \in Requests, Reserve(r)
      PROVE  Covers(usage', Held') /\ (pc' # "done" => Counts(usage', Held'))
  <2>1. caller[r] = "permitted" /\ UNCHANGED worker
    BY <1>6 DEF Reserve
  <2>2. CASE UNCHANGED usage /\ \E w : Return(r, w)
    BY <1>4, <2>1, <2>2
  <2>3. CASE /\ usage.accepting
             /\ ~(usage.requests + 1 > QueueRequests \/ usage.records + Records[r] > QueueRecords)
             /\ caller' = [caller EXCEPT ![r] = "reserved"]
             /\ usage' = [usage EXCEPT !.requests = @ + 1, !.records = @ + Records[r]]
    <3>1. pc # "done" /\ Counts(usage, Held)
      BY <1>c, <2>3 DEF EndInv
    <3>2. Reserved' = Reserved \cup {r} /\ r \notin Reserved /\ Work' = Work
      BY <1>e, <2>1, <2>3 DEF Reserved, Work, Queued
    <3>3. r \notin Work
      BY <2>1, StagesDisjoint DEF CallerInv
    <3>4. Held' = Held \cup {r} /\ r \notin Held /\ Held \cup {r} \in SUBSET Requests
          /\ (Held \cup {r}) \ {r} = Held /\ {r} \in SUBSET (Held \cup {r})
      BY <1>a, <1>b, <3>2, <3>3
    <3>5. /\ Cardinality(Held \cup {r}) = Cardinality(Held) + Cardinality({r})
          /\ Cardinality(Held) \in Nat /\ Charge(Held) \in Nat
      BY <3>4, TakeAway
    <3>6. Cardinality({r}) = 1
      BY FS_Singleton
    <3>7. Charge(Held \cup {r}) = Records[r] + Charge(Held) /\ Records[r] \in Nat
      BY <3>4, ChargeWithout, SchedulerAssumption
    <3>8. usage'.requests = usage.requests + 1 /\ usage'.records = usage.records + Records[r]
      BY <1>0, <2>3 DEF Usage
    <3>9. usage.requests + 1 <= QueueRequests /\ usage.records + Records[r] <= QueueRecords
      BY <1>0, <2>3, <3>7, SchedulerAssumption
    <3>10. Counts(usage', Held')
      BY <3>1, <3>4, <3>5, <3>6, <3>7, <3>8 DEF Counts
    <3>11. Covers(usage', Held')
      BY <1>0, <3>1, <3>4, <3>5, <3>6, <3>7, <3>8, <3>9 DEF Covers, Counts
    <3> QED BY <3>10, <3>11
  <2> QED BY <1>6, <2>2, <2>3 DEF Reserve
<1>7. ASSUME NEW r \in Requests, Send(r)
      PROVE  Covers(usage', Held') /\ (pc' # "done" => Counts(usage', Held'))
  <2>1. caller[r] = "reserved" /\ r \in Reserved /\ UNCHANGED <<pending, selected, pc>>
    BY <1>7 DEF Send, Reserved
  <2>2. CASE Return(r, "Overloaded") /\ usage' = Released({r}) /\ UNCHANGED channel
    <3>1. Reserved' = Reserved \ {r} /\ Work' = Work
      BY <1>e, <2>1, <2>2 DEF Return, Reserved, Work, Queued
    <3>2. Held' = Held \ {r} /\ {r} \in SUBSET Held
      BY <1>a, <1>b, <2>1, <3>1
    <3>3. Covers(usage', Held \ {r}) /\ (Counts(usage, Held) => Counts(usage', Held \ {r}))
      BY <1>0, <1>a, <1>c, <2>2, <3>2, ReleaseHeld
    <3> QED BY <1>c, <2>1, <3>2, <3>3
  <2>3. CASE caller' = [caller EXCEPT ![r] = "waiting"] /\ channel' = Append(channel, r) /\ UNCHANGED usage
    <3>1. Reserved' = Reserved \ {r}
      BY <1>e, <2>1, <2>3 DEF Reserved
    <3>2. Elements(channel') = Elements(channel) \cup {r}
      BY <1>a, <2>3, LastOfQueue
    <3>3. Work' = Work \cup {r}
      BY <2>1, <3>2 DEF Work, Queued
    <3>4. Held' = Held
      BY <1>a, <1>b, <2>1, <3>1, <3>3
    <3> QED BY <1>c, <2>1, <2>3, <3>4
  <2> QED BY <1>7, <2>2, <2>3 DEF Send
<1>8. CASE BeginIteration \/ ObserveShutdown
  BY <1>2, <1>8 DEF BeginIteration, ObserveShutdown, Reserved
<1>9. CASE Expire
  BY <1>2, <1>9, SameReserved DEF Expire
<1>10. CASE CloseChannel /\ channel = <<>>
  <2>1. usage'.requests = usage.requests /\ usage'.records = usage.records
    BY <1>0, <1>10 DEF CloseChannel, Usage
  <2> QED BY <1>2, <1>10, <2>1 DEF CloseChannel, Reserved
<1>11. CASE DropReceiver
  <2>1. UNCHANGED <<usage, pending, selected>> /\ channel' = <<>> /\ pc' = "done" /\ Reserved' = Reserved
    BY <1>11, SameReserved DEF DropReceiver
  <2>2. Work' \subseteq Work
    BY <2>1, EmptyQueue DEF Work, Queued
  <2>3. Held' \in SUBSET Held /\ Held \ (Held \ Held') = Held' /\ Held \ Held' \in SUBSET Held
    BY <1>a, <1>b, <2>1, <2>2
  <2>4. /\ Cardinality(Held) = Cardinality(Held') + Cardinality(Held \ Held')
        /\ Charge(Held) = Charge(Held') + Charge(Held \ Held')
        /\ Cardinality(Held) \in Nat /\ Cardinality(Held') \in Nat /\ Cardinality(Held \ Held') \in Nat
        /\ Charge(Held) \in Nat /\ Charge(Held') \in Nat /\ Charge(Held \ Held') \in Nat
    <3> DEFINE gone == Held \ Held'
    <3>1. gone \in SUBSET Held /\ Held \ gone = Held'
      BY <2>3
    <3> HIDE DEF gone
    <3>2. /\ Cardinality(Held) = Cardinality(Held \ gone) + Cardinality(gone)
          /\ Charge(Held) = Charge(Held \ gone) + Charge(gone)
          /\ Cardinality(Held) \in Nat /\ Cardinality(Held \ gone) \in Nat /\ Cardinality(gone) \in Nat
          /\ Charge(Held) \in Nat /\ Charge(Held \ gone) \in Nat /\ Charge(gone) \in Nat
      BY <1>a, <3>1, TakeAway
    <3> QED BY <3>1, <3>2 DEF gone
  <2>5. Covers(usage', Held')
    BY <1>0, <1>c, <2>1, <2>4 DEF Covers
  <2> QED BY <2>1, <2>5
<1>12. ASSUME NEW b \in DOMAIN batches, Commit(b)
       PROVE  Covers(usage', Held') /\ (pc' # "done" => Counts(usage', Held'))
  BY <1>2, <1>12 DEF Commit, Reserved
<1>13. CASE StartDrain \/ FinishDrain \/ UNCHANGED vars
  BY <1>2, <1>13 DEF StartDrain, FinishDrain, vars, Reserved
<1>14. CASE StopPublisher
  <2>1. usage'.requests = usage.requests /\ usage'.records = usage.records
    BY <1>0, <1>14 DEF StopPublisher, Usage
  <2> QED BY <1>2, <1>14, <2>1 DEF StopPublisher, Reserved
<1> QED BY <1>3, <1>5, <1>6, <1>7, <1>8, <1>9, <1>10, <1>11, <1>12, <1>13, <1>14
        DEF Next, WorkerSteps, WriteReturns

LEMMA EndStep ==
    ASSUME TypeOK, EndInv, [Next]_vars
    PROVE  EndInv'
<1> USE DEF callers, worker, raft
<1>0. usage \in Usage /\ usage.accepting \in BOOLEAN
  BY DEF TypeOK, Usage
<1>1. ASSUME pc' \notin {"exiting", "done"} PROVE EndInv'
  BY <1>1 DEF EndInv
<1>2. ASSUME usage'.accepting = usage.accepting \/ usage'.accepting = FALSE, pending' = pending,
             channel' = channel \/ pc # "done", pc' = pc
      PROVE  EndInv'
  BY <1>2 DEF EndInv
<1>3. ASSUME NEW r \in Requests, TryAdmitMutation(r) \/ Refuse(r) \/ Cancel(r) PROVE EndInv'
  BY <1>2, <1>3 DEF TryAdmitMutation, Refuse, Cancel
<1>4. ASSUME NEW r \in Requests, Reserve(r) PROVE EndInv'
  <2>1. UNCHANGED <<channel, pending, pc>>
    BY <1>4 DEF Reserve
  <2>2. usage' = usage \/ usage' = [usage EXCEPT !.requests = @ + 1, !.records = @ + Records[r]]
    BY <1>4, Zenon DEF Reserve
  <2>3. usage'.accepting = usage.accepting
    BY <1>0, <2>2 DEF Usage
  <2> QED BY <1>2, <2>1, <2>3
<1>5. ASSUME NEW r \in Requests, Send(r) PROVE EndInv'
  <2>1. UNCHANGED <<pending, pc>> /\ (channel' = channel \/ pc # "done")
    BY <1>5 DEF Send
  <2>2. usage' = usage \/ usage' = Released({r})
    BY <1>5 DEF Send
  <2>3. {r} \in SUBSET Requests
    OBVIOUS
  <2>4. usage'.accepting = usage.accepting
    BY <1>0, <2>2, <2>3, ReleasedIs
  <2> QED BY <1>2, <2>1, <2>4
<1>6. CASE \/ BeginIteration \/ ReceiveFirst \/ ObserveShutdown \/ DiscardAll \/ Coalesce
           \/ TakeBatch \/ Submit \/ WriteReturned \/ Expire \/ ExpiredWriteReturned \/ AbandonWrite
           \/ ClosePending
  BY <1>1, <1>6 DEF BeginIteration, ReceiveFirst, ObserveShutdown, DiscardAll, Coalesce, TakeBatch,
        Submit, WriteReturned, Expire, ExpiredWriteReturned, AbandonWrite, FinishBatch, ClosePending
<1>7. CASE CloseChannel
  <2>1. CASE channel # <<>>
    BY <1>1, <1>7, <2>1 DEF CloseChannel
  <2>2. CASE channel = <<>>
    <3>1. usage' = [usage EXCEPT !.accepting = FALSE] /\ pending' = <<>> /\ pc' = "exiting"
      BY <1>7, <2>2 DEF CloseChannel
    <3>2. usage'.accepting = FALSE
      BY <1>0, <3>1 DEF Usage
    <3> QED BY <3>1, <3>2 DEF EndInv
  <2> QED BY <2>1, <2>2
<1>8. CASE DropReceiver
  BY <1>8 DEF DropReceiver, EndInv
<1>9. ASSUME NEW b \in DOMAIN batches, Commit(b) PROVE EndInv'
  BY <1>2, <1>9 DEF Commit
<1>10. CASE StartDrain \/ FinishDrain \/ UNCHANGED vars
  BY <1>2, <1>10 DEF StartDrain, FinishDrain, vars
<1>11. CASE StopPublisher
  <2>1. usage'.accepting = FALSE
    BY <1>0, <1>11 DEF StopPublisher, Usage
  <2> QED BY <1>2, <1>11, <2>1 DEF StopPublisher
<1> QED BY <1>3, <1>4, <1>5, <1>6, <1>7, <1>8, <1>9, <1>10, <1>11 DEF Next, WorkerSteps, WriteReturns

-----------------------------------------------------------------------------
(* The callers.                                                            *)

(* A reply moves waiting callers only.                                     *)
LEMMA ReplyIs ==
    ASSUME NEW rs, NEW w, Reply(rs, w)
    PROVE  \A r \in Requests :
             /\ r \in rs /\ caller[r] = "waiting" => caller'[r] = "answered" /\ answer'[r] = w
             /\ ~(r \in rs /\ caller[r] = "waiting") => caller'[r] = caller[r] /\ answer'[r] = answer[r]
BY DEF Reply

LEMMA CallerStep ==
    ASSUME TypeOK, PipelineInv, CallerInv, [Next]_vars
    PROVE  CallerInv'
<1> USE DEF callers, worker, raft
<1>0. /\ channel \in Seq(Requests) /\ pending \in Seq(Requests) /\ selected \in Seq(Requests)
      /\ Elements(channel) \cap Elements(pending) = {}
      /\ Elements(channel) \cap Elements(selected) = {}
      /\ Elements(pending) \cap Elements(selected) = {}
      /\ channel # <<>> => Head(channel) \notin Elements(Tail(channel))
      /\ Work \in SUBSET Requests /\ Work \subseteq Elements(sent)
  BY StagesDisjoint
<1>a. Queued = Elements(channel) \cup Elements(pending)
      /\ Queued' = Elements(channel') \cup Elements(pending')
      /\ Work = Queued \cup Elements(selected) /\ Work' = Queued' \cup Elements(selected')
  BY DEF Work, Queued
<1>b. caller \in [Requests -> Callers] /\ sent \in Seq(Requests)
      /\ Elements(sent) \in SUBSET Requests
  BY ElementsType DEF TypeOK
<1>c. /\ \A r \in Elements(sent) : caller[r] \in {"waiting", "answered", "cancelled"}
      /\ \A r \in Queued : caller[r] \in {"waiting", "cancelled"}
      /\ pc = "submit" => \A r \in Elements(selected) : caller[r] \in {"waiting", "cancelled"}
      /\ pc = "expired" => \A r \in Elements(selected) : caller[r] # "waiting"
      /\ \A r \in Requests : caller[r] = "waiting" => r \in Work
  BY <1>a DEF CallerInv
<1>d. SUFFICES
      /\ \A r \in Elements(sent') : caller'[r] \in {"waiting", "answered", "cancelled"}
      /\ \A r \in Queued' : caller'[r] \in {"waiting", "cancelled"}
      /\ pc' = "submit" => \A r \in Elements(selected') : caller'[r] \in {"waiting", "cancelled"}
      /\ pc' = "expired" => \A r \in Elements(selected') : caller'[r] # "waiting"
      /\ \A r \in Requests : caller'[r] = "waiting" => r \in Work'
  BY <1>a DEF CallerInv
<1> DEFINE Goal ==
      /\ \A r \in Elements(sent') : caller'[r] \in {"waiting", "answered", "cancelled"}
      /\ \A r \in Queued' : caller'[r] \in {"waiting", "cancelled"}
      /\ pc' = "submit" => \A r \in Elements(selected') : caller'[r] \in {"waiting", "cancelled"}
      /\ pc' = "expired" => \A r \in Elements(selected') : caller'[r] # "waiting"
      /\ \A r \in Requests : caller'[r] = "waiting" => r \in Work'
<1>1. ASSUME NEW r \in Requests, NEW c \in Callers, r \notin Elements(sent) \/ c = "cancelled",
             c # "waiting", caller' = [caller EXCEPT ![r] = c],
             UNCHANGED <<channel, pending, selected, pc, sent>>
      PROVE  Goal
  <2>1. \A q \in Requests : caller'[q] = IF q = r THEN c ELSE caller[q]
    BY <1>b, <1>1
  <2>2. Queued' = Queued /\ Work' = Work
    BY <1>a, <1>1
  <2>3. ASSUME NEW q \in Work, q = r PROVE c = "cancelled"
    BY <1>0, <1>1, <2>3
  <2> QED BY <1>0, <1>a, <1>b, <1>c, <1>1, <2>1, <2>2, <2>3
<1>2. ASSUME NEW r \in Requests, TryAdmitMutation(r) \/ Refuse(r) \/ Reserve(r) \/ Cancel(r) PROVE Goal
  <2>1. UNCHANGED <<channel, pending, selected, pc, sent>>
    BY <1>2 DEF TryAdmitMutation, Refuse, Reserve, Cancel
  <2>2. \/ /\ caller[r] \in {"idle", "permitted"}
           /\ \E c \in {"answered", "permitted", "reserved"} : caller' = [caller EXCEPT ![r] = c]
        \/ caller' = [caller EXCEPT ![r] = "cancelled"]
    BY <1>2 DEF TryAdmitMutation, Refuse, Reserve, Cancel, Return
  <2>3. caller[r] \in {"idle", "permitted"} => r \notin Elements(sent)
    BY <1>c
  <2> QED BY <1>1, <2>1, <2>2, <2>3 DEF Callers
<1>3. ASSUME NEW r \in Requests, Send(r) PROVE Goal
  <2>1. caller[r] = "reserved" /\ UNCHANGED <<pending, selected, pc>>
    BY <1>3 DEF Send
  <2>2. CASE Return(r, "Overloaded") /\ UNCHANGED <<channel, sent>>
    <3>1. r \notin Elements(sent)
      BY <1>c, <2>1
    <3> QED BY <1>1, <2>1, <2>2, <3>1 DEF Return, Callers
  <2>3. CASE /\ caller' = [caller EXCEPT ![r] = "waiting"]
             /\ channel' = Append(channel, r) /\ sent' = Append(sent, r)
    <3>1. Elements(channel') = Elements(channel) \cup {r} /\ Elements(sent') = Elements(sent) \cup {r}
      BY <1>0, <1>b, <2>3, LastOfQueue
    <3>2. \A q \in Requests : caller'[q] = IF q = r THEN "waiting" ELSE caller[q]
      BY <1>b, <2>3
    <3>3. Queued' = Queued \cup {r} /\ Work' = Work \cup {r} /\ selected' = selected /\ pc' = pc
      BY <1>a, <2>1, <3>1
    <3>4. r \notin Elements(selected) /\ Elements(selected) \subseteq Requests
      BY <1>0, <1>a, <1>c, <2>1
    <3>5. \A q \in Elements(sent') : caller'[q] \in {"waiting", "answered", "cancelled"}
      BY <1>b, <1>c, <3>1, <3>2
    <3>6. \A q \in Queued' : caller'[q] \in {"waiting", "cancelled"}
      BY <1>0, <1>a, <1>c, <3>2, <3>3
    <3>7. /\ pc' = "submit" => \A q \in Elements(selected') : caller'[q] \in {"waiting", "cancelled"}
          /\ pc' = "expired" => \A q \in Elements(selected') : caller'[q] # "waiting"
      BY <1>c, <3>2, <3>3, <3>4
    <3>8. \A q \in Requests : caller'[q] = "waiting" => q \in Work'
      BY <1>c, <3>2, <3>3
    <3> QED BY <3>5, <3>6, <3>7, <3>8
  <2> QED BY <1>3, <2>2, <2>3 DEF Send
<1>4. ASSUME UNCHANGED <<caller, sent>>, Queued' \subseteq Queued,
             pc' = "submit" => \/ Elements(selected') \subseteq Queued
                               \/ pc = "submit" /\ selected' = selected,
             pc' = "expired" => pc = "expired" /\ selected' = selected,
             \A r \in Work \ Work' : caller[r] # "waiting"
      PROVE  Goal
  BY <1>0, <1>c, <1>4
<1>5. CASE BeginIteration \/ ObserveShutdown
  <2>1. UNCHANGED <<caller, sent, channel, pending, selected>> /\ pc' \notin {"submit", "expired"}
    BY <1>5 DEF BeginIteration, ObserveShutdown
  <2>2. Queued' = Queued /\ Work' = Work
    BY <1>a, <2>1
  <2> QED BY <1>4, <2>1, <2>2
<1>6. CASE ReceiveFirst
  <2> DEFINE got == <<Head(channel)>>
  <2>1. /\ channel # <<>> /\ pending = <<>> /\ channel' = Tail(channel) /\ pending' = Live(got)
        /\ pc' \notin {"submit", "expired"} /\ UNCHANGED <<caller, selected, sent>>
    BY <1>6 DEF ReceiveFirst
  <2>2. /\ got \in Seq(Requests) /\ Elements(got) = {Head(channel)}
        /\ Elements(channel) = {Head(channel)} \cup Elements(Tail(channel))
    BY <1>0, <2>1, FirstOfQueue
  <2>3. Elements(Live(got)) = {Head(channel)} \ Cancelled(got)
    BY <2>2, LiveQueue
  <2>4. \A r \in Cancelled(got) : caller[r] = "cancelled"
    BY DEF Cancelled
  <2> HIDE DEF got
  <2>5. Queued' \subseteq Queued /\ Work \ Work' \subseteq Cancelled(got)
    BY <1>a, <2>1, <2>2, <2>3, EmptyQueue
  <2> QED BY <1>4, <2>1, <2>4, <2>5
<1>7. CASE DiscardAll
  <2>1. /\ pending' = <<>> /\ Live(pending) = <<>> /\ pc' \notin {"submit", "expired"}
        /\ UNCHANGED <<caller, channel, selected, sent>>
    BY <1>7 DEF DiscardAll
  <2>2. {} = Elements(pending) \ Cancelled(pending)
    BY <1>0, <2>1, LiveQueue, EmptyQueue
  <2>3. \A r \in Cancelled(pending) : caller[r] = "cancelled"
    BY DEF Cancelled
  <2>4. Queued' \subseteq Queued /\ Work \ Work' \subseteq Cancelled(pending)
    BY <1>a, <2>1, <2>2, EmptyQueue
  <2> QED BY <1>4, <2>1, <2>3, <2>4
<1>8. CASE Coalesce
  <2> DEFINE kept == Live(pending)
             h == Head(channel)
  <2>1. /\ UNCHANGED <<selected, caller, sent>> /\ pc' \notin {"submit", "expired"}
        /\ \/ channel # <<>> /\ channel' = Tail(channel) /\ pending' = Append(kept, h)
           \/ channel' = channel /\ pending' = kept
    BY <1>8 DEF Coalesce
  <2>2. /\ kept \in Seq(Requests) /\ Elements(kept) = Elements(pending) \ Cancelled(pending)
        /\ \A r \in Cancelled(pending) : caller[r] = "cancelled"
    BY <1>0, LiveQueue DEF Cancelled
  <2>3. channel # <<>> => /\ Elements(Append(kept, h)) = Elements(kept) \cup {h}
                          /\ Elements(channel) = {h} \cup Elements(Tail(channel))
    BY <1>0, <2>2, FirstOfQueue, LastOfQueue
  <2> HIDE DEF kept, h
  <2>4. Queued' \subseteq Queued /\ Work \ Work' \subseteq Cancelled(pending)
    <3>1. CASE channel # <<>> /\ channel' = Tail(channel) /\ pending' = Append(kept, h)
      BY <1>a, <2>1, <2>2, <2>3, <3>1
    <3>2. CASE channel' = channel /\ pending' = kept
      BY <1>a, <2>1, <2>2, <3>2
    <3> QED BY <2>1, <3>1, <3>2
  <2> QED BY <1>4, <2>1, <2>2, <2>4
<1>9. CASE TakeBatch
  <2> DEFINE kept == Live(pending)
             n == BatchLength(kept)
  <2>1. /\ UNCHANGED <<caller, channel, sent>> /\ kept # <<>> /\ pc = "iterate"
        /\ selected' = SubSeq(kept, 1, n) /\ pending' = SubSeq(kept, n + 1, Len(kept))
        /\ pc' = "submit"
    BY <1>9 DEF TakeBatch
  <2>2. /\ kept \in Seq(Requests) /\ Elements(kept) = Elements(pending) \ Cancelled(pending)
        /\ \A r \in Cancelled(pending) : caller[r] = "cancelled"
    BY <1>0, LiveQueue DEF Cancelled
  <2>3. n \in 1 .. Len(kept)
    BY <2>1, <2>2, BatchIsAPrefix
  <2>4. selected = <<>>
    BY <2>1 DEF TypeOK
  <2> HIDE DEF kept, n
  <2>5. Elements(selected') \cup Elements(pending') = Elements(kept)
    BY <2>1, <2>2, <2>3, SplitQueue
  <2>6. /\ Queued' \subseteq Queued /\ Work \ Work' \subseteq Cancelled(pending)
        /\ Elements(selected') \subseteq Queued
    BY <1>a, <2>1, <2>2, <2>4, <2>5, EmptyQueue
  <2>7. pc' # "expired" /\ \A r \in Work \ Work' : caller[r] # "waiting"
    BY <2>1, <2>2, <2>6
  <2>8. UNCHANGED <<caller, sent>>
    BY <2>1
  <2> QED BY <1>4, <2>6, <2>7, <2>8
<1>10. CASE Submit
  <2>1. /\ UNCHANGED <<caller, channel, pending, sent>> /\ selected' = Live(selected) /\ pc' \notin {"submit", "expired"}
    BY <1>10 DEF Submit
  <2>2. /\ Elements(Live(selected)) = Elements(selected) \ Cancelled(selected)
        /\ \A r \in Cancelled(selected) : caller[r] = "cancelled"
    BY <1>0, LiveQueue DEF Cancelled
  <2>3. Queued' = Queued /\ Work \ Work' \subseteq Cancelled(selected)
    BY <1>a, <2>1, <2>2
  <2> QED BY <1>4, <2>1, <2>2, <2>3
<1>11. ASSUME NEW rs, NEW w, Reply(rs, w), UNCHANGED sent, Queued' \subseteq Queued, Queued' \cap rs = {},
              pc' # "submit", pc' = "expired" => Elements(selected') \subseteq rs,
              Work \ Work' \subseteq rs
       PROVE  Goal
  <2>1. \A r \in Requests :
             /\ r \in rs /\ caller[r] = "waiting" => caller'[r] = "answered"
             /\ ~(r \in rs /\ caller[r] = "waiting") => caller'[r] = caller[r]
    BY <1>11, ReplyIs
  <2>2. \A r \in Elements(sent') : caller'[r] \in {"waiting", "answered", "cancelled"}
    BY <1>b, <1>c, <1>11, <2>1
  <2>3. \A r \in Queued' : caller'[r] \in {"waiting", "cancelled"}
    <3> SUFFICES ASSUME NEW r \in Queued' PROVE caller'[r] \in {"waiting", "cancelled"}
      OBVIOUS
    <3>1. r \in Queued /\ r \in Requests /\ r \notin rs
      BY <1>0, <1>a, <1>11
    <3> QED BY <1>c, <2>1, <3>1
  <2>4. pc' = "expired" => \A r \in Elements(selected') : caller'[r] # "waiting"
    <3> SUFFICES ASSUME pc' = "expired", NEW r \in Elements(selected'), caller'[r] = "waiting" PROVE FALSE
      OBVIOUS
    <3>1. r \in rs
      BY <1>11
    <3>2. CASE r \in Requests
      BY <2>1, <3>1, <3>2
    <3>3. CASE r \notin Requests
      BY <1>0, <1>a, <3>3, ElementsType, TypeStep DEF TypeOK
    <3> QED BY <3>2, <3>3
  <2>5. \A r \in Requests : caller'[r] = "waiting" => r \in Work'
    BY <1>c, <1>11, <2>1
  <2> QED BY <1>11, <2>2, <2>3, <2>4, <2>5
<1>12. CASE WriteReturned \/ AbandonWrite
  <2>1. /\ UNCHANGED <<sent, channel, pending>> /\ selected' = <<>> /\ pc' \notin {"submit", "expired"}
        /\ \E w : Reply(Elements(selected), w)
    BY <1>12 DEF WriteReturned, AbandonWrite, FinishBatch
  <2>2. Queued' = Queued /\ Queued \cap Elements(selected) = {} /\ Work \ Work' \subseteq Elements(selected)
    BY <1>0, <1>a, <2>1
  <2> QED BY <1>11, <2>1, <2>2
<1>13. CASE Expire
  <2>1. /\ UNCHANGED <<sent, channel, pending, selected>> /\ pc' # "submit"
        /\ Reply(Elements(selected), "Ambiguous")
    BY <1>13 DEF Expire
  <2>2. Queued' = Queued /\ Queued \cap Elements(selected) = {} /\ Work = Work'
    BY <1>0, <1>a, <2>1
  <2> QED BY <1>11, <2>1, <2>2
<1>14. CASE ExpiredWriteReturned
  <2>1. UNCHANGED <<caller, sent, channel, pending>> /\ selected' = <<>> /\ pc' \notin {"submit", "expired"}
    BY <1>14 DEF ExpiredWriteReturned, FinishBatch
  <2>2. /\ pc = "expired" /\ Queued' = Queued /\ Work \ Work' \subseteq Elements(selected)
        /\ pc' # "expired"
    BY <1>a, <1>14, <2>1 DEF ExpiredWriteReturned, FinishBatch
  <2> QED BY <1>4, <1>c, <2>1, <2>2
<1>15. CASE ClosePending
  <2>1. /\ UNCHANGED <<sent, channel, selected>> /\ pending' = <<>> /\ pc' \notin {"submit", "expired"}
        /\ Reply(Elements(pending), "ClusterForming")
    BY <1>15 DEF ClosePending
  <2>2. Queued' \subseteq Queued /\ Queued' \cap Elements(pending) = {} /\ Work \ Work' \subseteq Elements(pending)
    BY <1>0, <1>a, <2>1, EmptyQueue
  <2> QED BY <1>11, <2>1, <2>2
<1>16. CASE CloseChannel
  <2>1. CASE channel # <<>>
    <3>1. /\ UNCHANGED <<sent, pending, selected>> /\ channel' = Tail(channel) /\ pc' \notin {"submit", "expired"}
          /\ Reply({Head(channel)}, "ClusterForming") /\ pending = <<>>
      BY <1>16, <2>1 DEF CloseChannel
    <3>2. Elements(channel) = {Head(channel)} \cup Elements(Tail(channel))
      BY <1>0, <2>1, FirstOfQueue
    <3>3. Queued' \subseteq Queued /\ Queued' \cap {Head(channel)} = {} /\ Work \ Work' \subseteq {Head(channel)}
      BY <1>0, <1>a, <2>1, <3>1, <3>2, EmptyQueue
    <3> QED BY <1>11, <3>1, <3>3
  <2>2. CASE channel = <<>>
    <3>1. UNCHANGED <<caller, sent, channel, pending, selected>> /\ pc' \notin {"submit", "expired"}
      BY <1>16, <2>2 DEF CloseChannel
    <3>2. Queued' = Queued /\ Work' = Work
      BY <1>a, <3>1
    <3> QED BY <1>4, <3>1, <3>2
  <2> QED BY <2>1, <2>2
<1>17. CASE DropReceiver
  <2>1. /\ UNCHANGED <<sent, pending, selected>> /\ channel' = <<>> /\ pc' \notin {"submit", "expired"}
        /\ Reply(Elements(channel), "Stopped")
    BY <1>17 DEF DropReceiver
  <2>2. Queued' \subseteq Queued /\ Queued' \cap Elements(channel) = {} /\ Work \ Work' \subseteq Elements(channel)
    BY <1>0, <1>a, <2>1, EmptyQueue
  <2> QED BY <1>11, <2>1, <2>2
<1>18. ASSUME UNCHANGED <<caller, sent, channel, pending, selected, pc>> PROVE Goal
  <2>1. Queued' = Queued /\ Work' = Work
    BY <1>a, <1>18
  <2> QED BY <1>4, <1>18, <2>1
<1>19. ASSUME NEW b \in DOMAIN batches, Commit(b) PROVE Goal
  BY <1>18, <1>19 DEF Commit
<1>20. CASE StartDrain \/ FinishDrain \/ StopPublisher \/ UNCHANGED vars
  BY <1>18, <1>20 DEF StartDrain, FinishDrain, StopPublisher, vars
<1> QED BY <1>2, <1>3, <1>5, <1>6, <1>7, <1>8, <1>9, <1>10, <1>12, <1>13, <1>14, <1>15, <1>16, <1>17, <1>19, <1>20
        DEF Next, WorkerSteps, WriteReturns

-----------------------------------------------------------------------------
(* Permits and the shutdown.                                               *)
Permitted == {r \in Requests : caller[r] = "permitted"}

LEMMA PermitStep ==
    ASSUME TypeOK, PipelineInv, CallerInv, PermitInv, [Next]_vars
    PROVE  PermitInv'
<1> USE DEF callers, worker, raft
<1>0. /\ Work \in SUBSET Requests /\ Work \subseteq Elements(sent) /\ Held = Reserved \cup Work
      /\ channel \in Seq(Requests)
      /\ Elements(channel) \cap Elements(pending) = {}
      /\ Elements(channel) \cap Elements(selected) = {}
  BY StagesDisjoint
<1>a. Working = Permitted \cup Reserved \cup Work /\ Working' = Permitted' \cup Reserved' \cup Work'
  BY <1>0 DEF Working, Permitted, Held, Reserved, Work
<1>b. \A r \in Requests : r \in Work => caller[r] \notin {"idle", "permitted", "reserved"}
  BY <1>0 DEF CallerInv
<1>c. caller \in [Requests -> Callers]
  BY DEF TypeOK
<1>d. Working \subseteq permits
  BY DEF PermitInv
<1>1. ASSUME Working' \subseteq permits', UNCHANGED <<gate, phase>>, permits' \subseteq permits
      PROVE  PermitInv'
  BY <1>1 DEF PermitInv
<1>2. ASSUME NEW rs \in SUBSET Work, Work' = Work \ rs, Reserved' = Reserved, permits' = permits \ rs,
             Permitted' = Permitted
      PROVE  Working' \subseteq permits' /\ permits' \subseteq permits
  <2>1. rs \cap (Permitted \cup Reserved) = {}
    BY <1>b, <1>2 DEF Permitted, Reserved
  <2> QED BY <1>a, <1>d, <1>2, <2>1
<1>3. CASE ReceiveFirst \/ DiscardAll \/ Coalesce \/ TakeBatch \/ Submit \/ WriteReturned
           \/ ExpiredWriteReturned \/ AbandonWrite \/ ClosePending \/ (CloseChannel /\ channel # <<>>)
  <2>1. PICK rs : GivesBack(rs)
    BY <1>3, WorkerGivesBack
  <2>2. UNCHANGED <<gate, phase>>
    BY <1>3 DEF ReceiveFirst, DiscardAll, Coalesce, TakeBatch, Submit, WriteReturned,
                ExpiredWriteReturned, AbandonWrite, ClosePending, CloseChannel
  <2>3. caller' = caller \/ \E qs, w : Reply(qs, w)
    BY <1>3 DEF ReceiveFirst, DiscardAll, Coalesce, TakeBatch, Submit, WriteReturned,
                ExpiredWriteReturned, AbandonWrite, ClosePending, CloseChannel
  <2>4. Permitted' = Permitted
    BY <2>3 DEF Reply, Permitted
  <2> QED BY <1>1, <1>2, <2>1, <2>2, <2>4 DEF GivesBack
<1>4. ASSUME NEW r \in Requests, NEW c \in Callers, caller' = [caller EXCEPT ![r] = c],
             Work' = Work, UNCHANGED phase,
             \/ /\ caller[r] \in {"idle", "permitted", "reserved"} /\ c \in {"answered", "cancelled"}
                /\ permits' = permits \ {r} /\ UNCHANGED gate
             \/ /\ caller[r] = "permitted" /\ c = "reserved"
                /\ UNCHANGED <<permits, gate>>
             \/ /\ caller[r] = "waiting" /\ c = "cancelled" /\ UNCHANGED <<permits, gate>>
      PROVE  PermitInv'
  <2>1. \A q \in Requests : caller'[q] = IF q = r THEN c ELSE caller[q]
    BY <1>c, <1>4
  <2>2. CASE caller[r] \in {"idle", "permitted", "reserved"} /\ c \in {"answered", "cancelled"}
                /\ permits' = permits \ {r} /\ UNCHANGED gate
    <3>1. r \notin Work /\ Permitted' = Permitted \ {r} /\ Reserved' = Reserved \ {r}
      BY <1>b, <2>1, <2>2 DEF Permitted, Reserved
    <3>2. Working' \subseteq permits' /\ permits' \subseteq permits
      BY <1>a, <1>d, <1>4, <2>2, <3>1
    <3> QED BY <1>1, <1>4, <2>2, <3>2
  <2>3. CASE caller[r] = "permitted" /\ c = "reserved" /\ UNCHANGED <<permits, gate>>
    <3>1. Permitted' \subseteq Permitted /\ Reserved' \subseteq Reserved \cup Permitted
      BY <2>1, <2>3 DEF Permitted, Reserved
    <3>2. Working' \subseteq permits'
      BY <1>a, <1>d, <1>4, <2>3, <3>1
    <3> QED BY <1>1, <1>4, <2>3, <3>2
  <2>4. CASE caller[r] = "waiting" /\ c = "cancelled" /\ UNCHANGED <<permits, gate>>
    <3>1. Permitted' \subseteq Permitted /\ Reserved' \subseteq Reserved
      BY <2>1, <2>4 DEF Permitted, Reserved
    <3>2. Working' \subseteq permits'
      BY <1>a, <1>d, <1>4, <2>4, <3>1
    <3> QED BY <1>1, <1>4, <2>4, <3>2
  <2> QED BY <1>4, <2>2, <2>3, <2>4
<1>5. UNCHANGED <<channel, pending, selected>> => Work' = Work
  BY DEF Work, Queued
<1>6. ASSUME NEW r \in Requests, TryAdmitMutation(r) PROVE PermitInv'
  <2>1. CASE gate = "closed"
    BY <1>4, <1>5, <1>6, <2>1 DEF TryAdmitMutation, Return, Callers
  <2>2. CASE gate # "closed"
    <3>1. /\ caller' = [caller EXCEPT ![r] = "permitted"] /\ permits' = permits \cup {r}
          /\ UNCHANGED <<gate, phase>> /\ Work' = Work /\ caller[r] = "idle"
      BY <1>5, <1>6, <2>2 DEF TryAdmitMutation
    <3>2. Permitted' = Permitted \cup {r} /\ Reserved' = Reserved
      BY <1>c, <3>1 DEF Permitted, Reserved
    <3>3. Working' \subseteq permits'
      BY <1>a, <1>d, <3>1, <3>2
    <3> QED BY <2>2, <3>1, <3>3 DEF PermitInv
  <2> QED BY <2>1, <2>2
<1>7. ASSUME NEW r \in Requests, Refuse(r) PROVE PermitInv'
  BY <1>4, <1>5, <1>7 DEF Refuse, Return, Callers
<1>8. ASSUME NEW r \in Requests, Reserve(r) PROVE PermitInv'
  <2>1. UNCHANGED <<gate, phase>> /\ Work' = Work /\ caller[r] = "permitted"
    BY <1>5, <1>8 DEF Reserve
  <2>2. \/ caller' = [caller EXCEPT ![r] = "answered"] /\ permits' = permits \ {r}
        \/ caller' = [caller EXCEPT ![r] = "reserved"] /\ UNCHANGED permits
    BY <1>8 DEF Reserve, Return
  <2> QED BY <1>4, <2>1, <2>2 DEF Callers
<1>9. ASSUME NEW r \in Requests, Send(r) PROVE PermitInv'
  <2>1. UNCHANGED <<gate, phase, pending, selected>> /\ caller[r] = "reserved"
    BY <1>9 DEF Send
  <2>2. CASE Return(r, "Overloaded") /\ UNCHANGED channel
    BY <1>4, <1>5, <2>1, <2>2 DEF Return, Callers
  <2>3. CASE caller' = [caller EXCEPT ![r] = "waiting"] /\ channel' = Append(channel, r) /\ UNCHANGED permits
    <3>1. Elements(channel') = Elements(channel) \cup {r}
      BY <1>0, <2>3, LastOfQueue
    <3>2. Work' = Work \cup {r} /\ Reserved' \subseteq Reserved /\ Permitted' \subseteq Permitted /\ r \in Reserved
      BY <1>c, <2>1, <2>3, <3>1 DEF Work, Queued, Reserved, Permitted
    <3>3. Working' \subseteq permits'
      BY <1>a, <1>d, <2>3, <3>2
    <3> QED BY <1>1, <2>1, <2>3, <3>3
  <2> QED BY <1>9, <2>2, <2>3 DEF Send
<1>10. ASSUME NEW r \in Requests, Cancel(r) PROVE PermitInv'
  <2>1. UNCHANGED <<gate, phase>> /\ Work' = Work /\ caller' = [caller EXCEPT ![r] = "cancelled"]
    BY <1>5, <1>10 DEF Cancel
  <2>2. \/ caller[r] = "permitted" /\ permits' = permits \ {r}
        \/ caller[r] = "waiting" /\ UNCHANGED permits
    BY <1>10 DEF Cancel
  <2> QED BY <1>4, <2>1, <2>2 DEF Callers
<1>11. ASSUME UNCHANGED <<channel, pending, selected, permits>>, caller' = caller \/ \E qs, w : Reply(qs, w)
       PROVE  Working' \subseteq permits'
  <2>1. Permitted' = Permitted /\ Reserved' = Reserved
    BY <1>11 DEF Reply, Permitted, Reserved
  <2> QED BY <1>a, <1>d, <1>5, <1>11, <2>1
<1>12. CASE BeginIteration \/ ObserveShutdown \/ Expire \/ (CloseChannel /\ channel = <<>>)
  <2>1. /\ UNCHANGED <<channel, pending, selected, permits, gate, phase>>
        /\ caller' = caller \/ \E qs, w : Reply(qs, w)
    BY <1>12 DEF BeginIteration, ObserveShutdown, Expire, CloseChannel
  <2> QED BY <1>1, <1>11, <2>1
<1>13. CASE DropReceiver
  <2>1. /\ UNCHANGED <<pending, selected, gate, phase>> /\ channel' = <<>>
        /\ permits' = permits \ Elements(channel) /\ Reply(Elements(channel), "Stopped")
    BY <1>13 DEF DropReceiver
  <2>2. Permitted' = Permitted /\ Reserved' = Reserved
    BY <2>1 DEF Reply, Permitted, Reserved
  <2>3. Work' = Work \ Elements(channel) /\ Elements(channel) \in SUBSET Work
    BY <1>0, <2>1, EmptyQueue DEF Work, Queued
  <2> QED BY <1>1, <1>2, <2>1, <2>2, <2>3
<1>14. ASSUME NEW b \in DOMAIN batches, Commit(b) PROVE PermitInv'
  BY <1>1, <1>11, <1>14 DEF Commit
<1>15. CASE UNCHANGED vars
  BY <1>1, <1>11, <1>15 DEF vars
<1>16. CASE StartDrain \/ FinishDrain \/ StopPublisher
  <2>1. Working' \subseteq permits'
    BY <1>11, <1>16 DEF StartDrain, FinishDrain, StopPublisher
  <2> QED BY <1>16, <2>1 DEF StartDrain, FinishDrain, StopPublisher, PermitInv
<1> QED BY <1>3, <1>6, <1>7, <1>8, <1>9, <1>10, <1>12, <1>13, <1>14, <1>15, <1>16
        DEF Next, WorkerSteps, WriteReturns

LEMMA ShutdownStep ==
    ASSUME TypeOK, ShutdownInv, [Next]_vars
    PROVE  ShutdownInv'
<1> USE DEF callers, worker, raft
<1>0. shutdown \in BOOLEAN /\ batches \in Seq(Seq(Requests))
  BY DEF TypeOK
<1>1. ASSUME UNCHANGED <<shutdown, phase, batches>>, inRaft' \subseteq inRaft,
             pc' \in {"closing", "exiting", "done"} => shutdown = TRUE \/ pc \in {"closing", "exiting", "done"},
             shutdown = FALSE /\ pc' \notin {"write", "expired"} =>
                 pc \notin {"write", "expired"} \/ inRaft' = inRaft \ {Len(batches)}
      PROVE  ShutdownInv'
  BY <1>0, <1>1 DEF ShutdownInv
<1>2. ASSUME NEW r \in Requests, TryAdmitMutation(r) \/ Refuse(r) \/ Reserve(r) \/ Send(r) \/ Cancel(r)
      PROVE  ShutdownInv'
  BY <1>1, <1>2 DEF TryAdmitMutation, Refuse, Reserve, Send, Cancel
<1>3. CASE BeginIteration \/ ReceiveFirst \/ ObserveShutdown \/ DiscardAll \/ TakeBatch
  BY <1>0, <1>1, <1>3 DEF BeginIteration, ReceiveFirst, ObserveShutdown, DiscardAll, TakeBatch
<1>4. CASE Coalesce
  BY <1>0, <1>1, <1>4 DEF Coalesce
<1>5. CASE Submit
  <2>1. pc = "submit" /\ UNCHANGED <<shutdown, phase>>
    BY <1>5 DEF Submit
  <2>2. CASE pc' = "loop" /\ UNCHANGED <<batches, inRaft>>
    BY <1>1, <2>1, <2>2
  <2>3. CASE pc' = "write" /\ batches' = Append(batches, Live(selected))
             /\ inRaft' = inRaft \cup {Len(batches) + 1}
    <3>1. Len(batches') = Len(batches) + 1
      BY <1>0, <2>3
    <3> QED BY <2>1, <2>3, <3>1 DEF ShutdownInv
  <2> QED BY <1>5, <2>2, <2>3 DEF Submit
<1>6. CASE WriteReturned \/ ExpiredWriteReturned
  <2>1. /\ UNCHANGED <<shutdown, phase, batches>> /\ inRaft' = inRaft \ {Len(batches)} /\ pc' = "loop"
    BY <1>6 DEF WriteReturned, ExpiredWriteReturned, FinishBatch
  <2> QED BY <1>1, <2>1
<1>7. CASE Expire \/ AbandonWrite \/ ClosePending \/ CloseChannel \/ DropReceiver
  <2>1. UNCHANGED <<shutdown, phase, batches, inRaft>>
    BY <1>7 DEF Expire, AbandonWrite, ClosePending, CloseChannel, DropReceiver
  <2>2. /\ pc' \in {"closing", "exiting", "done"} => pc \in {"closing", "exiting", "done"}
        /\ shutdown = FALSE /\ pc' \notin {"write", "expired"} => pc \notin {"write", "expired"}
    BY <1>7 DEF Expire, AbandonWrite, ClosePending, CloseChannel, DropReceiver, FinishBatch
  <2> QED BY <1>1, <2>1, <2>2
<1>8. ASSUME NEW b \in DOMAIN batches, Commit(b) PROVE ShutdownInv'
  BY <1>1, <1>8 DEF Commit
<1>9. CASE StartDrain \/ FinishDrain \/ StopPublisher
  BY <1>0, <1>9 DEF StartDrain, FinishDrain, StopPublisher, ShutdownInv
<1>10. CASE UNCHANGED vars
  BY <1>1, <1>10 DEF vars
<1> QED BY <1>2, <1>3, <1>4, <1>5, <1>6, <1>7, <1>8, <1>9, <1>10 DEF Next, WorkerSteps, WriteReturns

-----------------------------------------------------------------------------
(* Answers.                                                                *)

LEMMA AnswersStep ==
    ASSUME TypeOK, PipelineInv, CallerInv, AnswersAreTrue, [Next]_vars
    PROVE  AnswersAreTrue'
<1> USE DEF callers, worker, raft
<1>0. /\ channel \in Seq(Requests) /\ pending \in Seq(Requests) /\ selected \in Seq(Requests)
      /\ Work \in SUBSET Requests /\ Work \subseteq Elements(sent)
  BY StagesDisjoint
<1>a. /\ \A r \in Requests : answer[r] \in Definite => r \notin SubmittedIn(batches)
      /\ \A r \in Requests : answer[r] = "Decided" => \E b \in committed : r \in Elements(batches[b])
  BY DEF AnswersAreTrue, SubmittedIn
<1>b. SUFFICES
      /\ \A r \in Requests : answer'[r] \in Definite => r \notin SubmittedIn(batches')
      /\ \A r \in Requests : answer'[r] = "Decided" => \E b \in committed' : r \in Elements(batches'[b])
  BY DEF AnswersAreTrue, SubmittedIn
<1> DEFINE Goal ==
      /\ \A r \in Requests : answer'[r] \in Definite => r \notin SubmittedIn(batches')
      /\ \A r \in Requests : answer'[r] = "Decided" => \E b \in committed' : r \in Elements(batches'[b])
<1>c. Pipeline(sent, channel, pending, selected, pc, batches)
  BY DEF PipelineInv
<1>d. /\ sent \in Seq(Requests) /\ Once(sent) /\ SubmittedIn(batches) \subseteq Elements(sent)
      /\ Precedes(sent, SubmittedIn(batches), Elements(pending))
      /\ Precedes(sent, SubmittedIn(batches), Elements(channel))
      /\ pc \in {"write", "expired"} => batches # <<>> /\ selected = batches[Len(batches)]
  BY <1>c DEF Pipeline, Stages, Batches, Ahead
<1>e. SubmittedIn(batches) \cap Elements(pending) = {} /\ SubmittedIn(batches) \cap Elements(channel) = {}
  BY <1>d, StagesApart
<1>f. /\ answer \in [Requests -> Answers \cup {None}] /\ batches \in Seq(Seq(Requests))
      /\ committed \subseteq DOMAIN batches
      /\ \A r \in Requests : caller[r] = "answered" <=> answer[r] # None
  BY DEF TypeOK
<1>1. ASSUME UNCHANGED <<answer, batches>>, committed \subseteq committed' PROVE Goal
  BY <1>a, <1>1
<1>2. ASSUME NEW r \in Requests, r \notin Elements(sent), NEW w \in Definite, Return(r, w),
             UNCHANGED <<batches, committed>>
      PROVE  Goal
  <2>1. \A q \in Requests : answer'[q] = IF q = r THEN w ELSE answer[q]
    BY <1>f, <1>2 DEF Return
  <2>2. r \notin SubmittedIn(batches) /\ w # "Decided"
    BY <1>d, <1>2 DEF Definite
  <2> QED BY <1>a, <1>2, <2>1, <2>2
<1>3. ASSUME NEW r \in Requests, TryAdmitMutation(r) \/ Refuse(r) \/ Reserve(r) \/ Send(r) \/ Cancel(r)
      PROVE  Goal
  <2>1. UNCHANGED <<batches, committed>>
    BY <1>3 DEF TryAdmitMutation, Refuse, Reserve, Send, Cancel
  <2>2. \/ UNCHANGED answer
        \/ caller[r] \in {"idle", "permitted", "reserved"} /\ \E w \in Definite : Return(r, w)
    BY <1>3 DEF TryAdmitMutation, Refuse, Reserve, Send, Cancel, Definite
  <2>3. caller[r] \in {"idle", "permitted", "reserved"} => r \notin Elements(sent)
    BY DEF CallerInv
  <2> QED BY <1>1, <1>2, <2>1, <2>2, <2>3
<1>4. CASE \/ BeginIteration \/ ReceiveFirst \/ ObserveShutdown \/ DiscardAll \/ Coalesce
           \/ TakeBatch \/ ExpiredWriteReturned
           \/ StartDrain \/ FinishDrain \/ StopPublisher \/ UNCHANGED vars
  BY <1>1, <1>4 DEF BeginIteration, ReceiveFirst, ObserveShutdown, DiscardAll, Coalesce, TakeBatch,
                    ExpiredWriteReturned, StartDrain, FinishDrain, StopPublisher, vars
<1>5. ASSUME NEW b \in DOMAIN batches, Commit(b) PROVE Goal
  BY <1>1, <1>5 DEF Commit
<1>6. CASE Submit
  <2> DEFINE kept == Live(selected)
  <2>1. UNCHANGED <<answer, committed>> /\ pc = "submit"
    BY <1>6 DEF Submit
  <2>2. CASE batches' = batches
    BY <1>1, <2>1, <2>2
  <2>3. CASE batches' = Append(batches, kept)
    <3>1. kept \in Seq(Requests) /\ Elements(kept) \subseteq Elements(selected)
      BY <1>0, LiveQueue
    <3> HIDE DEF kept
    <3>2. /\ \A b \in DOMAIN batches : batches'[b] = batches[b]
          /\ DOMAIN batches' = DOMAIN batches \cup {Len(batches) + 1}
          /\ batches'[Len(batches) + 1] = kept
      <4>1. /\ Len(batches) \in Nat /\ DOMAIN batches = 1 .. Len(batches)
            /\ DOMAIN batches' = 1 .. Len(batches) + 1 /\ batches'[Len(batches) + 1] = kept
            /\ \A b \in DOMAIN batches : batches'[b] = batches[b]
        BY <1>f, <2>3, <3>1, AppendFacts
      <4> QED BY <4>1
    <3>3. SubmittedIn(batches') = SubmittedIn(batches) \cup Elements(kept)
      BY <3>2 DEF SubmittedIn
    <3>4. ASSUME NEW r \in Elements(kept) PROVE answer[r] \notin Definite
      <4>1. r \in Elements(selected) /\ r \in Requests
        BY <1>0, <3>1 DEF Work
      <4>2. caller[r] # "answered"
        BY <2>1, <4>1 DEF CallerInv
      <4> QED BY <1>f, <4>1, <4>2, NoneAssumption DEF Answers
    <3>5. \A r \in Requests : answer'[r] \in Definite => r \notin SubmittedIn(batches')
      BY <1>a, <2>1, <3>3, <3>4
    <3>6. \A r \in Requests : answer'[r] = "Decided" => \E b \in committed' : r \in Elements(batches'[b])
      BY <1>a, <1>f, <2>1, <3>2
    <3> QED BY <3>5, <3>6
  <2> QED BY <1>6, <2>2, <2>3 DEF Submit
<1>7. ASSUME NEW rs, NEW w \in Answers, Reply(rs, w), UNCHANGED <<batches, committed>>,
             w \in Definite => rs \cap SubmittedIn(batches) = {},
             w = "Decided" => \E b \in committed : rs \subseteq Elements(batches[b])
      PROVE  Goal
  <2>1. \A r \in Requests : answer'[r] = answer[r] \/ (r \in rs /\ answer'[r] = w)
    BY <1>7 DEF Reply
  <2>2. \A r \in Requests : answer'[r] \in Definite => r \notin SubmittedIn(batches')
    BY <1>a, <1>7, <2>1
  <2>3. \A r \in Requests : answer'[r] = "Decided" => \E b \in committed' : r \in Elements(batches'[b])
    BY <1>a, <1>7, <2>1
  <2> QED BY <2>2, <2>3
<1>8. CASE WriteReturned
  <2>1. /\ UNCHANGED <<batches, committed>> /\ pc = "write"
        /\ \/ Len(batches) \in committed /\ Reply(Elements(selected), "Decided")
           \/ Reply(Elements(selected), "NotLeader")
    BY <1>8 DEF WriteReturned
  <2>2. selected = batches[Len(batches)]
    BY <1>d, <2>1
  <2>3. /\ "Decided" \in Answers \ Definite /\ "NotLeader" \in Answers \ Definite
        /\ "NotLeader" # "Decided"
    BY DEF Answers, Definite
  <2>4. CASE Reply(Elements(selected), "NotLeader")
    BY <1>7, <2>1, <2>3, <2>4
  <2>5. CASE Len(batches) \in committed /\ Reply(Elements(selected), "Decided")
    <3>1. \E b \in committed : Elements(selected) \subseteq Elements(batches[b])
      BY <2>2, <2>5
    <3> QED BY <1>7, <2>1, <2>3, <2>5, <3>1
  <2> QED BY <2>1, <2>4, <2>5
<1>9. CASE Expire \/ AbandonWrite \/ DropReceiver
  <2>1. /\ UNCHANGED <<batches, committed>>
        /\ \E rs, w : w \in {"Ambiguous", "Stopped"} /\ Reply(rs, w)
    BY <1>9 DEF Expire, AbandonWrite, DropReceiver
  <2>2. \A w \in {"Ambiguous", "Stopped"} : w \in Answers /\ w \notin Definite /\ w # "Decided"
    BY DEF Answers, Definite
  <2> QED BY <1>7, <2>1, <2>2
<1>10. "ClusterForming" \in Answers /\ "ClusterForming" # "Decided"
  BY DEF Answers, Definite
<1>11. CASE ClosePending
  <2>1. UNCHANGED <<batches, committed>> /\ Reply(Elements(pending), "ClusterForming")
    BY <1>11 DEF ClosePending
  <2> QED BY <1>e, <1>7, <1>10, <2>1
<1>12. CASE CloseChannel
  <2>1. CASE channel # <<>>
    <3>1. UNCHANGED <<batches, committed>> /\ Reply({Head(channel)}, "ClusterForming")
      BY <1>12, <2>1 DEF CloseChannel
    <3>2. {Head(channel)} \cap SubmittedIn(batches) = {}
      BY <1>0, <1>e, <2>1, FirstOfQueue
    <3> QED BY <1>7, <1>10, <3>1, <3>2
  <2>2. CASE channel = <<>>
    BY <1>1, <1>12, <2>2 DEF CloseChannel
  <2> QED BY <2>1, <2>2
<1> QED BY <1>3, <1>4, <1>5, <1>6, <1>8, <1>9, <1>11, <1>12 DEF Next, WorkerSteps, WriteReturns

-----------------------------------------------------------------------------
(* The theorems.                                                           *)

LEMMA IInvInit == Init => IInv
<1> SUFFICES ASSUME Init PROVE IInv
  OBVIOUS
<1>1. TypeOK
  <2>1. GateOK
    BY DEF Init, GateOK, Phases
  <2>2. AnsweredOK
    BY DEF Init, AnsweredOK, Callers
  <2>3. usage \in Usage /\ shutdown \in BOOLEAN
    BY DEF Init, Usage
  <2>4. StagesOK
    BY DEF Init, StagesOK, Steps
  <2>5. RaftOK
    <3>1. sent = <<>> /\ batches = <<>> /\ inRaft = {} /\ committed = {}
      BY DEF Init
    <3>2. <<>> \in Seq(Requests) /\ \A T : <<>> \in Seq(T)
      OBVIOUS
    <3> QED BY <3>1, <3>2 DEF RaftOK
  <2> QED BY <2>1, <2>2, <2>3, <2>4, <2>5, TypeSplit
<1>2. PipelineInv
  <2>1. /\ sent = <<>> /\ channel = <<>> /\ pending = <<>> /\ selected = <<>> /\ batches = <<>>
        /\ pc = "loop"
    BY DEF Init
  <2>2. SubmittedIn(<<>>) = {}
    BY DEF SubmittedIn
  <2>3. Stages(sent, channel, pending, selected)
    BY <2>1, EmptyQueue DEF Stages, Once, Precedes
  <2>4. Batches(sent, batches)
    BY <2>1, <2>2, EmptyQueue DEF Batches
  <2>5. Ahead(sent, channel, pending, selected, pc, batches)
    BY <2>1, <2>2, EmptyQueue DEF Ahead, Precedes
  <2> QED BY <2>3, <2>4, <2>5 DEF PipelineInv, Pipeline
<1>3. CallerInv
  BY EmptyQueue DEF Init, CallerInv, Queued
<1>4. Held = {}
  BY EmptyQueue DEF Init, Held, Queued
<1>5. UsageInv
  <2>1. Cardinality({}) = 0 /\ Charge({}) = 0
    BY FS_EmptySet, ChargeStep
  <2>2. usage.requests = 0 /\ usage.records = 0 /\ QueueRequests >= 0 /\ QueueRecords >= 0
    BY SchedulerAssumption DEF Init
  <2> QED BY <1>4, <2>1, <2>2 DEF UsageInv, Covers, Counts
<1>6. EndInv /\ ShutdownInv
  BY DEF Init, EndInv, ShutdownInv
<1>7. PermitInv
  BY <1>4 DEF Init, PermitInv, Working
<1>8. AnswersAreTrue
  BY NoneAssumption DEF Init, AnswersAreTrue, Answers
<1> QED BY <1>1, <1>2, <1>3, <1>5, <1>6, <1>7, <1>8 DEF IInv

LEMMA IInvStep == IInv /\ [Next]_vars => IInv'
BY TypeStep, PipelineStep, CallerStep, UsageStep, EndStep, PermitStep, ShutdownStep, AnswersStep DEF IInv

LEMMA IInvAlways == Spec => []IInv
<1>1. IInv /\ [Next]_vars => IInv'
  BY IInvStep
<1> QED BY IInvInit, <1>1, PTL DEF Spec

(* Every variable of the publish path keeps its type; a batch is held      *)
(* exactly while it is being submitted or written, and an answer is there  *)
(* exactly for a call that returned.                                       *)
THEOREM TypeCorrect == Spec => []TypeOK
<1>1. IInv => TypeOK
  BY DEF IInv
<1> QED BY IInvAlways, <1>1, PTL

(* Requests reach client_write in the order of their try_send, whatever    *)
(* discard_cancelled, take_batch and submit_batch drop or leave behind,    *)
(* for every number of requests and every batch configuration.             *)
THEOREM RequestsReachRaftInOrder == Spec => []FifoSubmission
<1>1. ASSUME IInv PROVE FifoSubmission
  <2>0. Batches(sent, batches) /\ Once(sent)
    BY <1>1 DEF IInv, PipelineInv, Pipeline, Stages
  <2> DEFINE position(r) == CHOOSE i \in DOMAIN sent : sent[i] = r
  <2> SUFFICES ASSUME NEW a \in DOMAIN batches, NEW b \in DOMAIN batches,
                      NEW i \in DOMAIN batches[a], NEW j \in DOMAIN batches[b],
                      a < b \/ (a = b /\ i < j)
               PROVE  position(batches[a][i]) < position(batches[b][j])
    BY DEF FifoSubmission
  <2>1. Before(sent, batches[a][i], batches[b][j])
    <3>1. CASE a < b
      BY <2>0, <3>1 DEF Batches, Precedes, Elements
    <3>2. CASE a = b /\ i < j
      BY <2>0, <3>2 DEF Batches, Ordered
    <3> QED BY <3>1, <3>2
  <2>2. PICK p \in DOMAIN sent, q \in DOMAIN sent :
            p < q /\ sent[p] = batches[a][i] /\ sent[q] = batches[b][j]
    BY <2>1 DEF Before
  <2>3. position(batches[a][i]) = p /\ position(batches[b][j]) = q
    BY <2>0, <2>2 DEF Once
  <2> QED BY <2>2, <2>3
<1> QED BY IInvAlways, <1>1, PTL

(* A caller told ShuttingDown, ClusterForming, Overloaded or a refusal was *)
(* never submitted, and one given a durable result is in a committed       *)
(* batch: in particular the worker that closes answers only what it did    *)
(* not submit, and an abandoned write is Ambiguous.                        *)
THEOREM AnswersAreAlwaysTrue == Spec => []AnswersAreTrue
<1>1. IInv => AnswersAreTrue
  BY DEF IInv
<1> QED BY IInvAlways, <1>1, PTL

LEMMA QueueLength ==
    ASSUME NEW o \in Seq(Requests), NEW s \in Seq(Requests), Once(o), Ordered(o, s)
    PROVE  Cardinality(Elements(s)) = Len(s)
<1>1. ASSUME NEW i \in DOMAIN s, NEW j \in DOMAIN s, s[i] = s[j] PROVE i = j
  <2>1. ASSUME NEW a \in DOMAIN s, NEW b \in DOMAIN s, a < b, s[a] = s[b] PROVE FALSE
    <3>1. Before(o, s[a], s[b])
      BY <2>1 DEF Ordered
    <3>2. PICK p \in DOMAIN o, q \in DOMAIN o : p < q /\ o[p] = s[a] /\ o[q] = s[b]
      BY <3>1 DEF Before
    <3> QED BY <2>1, <3>2 DEF Once
  <2>2. i \in Nat /\ j \in Nat
    OBVIOUS
  <2> QED BY <1>1, <2>1, <2>2
<1>2. s \in [1 .. Len(s) -> Elements(s)] /\ DOMAIN s = 1 .. Len(s) /\ Len(s) \in Nat
  BY DEF Elements
<1>3. \A e \in Elements(s) : \E i \in 1 .. Len(s) : s[i] = e
  BY <1>2 DEF Elements
<1>4. s \in Bijection(1 .. Len(s), Elements(s))
  BY <1>1, <1>2, <1>3 DEF Bijection, Injection, Surjection, IsInjective
<1>5. ExistsBijection(1 .. Len(s), Elements(s))
  BY <1>4 DEF ExistsBijection
<1> QED BY <1>2, <1>5, FS_CountingElements

(* The admission counters are the reserved, queued, pending and submitted  *)
(* work until the receiver is dropped; the work stays within the limits,   *)
(* whoever reserved finds room in the channel, and after a completed drain *)
(* there is neither work, nor a write in Raft, nor a call in progress.     *)
THEOREM AdmissionAlwaysMatchesWork == Spec => []AdmissionMatchesWork
<1>1. ASSUME IInv PROVE AdmissionMatchesWork
  <2>0. TypeOK /\ PipelineInv /\ CallerInv /\ UsageInv /\ PermitInv /\ ShutdownInv
    BY <1>1 DEF IInv
  <2>1. /\ Held \in SUBSET Requests /\ Held = Reserved \cup Work /\ Work \cap Reserved = {}
        /\ channel \in Seq(Requests) /\ Work \in SUBSET Requests
    BY <2>0, StagesDisjoint DEF Reserved
  <2>2. pc # "done" => usage.requests = Cardinality(Held) /\ usage.records = Charge(Held)
    BY <2>0 DEF UsageInv, Counts
  <2>3. /\ Cardinality(Held) \in Nat /\ Charge(Held) \in Nat /\ usage.requests \in Nat /\ usage.records \in Nat
        /\ QueueRequests \in Nat /\ QueueRecords \in Nat
    BY <2>0, <2>1, SetsOfRequests, ChargeStep, SchedulerAssumption DEF TypeOK
  <2>4. Cardinality(Held) <= QueueRequests /\ Charge(Held) <= QueueRecords
    BY <2>0, <2>3 DEF UsageInv, Covers
  <2>5. ASSUME NEW r \in Requests, caller[r] = "reserved" PROVE Len(channel) < QueueRequests
    <3>1. Stages(sent, channel, pending, selected)
      BY <2>0 DEF PipelineInv, Pipeline
    <3>2. Cardinality(Elements(channel)) = Len(channel)
      BY <3>1, QueueLength DEF Stages
    <3>3. Elements(channel) \subseteq Work /\ r \in Reserved
      BY <2>5 DEF Work, Queued, Reserved
    <3>4. r \in Held /\ Elements(channel) \subseteq Held \ {r} /\ Held \ {r} \in SUBSET Requests
      BY <2>1, <3>3
    <3>5. Cardinality(Held \ {r}) = Cardinality(Held) - 1 /\ IsFiniteSet(Held \ {r})
      BY <2>1, <3>4, SetsOfRequests
    <3>6. Cardinality(Elements(channel)) <= Cardinality(Held \ {r})
      BY <3>4, <3>5, FS_Subset
    <3>7. Len(channel) \in Nat
      BY <2>1
    <3> QED BY <2>3, <2>4, <3>2, <3>5, <3>6, <3>7
  <2>6. ASSUME phase = "drained"
        PROVE  /\ inRaft = {} /\ Held = {}
               /\ \A r \in Requests : caller[r] \in {"idle", "answered", "cancelled"}
    <3>1. Held = {} /\ \A r \in Requests : caller[r] # "permitted"
      BY <2>0, <2>6 DEF PermitInv, Working
    <3>2. Work = {} /\ Reserved = {}
      BY <2>1, <3>1
    <3>3. \A r \in Requests : caller[r] \notin {"permitted", "reserved", "waiting"}
      BY <2>0, <3>1, <3>2 DEF Reserved, CallerInv, Work
    <3>4. \A r \in Requests : caller[r] \in {"idle", "answered", "cancelled"}
      BY <2>0, <3>3 DEF TypeOK, Callers
    <3>5. selected = <<>> /\ shutdown = FALSE
      <4>1. Elements(selected) = {} /\ selected \in Seq(Requests)
        BY <2>0, <3>2 DEF Work, TypeOK
      <4>2. selected = <<>>
        BY <4>1, ElementsType
      <4>3. shutdown \in BOOLEAN /\ ~(shutdown = TRUE)
        BY <2>0, <2>6 DEF TypeOK, ShutdownInv
      <4> QED BY <4>2, <4>3
    <3>6. inRaft = {}
      BY <2>0, <3>5 DEF TypeOK, ShutdownInv
    <3> QED BY <3>1, <3>4, <3>6
  <2> QED BY <2>2, <2>4, <2>5, <2>6 DEF AdmissionMatchesWork
<1> QED BY IInvAlways, <1>1, PTL

=============================================================================
