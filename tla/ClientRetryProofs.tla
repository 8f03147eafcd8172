-------------------------- MODULE ClientRetryProofs --------------------------
(***************************************************************************)
(* Proofs about the retry loops of the client and the checkpoint state     *)
(* machine.                                                                *)
(***************************************************************************)
EXTENDS ClientRetry, TLAPS

-----------------------------------------------------------------------------
(* The inductive invariant, in parts that name the state they are about.   *)

Phases == {"idle", "route", "try", "sent", "submitted", "sleep", "receipt", "done"}

Fields == {"phase", "eps", "ix", "reps", "rix", "back", "may", "before", "ret"}
IsCall(k) ==
    /\ DOMAIN k = Fields
    /\ k.phase \in Phases /\ k.may \in BOOLEAN /\ k.before \in BOOLEAN
    /\ k.back \in {"first", "again", "receipt"}

(* The callers of which a copy was applied, or can still be.               *)
Doubtful == {c \in Callers : c \in applied \/ loose[c] > 0}

(* Call k of caller c, which runs loop p, when D are the doubtful callers: *)
(* the call knows of its doubt, except for what the attempt under way adds *)
(* to it.                                                                  *)
CallOK(p, k, c, D) ==
    /\ IsCall(k)
    /\ k.phase # "done" => k.ret = Pending
    /\ k.phase = "idle" => ~k.may /\ c \notin D
    /\ k.phase \in {"route", "try", "sleep", "receipt"} => (c \in D => k.may)
    /\ k.phase \in {"sent", "submitted"} =>
          /\ c \in D => k.before
          /\ k.before => k.may
          /\ Writes(p) => k.may
    /\ k.phase = "submitted" => Writes(p)
    /\ k.ret.kind = "definite" => k.phase = "done" /\ c \notin D

RequestIds == {Request[c] : c \in Callers}
Kinds == {"advanced", "conflict", "ahead", "regression", "expired", "done"}
Results == [kind : Kinds, rev : Nat]
Receipts == [seq : Nat, res : Results]

(* What result res says about request r is true of the moves.              *)
Speaks(res, r, moves) ==
    /\ res.kind = "advanced" => res.rev \in 1 .. Len(moves) /\ moves[res.rev] = r
    /\ res.kind \in {"conflict", "ahead", "regression"} =>
          \A i \in 1 .. Len(moves) : moves[i] # r

StoreOK(s) ==
    /\ s \in [moves : Seq(RequestIds), offset : Nat, high : [Sessions -> Nat],
              receipts : [Sessions -> Seq(Receipts)]]
    /\ \A i, j \in 1 .. Len(s.moves) : s.moves[i] = s.moves[j] => i = j
    /\ \A i \in 1 .. Len(s.moves) : s.moves[i].seq <= s.high[s.moves[i].session]
    /\ \A x \in Sessions : \A i \in 1 .. Len(s.receipts[x]) :
          /\ s.receipts[x][i].seq <= s.high[x]
          /\ Speaks(s.receipts[x][i].res, [session |-> x, seq |-> s.receipts[x][i].seq], s.moves)

(* The answer of a compare-and-set is about a request that is settled.     *)
AnswerOK(p, k, r, s) ==
    p.what = "cas" /\ k.ret.kind = "ok" =>
        /\ Speaks(k.ret.val, r, s.moves)
        /\ r.seq <= s.high[r.session]

IInv ==
    /\ op \in [Callers -> Loops] /\ loose \in [Callers -> Nat] /\ DOMAIN call = Callers
    /\ \A c \in Callers : CallOK(op[c], call[c], c, Doubtful)
    /\ StoreOK(store)
    /\ \A c \in Callers : AnswerOK(op[c], call[c], Request[c], store)

-----------------------------------------------------------------------------
(* The checkpoint state machine.                                           *)

LEMMA RequestFields ==
    ASSUME NEW c \in Callers
    PROVE  /\ Request[c] \in RequestIds /\ Request[c].session \in Sessions
           /\ Request[c].seq \in Nat /\ Request[c].seq > 0
           /\ Request[c] = [session |-> Request[c].session, seq |-> Request[c].seq]
BY RequestAssumption DEF RequestIds, Sessions

LEMMA RequestIdFields ==
    ASSUME NEW r \in RequestIds
    PROVE  /\ r.session \in Sessions /\ r.seq \in Nat
           /\ r = [session |-> r.session, seq |-> r.seq]
BY RequestFields DEF RequestIds

(* t is a store that comes after s: the moves grow by requests that were   *)
(* still open.                                                             *)
Later(s, t) ==
    /\ Len(s.moves) <= Len(t.moves)
    /\ \A i \in 1 .. Len(s.moves) : t.moves[i] = s.moves[i]
    /\ \A i \in 1 .. Len(t.moves) : i \in 1 .. Len(s.moves)
                                      \/ t.moves[i].seq > s.high[t.moves[i].session]
    /\ \A x \in Sessions : s.high[x] <= t.high[x]

StoreTypes == [moves : Seq(RequestIds), offset : Nat, high : [Sessions -> Nat],
               receipts : [Sessions -> Seq(Receipts)]]

LEMMA LaterSpeaks ==
    ASSUME NEW s \in StoreTypes, NEW t \in StoreTypes, Later(s, t), NEW res, NEW r,
           r.session \in Sessions, r.seq \in Nat, Speaks(res, r, s.moves), r.seq <= s.high[r.session]
    PROVE  Speaks(res, r, t.moves) /\ r.seq <= t.high[r.session]
<1>1. /\ Len(s.moves) \in Nat /\ Len(t.moves) \in Nat /\ Len(s.moves) <= Len(t.moves)
      /\ s.high \in [Sessions -> Nat] /\ t.high \in [Sessions -> Nat]
  BY DEF StoreTypes, Later
<1>2. r.session \in Sessions /\ r.seq \in Nat
  OBVIOUS
<1>3. r.seq <= t.high[r.session]
  <2>1. /\ s.high[r.session] \in Nat /\ t.high[r.session] \in Nat
        /\ s.high[r.session] <= t.high[r.session]
    BY <1>1, <1>2 DEF Later
  <2> QED BY <1>2, <2>1
<1>4. ASSUME res.kind = "advanced"
      PROVE  res.rev \in 1 .. Len(t.moves) /\ t.moves[res.rev] = r
  <2>1. res.rev \in 1 .. Len(s.moves) /\ s.moves[res.rev] = r
    BY <1>4 DEF Speaks
  <2>2. t.moves[res.rev] = r
    BY <2>1 DEF Later
  <2> QED BY <1>1, <2>1, <2>2
<1>5. ASSUME res.kind \in {"conflict", "ahead", "regression"}, NEW i \in 1 .. Len(t.moves)
      PROVE  t.moves[i] # r
  <2>1. CASE i \in 1 .. Len(s.moves)
    <3>1. s.moves[i] # r
      BY <1>5, <2>1 DEF Speaks
    <3> QED BY <2>1, <3>1 DEF Later
  <2>2. CASE t.moves[i].seq > s.high[t.moves[i].session]
    <3>1. s.high[r.session] \in Nat
      BY <1>1, <1>2
    <3>2. ~(r.seq > s.high[r.session])
      BY <1>2, <3>1
    <3> QED BY <2>2, <3>2
  <2> QED BY <2>1, <2>2 DEF Later
<1> QED BY <1>3, <1>4, <1>5 DEF Speaks

LEMMA LaterSelf ==
    ASSUME NEW s \in StoreTypes
    PROVE  Later(s, s)
<1>1. Len(s.moves) \in Nat /\ s.high \in [Sessions -> Nat]
  BY DEF StoreTypes
<1> QED BY <1>1 DEF Later

(* What the state machine decides about a request that is new to it,       *)
(* before the receipt is written.                                          *)
Decision(s, c) ==
    IF op[c].what = "cas" THEN CompareAndSet(s, c) ELSE [s |-> s, res |-> Result("done", 0)]

Decided(s, u, res, c) ==
    /\ u \in StoreTypes /\ res \in Results
    /\ u.high = s.high /\ u.receipts = s.receipts
    /\ \/ u.moves = s.moves /\ res.kind \in {"conflict", "ahead", "regression", "done"}
       \/ /\ u.moves = Append(s.moves, Request[c])
          /\ res.kind = "advanced" /\ res.rev = Len(s.moves) + 1

LEMMA DecisionIs ==
    ASSUME NEW s \in StoreTypes, NEW c \in Callers
    PROVE  Decided(s, Decision(s, c).s, Decision(s, c).res, c)
<1> DEFINE n == Len(s.moves)
           out == Decision(s, c)
<1>1. n \in Nat /\ s.moves \in Seq(RequestIds) /\ Expect[c] \in Nat /\ Candidate[c] \in Nat
      /\ Request[c] \in RequestIds
  <2>1. n \in Nat /\ s.moves \in Seq(RequestIds)
    BY DEF StoreTypes
  <2>2. Expect[c] \in Nat /\ Candidate[c] \in Nat
    BY RequestAssumption
  <2> QED BY <2>1, <2>2, RequestFields
<1>2. ASSUME NEW kind \in Kinds, NEW rev \in Nat
      PROVE  /\ Result(kind, rev) \in Results /\ Result(kind, rev).kind = kind
             /\ Result(kind, rev).rev = rev
  BY DEF Result, Results
<1>3. CASE op[c].what # "cas"
  <2>1. out = [s |-> s, res |-> Result("done", 0)]
    BY <1>3 DEF Decision
  <2>2. out.s = s /\ out.res = Result("done", 0) /\ Result("done", 0) \in Results
        /\ Result("done", 0).kind = "done"
    BY <1>2, <2>1 DEF Kinds
  <2> HIDE DEF out
  <2> QED BY <2>2 DEF Decided, out
<1>4. CASE op[c].what = "cas"
  <2>1. out = CompareAndSet(s, c)
    BY <1>4 DEF Decision
  <2>2. CASE Expect[c] # n
    <3>1. out = [s |-> s, res |-> Result("conflict", n)]
      BY <2>1, <2>2 DEF CompareAndSet
    <3>2. out.s = s /\ out.res \in Results /\ out.res.kind = "conflict"
      BY <1>1, <1>2, <3>1 DEF Kinds
    <3> HIDE DEF out
    <3> QED BY <3>2 DEF Decided, out
  <2>3. CASE Expect[c] = n /\ Candidate[c] > TailOffset
    <3>0. ~(Candidate[c] <= TailOffset)
      BY <1>1, <2>3, ClientAssumption
    <3>1. out = [s |-> s, res |-> Result("ahead", 0)]
      BY <2>1, <2>3, <3>0 DEF CompareAndSet
    <3>2. out.s = s /\ out.res \in Results /\ out.res.kind = "ahead"
      BY <1>2, <3>1 DEF Kinds
    <3> HIDE DEF out
    <3> QED BY <3>2 DEF Decided, out
  <2>4. CASE Expect[c] = n /\ Candidate[c] <= TailOffset /\ Candidate[c] < s.offset
    <3>1. ~(Candidate[c] > TailOffset)
      BY <1>1, <2>4, ClientAssumption
    <3>2. out = [s |-> s, res |-> Result("regression", 0)]
      BY <2>1, <2>4, <3>1 DEF CompareAndSet
    <3>3. out.s = s /\ out.res \in Results /\ out.res.kind = "regression"
      BY <1>2, <3>2 DEF Kinds
    <3> HIDE DEF out
    <3> QED BY <3>3 DEF Decided, out
  <2>5. CASE /\ Expect[c] = n /\ ~(Candidate[c] > TailOffset)
             /\ ~(Candidate[c] <= TailOffset /\ Candidate[c] < s.offset)
    <3> DEFINE u == [s EXCEPT !.moves = Append(@, Request[c]), !.offset = Candidate[c]]
               ms == Append(s.moves, Request[c])
    <3>1. out = [s |-> u, res |-> Result("advanced", n + 1)]
      BY <2>1, <2>5 DEF CompareAndSet
    <3>2. ms \in Seq(RequestIds)
      BY <1>1
    <3>3. u \in StoreTypes /\ u.high = s.high /\ u.receipts = s.receipts /\ u.moves = ms
      <4> HIDE DEF ms
      <4>1. u = [s EXCEPT !.moves = ms, !.offset = Candidate[c]]
        BY DEF ms
      <4> QED BY <1>1, <3>2, <4>1 DEF StoreTypes
    <3> HIDE DEF u
    <3>4. out.s = u /\ out.res = Result("advanced", n + 1)
      BY <3>1
    <3>5. out.res \in Results /\ out.res.kind = "advanced" /\ out.res.rev = n + 1
      BY <1>1, <1>2, <3>4 DEF Kinds
    <3> HIDE DEF out
    <3> QED BY <3>3, <3>4, <3>5 DEF Decided, out
  <2> QED BY <1>1, <2>2, <2>3, <2>4, <2>5, ClientAssumption
<1> QED BY <1>3, <1>4

(* The receipt: store_mutation_result.                                     *)
Recorded(u, t, r, res) ==
    /\ t \in StoreTypes /\ t.moves = u.moves
    /\ \A x \in Sessions : x # r.session => t.high[x] = u.high[x] /\ t.receipts[x] = u.receipts[x]
    /\ t.high[r.session] = r.seq
    /\ \A i \in 1 .. Len(t.receipts[r.session]) :
          \/ t.receipts[r.session][i] = [seq |-> r.seq, res |-> res]
          \/ \E j \in 1 .. Len(u.receipts[r.session]) :
                t.receipts[r.session][i] = u.receipts[r.session][j]

LEMMA RecordIs ==
    ASSUME NEW u \in StoreTypes, NEW r \in RequestIds, NEW res \in Results
    PROVE  Recorded(u, Record(u, r, res), r, res)
<1> DEFINE x == r.session
           old == u.receipts[x]
           e == [seq |-> r.seq, res |-> res]
           kept == Append(old, e)
           new == IF Len(kept) > Window THEN Tail(kept) ELSE kept
           t == Record(u, r, res)
<1>1. x \in Sessions /\ r.seq \in Nat /\ old \in Seq(Receipts) /\ e \in Receipts
  BY RequestIdFields DEF StoreTypes, Receipts
<1> HIDE DEF e, old
<1>2. kept \in Seq(Receipts) /\ Len(kept) = Len(old) + 1 /\ kept[Len(old) + 1] = e
      /\ (\A i \in 1 .. Len(old) : kept[i] = old[i]) /\ Len(old) \in Nat
  BY <1>1
<1>3. t = [u EXCEPT !.high[x] = r.seq, !.receipts[x] = new]
  BY DEF Record, e, old
<1> HIDE DEF kept
<1>4. /\ new \in Seq(Receipts)
      /\ \A i \in 1 .. Len(new) : new[i] = e \/ \E j \in 1 .. Len(old) : new[i] = old[j]
  <2>1. ASSUME NEW i \in 1 .. Len(kept)
        PROVE  kept[i] = e \/ \E j \in 1 .. Len(old) : kept[i] = old[j]
    <3>1. i = Len(old) + 1 \/ i \in 1 .. Len(old)
      BY <1>2
    <3> QED BY <1>2, <3>1
  <2>2. CASE Len(kept) > Window
    <3>1. new = Tail(kept)
      BY <2>2
    <3>2. Tail(kept) \in Seq(Receipts) /\ Len(Tail(kept)) = Len(kept) - 1
          /\ \A i \in 1 .. Len(kept) - 1 : Tail(kept)[i] = kept[i + 1]
      BY <1>2
    <3>3. \A i \in 1 .. Len(kept) - 1 : i + 1 \in 1 .. Len(kept)
      BY <1>2
    <3> HIDE DEF new
    <3> QED BY <2>1, <3>1, <3>2, <3>3
  <2>3. CASE ~(Len(kept) > Window)
    <3>1. new = kept
      BY <2>3
    <3> QED BY <1>2, <2>1, <3>1
  <2> QED BY <2>2, <2>3
<1> HIDE DEF new
<1>5. t = [u EXCEPT !.high = [@ EXCEPT ![x] = r.seq], !.receipts = [@ EXCEPT ![x] = new]]
  BY <1>3
<1>6. /\ t \in StoreTypes /\ t.moves = u.moves
      /\ t.high = [u.high EXCEPT ![x] = r.seq] /\ t.receipts = [u.receipts EXCEPT ![x] = new]
  <2> DEFINE h == [u.high EXCEPT ![x] = r.seq]
             rc == [u.receipts EXCEPT ![x] = new]
  <2>1. h \in [Sessions -> Nat] /\ rc \in [Sessions -> Seq(Receipts)]
    BY <1>1, <1>4 DEF StoreTypes
  <2>2. t = [u EXCEPT !.high = h, !.receipts = rc]
    BY <1>5
  <2> HIDE DEF h, rc, t
  <2>3. t \in StoreTypes /\ t.moves = u.moves /\ t.high = h /\ t.receipts = rc
    BY <2>1, <2>2 DEF StoreTypes
  <2> QED BY <2>3 DEF h, rc
<1> HIDE DEF t
<1>7. t.receipts[x] = new /\ t.high[x] = r.seq
      /\ \A y \in Sessions : y # x => t.high[y] = u.high[y] /\ t.receipts[y] = u.receipts[y]
  BY <1>1, <1>6 DEF StoreTypes
<1>8. Recorded(u, t, r, res)
  BY <1>4, <1>6, <1>7 DEF Recorded, e, old
<1> QED BY <1>8 DEF t

(* Applying a copy of caller c's request: the store stays sound, and the   *)
(* result says the truth about the request, which is settled from then on. *)
Applied(s, t, res, c) ==
    /\ StoreOK(t) /\ Later(s, t)
    /\ Request[c].seq <= t.high[Request[c].session]
    /\ op[c].what = "cas" => Speaks(res, Request[c], t.moves)

LEMMA PriorIs ==
    ASSUME NEW s, StoreOK(s), NEW c \in Callers, NEW res \in Prior(s, Request[c])
    PROVE  Applied(s, s, res, c)
<1> DEFINE r == Request[c]
           x == r.session
<1>0. s \in StoreTypes /\ Later(s, s)
  BY LaterSelf DEF StoreOK, StoreTypes
<1>1. x \in Sessions /\ r = [session |-> x, seq |-> r.seq] /\ r.seq \in Nat
  BY RequestFields
<1>2. CASE Found(s, r) # {}
  <2>1. PICK e \in Found(s, r) : res = e.res
    BY <1>2 DEF Prior
  <2>2. PICK i \in 1 .. Len(s.receipts[x]) : s.receipts[x][i] = e
    <3>1. s.receipts[x] \in Seq(Receipts)
      BY <1>0, <1>1 DEF StoreTypes
    <3>2. e \in Range(s.receipts[x])
      BY <2>1 DEF Found
    <3> QED BY <3>1, <3>2 DEF Range
  <2>3. e.seq = r.seq
    BY <2>1 DEF Found
  <2>4. e.seq <= s.high[x] /\ Speaks(e.res, [session |-> x, seq |-> e.seq], s.moves)
    BY <1>1, <2>2 DEF StoreOK
  <2>5. Speaks(res, r, s.moves)
    BY <1>1, <2>1, <2>3, <2>4, Zenon
  <2> QED BY <1>0, <2>3, <2>4, <2>5 DEF Applied
<1>3. CASE Found(s, r) = {}
  <2>1. r.seq <= s.high[x] /\ res = Result("expired", 0)
    BY <1>3 DEF Prior
  <2>2. Speaks(res, r, s.moves)
    BY <2>1 DEF Speaks, Result
  <2> QED BY <1>0, <2>1, <2>2 DEF Applied
<1> QED BY <1>2, <1>3

LEMMA FreshIs ==
    ASSUME NEW s, StoreOK(s), NEW c \in Callers, ~(Request[c].seq <= s.high[Request[c].session]),
           NEW u, NEW res, Decided(s, u, res, c),
           NEW t, Recorded(u, t, Request[c], res)
    PROVE  Applied(s, t, res, c)
<1> DEFINE r == Request[c]
           x == r.session
           n == Len(s.moves)
           ms == s.moves
           mt == t.moves
<1>1. /\ s \in StoreTypes /\ t \in StoreTypes /\ u \in StoreTypes /\ res \in Results
      /\ u.high = s.high /\ u.receipts = s.receipts /\ mt = u.moves
  BY DEF StoreOK, StoreTypes, Decided, Recorded
<1>2. /\ x \in Sessions /\ r.seq \in Nat /\ r = [session |-> x, seq |-> r.seq] /\ r \in RequestIds
  BY RequestFields
<1>3. /\ ms \in Seq(RequestIds) /\ mt \in Seq(RequestIds) /\ n \in Nat
      /\ s.high \in [Sessions -> Nat] /\ t.high \in [Sessions -> Nat]
      /\ s.receipts \in [Sessions -> Seq(Receipts)] /\ t.receipts \in [Sessions -> Seq(Receipts)]
  BY <1>1 DEF StoreTypes
<1>4. /\ t.high[x] = r.seq
      /\ \A y \in Sessions : y # x => t.high[y] = s.high[y] /\ t.receipts[y] = s.receipts[y]
  BY <1>1 DEF Recorded
<1>5. r.seq > s.high[x] /\ s.high[x] \in Nat
  BY <1>2, <1>3
<1>6. \A y \in Sessions : s.high[y] \in Nat /\ t.high[y] \in Nat /\ s.high[y] <= t.high[y]
  <2> SUFFICES ASSUME NEW y \in Sessions
               PROVE  s.high[y] \in Nat /\ t.high[y] \in Nat /\ s.high[y] <= t.high[y]
    OBVIOUS
  <2>1. s.high[y] \in Nat /\ t.high[y] \in Nat
    BY <1>3
  <2>2. CASE y = x
    <3>1. t.high[y] = r.seq /\ r.seq > s.high[y]
      BY <1>4, <1>5, <2>2
    <3> HIDE DEF r
    <3> QED BY <2>1, <3>1
  <2>3. CASE y # x
    <3>1. t.high[y] = s.high[y]
      BY <1>4, <2>3
    <3> QED BY <2>1, <3>1
  <2> QED BY <2>2, <2>3
<1> HIDE DEF n, ms, mt, r
<1>7. \A i \in 1 .. n : ms[i] # r /\ ms[i] \in RequestIds /\ ms[i].seq <= s.high[ms[i].session]
  <2>1. \A i \in 1 .. n : ms[i].seq <= s.high[ms[i].session] /\ ms[i] \in RequestIds
    BY <1>3 DEF StoreOK, ms, n
  <2>2. ~(r.seq <= s.high[r.session])
    BY DEF r
  <2> QED BY <2>1, <2>2
<1>8. \/ /\ mt = ms /\ Len(mt) = n
         /\ res.kind \in {"conflict", "ahead", "regression", "done"}
      \/ /\ Len(mt) = n + 1 /\ (\A i \in 1 .. n : mt[i] = ms[i]) /\ mt[n + 1] = r
         /\ res.kind = "advanced" /\ res.rev = n + 1
  <2>1. \/ mt = ms /\ res.kind \in {"conflict", "ahead", "regression", "done"}
        \/ mt = Append(ms, r) /\ res.kind = "advanced" /\ res.rev = n + 1
    BY <1>1 DEF Decided, ms, n, r
  <2>2. CASE mt = ms /\ res.kind \in {"conflict", "ahead", "regression", "done"}
    BY <2>2 DEF n, ms
  <2>3. CASE mt = Append(ms, r) /\ res.kind = "advanced" /\ res.rev = n + 1
    <3>1. Len(Append(ms, r)) = Len(ms) + 1 /\ Append(ms, r)[Len(ms) + 1] = r
          /\ \A i \in 1 .. Len(ms) : Append(ms, r)[i] = ms[i]
      BY <1>2, <1>3
    <3>2. n = Len(ms)
      BY DEF n, ms
    <3> QED BY <2>3, <3>1, <3>2
  <2> QED BY <2>1, <2>2, <2>3
<1>9. \A i \in 1 .. Len(mt) : (i \in 1 .. n /\ mt[i] = ms[i]) \/ (i = n + 1 /\ mt[i] = r)
  BY <1>3, <1>8
<1>10. Later(s, t)
  <2>1. n <= Len(mt) /\ \A i \in 1 .. n : mt[i] = ms[i]
    BY <1>3, <1>8
  <2>2. \A i \in 1 .. Len(mt) : i \in 1 .. n \/ mt[i].seq > s.high[mt[i].session]
    BY <1>5, <1>9
  <2> QED BY <1>6, <2>1, <2>2 DEF Later, n, ms, mt
<1>11. Speaks(res, r, mt)
  <2>1. CASE mt = ms /\ Len(mt) = n /\ res.kind \in {"conflict", "ahead", "regression", "done"}
    BY <1>7, <2>1 DEF Speaks
  <2>2. CASE Len(mt) = n + 1 /\ mt[n + 1] = r /\ res.kind = "advanced" /\ res.rev = n + 1
    <3>1. n + 1 \in 1 .. n + 1
      BY <1>3 DEF n
    <3> QED BY <2>2, <3>1 DEF Speaks
  <2> QED BY <1>8, <2>1, <2>2
<1>12. ASSUME NEW i \in 1 .. Len(mt), NEW j \in 1 .. Len(mt), mt[i] = mt[j] PROVE i = j
  <2>1. \A a, b \in 1 .. n : ms[a] = ms[b] => a = b
    BY DEF StoreOK, ms, n
  <2>2. (i \in 1 .. n /\ mt[i] = ms[i]) \/ (i = n + 1 /\ mt[i] = r)
    BY <1>9
  <2>3. (j \in 1 .. n /\ mt[j] = ms[j]) \/ (j = n + 1 /\ mt[j] = r)
    BY <1>9
  <2> QED BY <1>7, <1>12, <2>1, <2>2, <2>3
<1>13. ASSUME NEW i \in 1 .. Len(mt) PROVE mt[i].seq <= t.high[mt[i].session]
  <2>1. CASE i \in 1 .. n /\ mt[i] = ms[i]
    <3>1. ms[i].seq \in Nat /\ ms[i].session \in Sessions /\ ms[i].seq <= s.high[ms[i].session]
      BY <1>7, <2>1, RequestIdFields
    <3>2. s.high[ms[i].session] <= t.high[ms[i].session]
          /\ s.high[ms[i].session] \in Nat /\ t.high[ms[i].session] \in Nat
      BY <1>6, <3>1
    <3>3. ms[i].seq <= t.high[ms[i].session]
      BY <3>1, <3>2
    <3> QED BY <2>1, <3>3
  <2>2. CASE mt[i] = r
    BY <1>2, <1>4, <2>2
  <2> QED BY <1>9, <2>1, <2>2
<1>14. ASSUME NEW y \in Sessions, NEW i \in 1 .. Len(s.receipts[y])
       PROVE  /\ s.receipts[y][i].seq <= t.high[y]
              /\ Speaks(s.receipts[y][i].res, [session |-> y, seq |-> s.receipts[y][i].seq], mt)
  <2> DEFINE e == s.receipts[y][i]
             q == [session |-> y, seq |-> e.seq]
  <2>1. e \in Receipts /\ e.seq \in Nat
    <3>1. s.receipts[y] \in Seq(Receipts)
      BY <1>3
    <3>2. e \in Receipts
      BY <3>1
    <3> QED BY <3>2 DEF Receipts
  <2>2. e.seq <= s.high[y] /\ Speaks(e.res, q, s.moves)
    BY DEF StoreOK
  <2> HIDE DEF e
  <2>3. q.session = y /\ q.seq = e.seq
    OBVIOUS
  <2> HIDE DEF q
  <2>4. q.session \in Sessions /\ q.seq \in Nat /\ q.seq <= s.high[q.session]
    BY <2>1, <2>2, <2>3
  <2>5. Speaks(e.res, q, t.moves) /\ q.seq <= t.high[q.session]
    BY <1>1, <1>10, <2>2, <2>4, LaterSpeaks
  <2> QED BY <2>3, <2>5 DEF e, q, mt
<1>15. ASSUME NEW y \in Sessions, NEW i \in 1 .. Len(t.receipts[y])
       PROVE  /\ t.receipts[y][i].seq <= t.high[y]
              /\ Speaks(t.receipts[y][i].res, [session |-> y, seq |-> t.receipts[y][i].seq], mt)
  <2>1. CASE y # x
    <3>1. t.receipts[y] = s.receipts[y]
      BY <1>4, <2>1
    <3> QED BY <1>14, <3>1
  <2>2. CASE y = x
    <3>1. \/ t.receipts[x][i] = [seq |-> r.seq, res |-> res]
          \/ \E j \in 1 .. Len(s.receipts[x]) : t.receipts[x][i] = s.receipts[x][j]
      BY <1>1, <2>2 DEF Recorded, r
    <3>2. CASE t.receipts[x][i] = [seq |-> r.seq, res |-> res]
      <4> DEFINE e == t.receipts[y][i]
      <4>1. e.seq = r.seq /\ e.res = res
        BY <2>2, <3>2
      <4> HIDE DEF e
      <4>2. e.seq <= t.high[y]
        BY <1>2, <1>4, <2>2, <4>1
      <4>3. Speaks(e.res, [session |-> y, seq |-> e.seq], mt)
        BY <1>2, <1>11, <2>2, <4>1, Zenon
      <4> QED BY <4>2, <4>3 DEF e
    <3>3. ASSUME NEW j \in 1 .. Len(s.receipts[x]), t.receipts[x][i] = s.receipts[x][j]
          PROVE  /\ t.receipts[y][i].seq <= t.high[y]
                 /\ Speaks(t.receipts[y][i].res, [session |-> y, seq |-> t.receipts[y][i].seq], mt)
      BY <1>14, <2>2, <3>3, Zenon
    <3> QED BY <3>1, <3>2, <3>3
  <2> QED BY <2>1, <2>2
<1>16. StoreOK(t)
  BY <1>1, <1>12, <1>13, <1>15 DEF StoreOK, StoreTypes, mt
<1>17. r.seq <= t.high[x]
  BY <1>2, <1>4
<1> QED BY <1>10, <1>11, <1>16, <1>17 DEF Applied, r, mt

LEMMA ApplyIs ==
    ASSUME NEW s, StoreOK(s), NEW c \in Callers
    PROVE  Applied(s, Apply(s, c).s, Apply(s, c).res, c)
<1> DEFINE r == Request[c]
           out == Decision(s, c)
           a == Apply(s, c)
<1>0. s \in StoreTypes /\ r \in RequestIds
  BY RequestFields DEF StoreOK, StoreTypes
<1>1. a = IF Prior(s, r) # {} THEN [s |-> s, res |-> CHOOSE x \in Prior(s, r) : TRUE]
          ELSE [s |-> Record(out.s, r, out.res), res |-> out.res]
  BY Zenon DEF Apply, Decision
<1> HIDE DEF a, out
<1>2. CASE Prior(s, r) # {}
  <2> DEFINE res == CHOOSE x \in Prior(s, r) : TRUE
  <2>1. res \in Prior(s, r)
    BY <1>2
  <2>2. a.s = s /\ a.res = res
    BY <1>1, <1>2
  <2> HIDE DEF res
  <2>3. Applied(s, s, res, c)
    BY <2>1, PriorIs
  <2> QED BY <2>2, <2>3, Zenon DEF a
<1>3. CASE Prior(s, r) = {}
  <2>1. ~(r.seq <= s.high[r.session])
    BY <1>3 DEF Prior
  <2>2. Decided(s, out.s, out.res, c)
    BY <1>0, DecisionIs DEF out
  <2>3. out.s \in StoreTypes /\ out.res \in Results
    BY <2>2 DEF Decided
  <2> DEFINE u == out.s
             res == out.res
             t == Record(u, r, res)
  <2> HIDE DEF u, res
  <2>4. Recorded(u, t, r, res)
    BY <1>0, <2>3, RecordIs DEF u, res
  <2>5. Applied(s, t, res, c)
    BY <2>1, <2>2, <2>4, FreshIs DEF u, res
  <2>6. a.s = t /\ a.res = res
    BY <1>1, <1>3 DEF u, res
  <2> QED BY <2>5, <2>6, Zenon DEF a
<1> QED BY <1>2, <1>3

-----------------------------------------------------------------------------
(* The calls.                                                              *)

LEMMA DoneIs ==
    ASSUME NEW k, NEW kind, NEW val
    PROVE  /\ IsCall(Done(k, kind, val)) /\ Done(k, kind, val).phase = "done"
           /\ Done(k, kind, val).ret = [kind |-> kind, val |-> val]
           /\ Done(k, kind, val).ret.kind = kind /\ Done(k, kind, val).ret.val = val
BY DEF Done, NewCall, Pending, IsCall, Phases, Fields

(* A call that is over, without having been called definite, is fine.      *)
LEMMA DoneOK ==
    ASSUME NEW p, NEW k, NEW kind, NEW val, NEW c, NEW D, kind = "definite" => c \notin D
    PROVE  CallOK(p, Done(k, kind, val), c, D)
<1> DEFINE j == Done(k, kind, val)
<1>1. IsCall(j) /\ j.phase = "done" /\ j.ret.kind = kind
  BY DEF Done, NewCall, IsCall, Phases, Fields
<1> HIDE DEF j
<1>2. CallOK(p, j, c, D)
  BY <1>1 DEF CallOK
<1> QED BY <1>2 DEF j

LEMMA RestoredIs ==
    ASSUME NEW k, IsCall(k), NEW p
    PROVE  /\ IsCall(Restored(p, k)) /\ Restored(p, k).ret = k.ret
           /\ Restored(p, k).phase = k.phase
           /\ Restored(p, k).may = k.may \/ Restored(p, k).may = k.before
BY DEF IsCall, Restored, Fields

(* j is call k after an answer of this kind.  Only a definite refusal may  *)
(* take back the doubt that the attempt added.                             *)
Refusals == {"notleader", "busy", "stale", "refused"}

Answered(k, j, kind) ==
    /\ IsCall(j)
    /\ \/ /\ j.phase \in {"sleep", "route"} /\ j.ret = Pending
          /\ j.may = k.may \/ (kind \in Refusals /\ j.may = k.before)
       \/ j.phase = "receipt" /\ j.ret = Pending /\ j.may = k.may
       \/ j.phase = "done" /\ j.ret.kind \in {"relayed", "ambiguous", "none"}

LEMMA AgainIs ==
    ASSUME NEW p \in Loops, NEW k, IsCall(k), k.ret = Pending, NEW a, Retries(p, a)
    PROVE  Answered(k, Again(p, k, a), a.kind)
<1> DEFINE j == Again(p, k, a)
           q == Restored(p, k)
<1>0. /\ IsCall(q) /\ q.ret = Pending
      /\ q.may = k.may \/ q.may = k.before
  BY RestoredIs
<1>2. ASSUME NEW h, IsCall(h), h.ret = Pending, NEW es, NEW i
      PROVE  /\ IsCall(Sleep(h, es, i)) /\ Sleep(h, es, i).phase = "sleep"
             /\ Sleep(h, es, i).may = h.may /\ Sleep(h, es, i).ret = Pending
  BY <1>2 DEF Sleep, IsCall, Fields, Phases
<1>3. p.noHint \in {"next", "stay", "end"} /\ p.retry \in BOOLEAN
  BY DEF Loops
<1> HIDE DEF q
<1>4. CASE a.kind = "notleader" /\ a.hint # None
  <2>1. j = Sleep(q, add_hint(k.eps, a.hint), 1)
    BY <1>4 DEF Again, q
  <2> HIDE DEF j
  <2>2. IsCall(j) /\ j.phase = "sleep" /\ j.may = q.may /\ j.ret = Pending
    BY <1>0, <1>2, <2>1
  <2> QED BY <1>0, <1>4, <2>2 DEF Answered, Refusals, j
<1>5. CASE a.kind = "notleader" /\ a.hint = None /\ p.noHint = "next"
  <2>1. j = Sleep(q, q.eps, Next1(q.ix, q.eps))
    BY <1>5 DEF Again, GoOn, q
  <2> HIDE DEF j
  <2>2. IsCall(j) /\ j.phase = "sleep" /\ j.may = q.may /\ j.ret = Pending
    BY <1>0, <1>2, <2>1
  <2> QED BY <1>0, <1>5, <2>2 DEF Answered, Refusals, j
<1>6. CASE a.kind = "notleader" /\ a.hint = None /\ p.noHint = "stay"
  <2>1. j = Sleep(k, k.eps, k.ix)
    BY <1>6 DEF Again
  <2> HIDE DEF j
  <2>2. IsCall(j) /\ j.phase = "sleep" /\ j.may = k.may /\ j.ret = Pending
    BY <1>2, <2>1
  <2> QED BY <2>2 DEF Answered, j
<1>7. CASE a.kind = "busy"
  <2>1. j = Sleep(q, q.eps, Next1(q.ix, q.eps))
    BY <1>7 DEF Again, GoOn, q
  <2> HIDE DEF j
  <2>2. IsCall(j) /\ j.phase = "sleep" /\ j.may = q.may /\ j.ret = Pending
    BY <1>0, <1>2, <2>1
  <2> QED BY <1>0, <1>7, <2>2 DEF Answered, Refusals, j
<1>8. CASE a.kind \in {"unknown", "broken"}
  <2>1. j = Sleep(k, k.eps, Next1(k.ix, k.eps))
    BY <1>8 DEF Again, GoOn
  <2> HIDE DEF j
  <2>2. IsCall(j) /\ j.phase = "sleep" /\ j.may = k.may /\ j.ret = Pending
    BY <1>2, <2>1
  <2> QED BY <2>2 DEF Answered, j
<1>9. CASE a.kind = "stale"
  <2>1. j = [q EXCEPT !.phase = "route", !.reps = Seeds, !.rix = 1, !.back = "again"]
    BY <1>9 DEF Again, q
  <2> HIDE DEF j
  <2>2. IsCall(j) /\ j.phase = "route" /\ j.may = q.may /\ j.ret = Pending
    BY <1>0, <2>1 DEF IsCall, Fields, Phases
  <2> QED BY <1>0, <1>9, <2>2 DEF Answered, Refusals, j
<1> QED BY <1>3, <1>4, <1>5, <1>6, <1>7, <1>8, <1>9 DEF Retries

LEMMA InterruptedIs ==
    ASSUME NEW k, IsCall(k), k.ret = Pending, k.may
    PROVE  /\ IsCall(Interrupted(k)) /\ Interrupted(k).phase = "receipt"
           /\ Interrupted(k).may = k.may /\ Interrupted(k).ret = Pending
<1>2. Interrupted(k) = [k EXCEPT !.phase = "receipt", !.eps = Seeds, !.ix = 1]
  BY DEF Interrupted
<1> QED BY <1>2 DEF IsCall, Fields, Phases

LEMMA AfterAnswerIs ==
    ASSUME NEW p \in Loops, NEW k, IsCall(k), k.ret = Pending, NEW a, a.kind # "ok"
    PROVE  Answered(k, AfterAnswer(p, k, a), a.kind)
<1>1. CASE Retries(p, a)
  <2>1. AfterAnswer(p, k, a) = Again(p, k, a)
    BY <1>1 DEF AfterAnswer
  <2> QED BY <1>1, <2>1, AgainIs
<1>2. CASE ~Retries(p, a) /\ a.kind \in {"unknown", "broken"} /\ p.what = "publish" /\ k.may
  <2> DEFINE j == Interrupted(k)
  <2>1. AfterAnswer(p, k, a) = j
    BY <1>2 DEF AfterAnswer
  <2>2. IsCall(j) /\ j.phase = "receipt" /\ j.may = k.may /\ j.ret = Pending
    BY <1>2, InterruptedIs
  <2> HIDE DEF j
  <2>3. Answered(k, j, a.kind)
    BY <2>2 DEF Answered
  <2> QED BY <2>1, <2>3
<1>3. CASE ~Retries(p, a) /\ ~(a.kind \in {"unknown", "broken"} /\ p.what = "publish" /\ k.may)
  <2> DEFINE kind == IF a.kind \in {"refused", "busy"} /\ Writes(p) THEN "relayed"
                     ELSE IF a.kind = "unknown" THEN "ambiguous" ELSE "none"
             j == Done(k, kind, 0)
  <2>1. AfterAnswer(p, k, a) = j
    BY <1>3 DEF AfterAnswer, Relay
  <2>2. kind \in {"relayed", "ambiguous", "none"}
    OBVIOUS
  <2> HIDE DEF kind
  <2>3. IsCall(j) /\ j.phase = "done" /\ j.ret.kind = kind
    BY DEF Done, NewCall, IsCall, Phases, Fields
  <2> HIDE DEF j
  <2>4. Answered(k, j, a.kind)
    BY <2>2, <2>3 DEF Answered
  <2> QED BY <2>1, <2>4
<1> QED BY <1>1, <1>2, <1>3

(* After an answer the call still knows of its doubt.                      *)
LEMMA AnsweredOK ==
    ASSUME NEW p, NEW k, NEW j, NEW kind, Answered(k, j, kind), NEW c, NEW D,
           c \in D => k.may, kind \in Refusals => (c \in D => k.before)
    PROVE  CallOK(p, j, c, D) /\ j.ret.kind # "ok"
<1>0. Pending.kind = "pending"
  BY DEF Pending
<1>1. CASE /\ j.phase \in {"sleep", "route"} /\ j.ret = Pending
           /\ j.may = k.may \/ (kind \in Refusals /\ j.may = k.before)
  <2>1. c \in D => j.may
    BY <1>1
  <2> QED BY <1>0, <1>1, <2>1 DEF Answered, CallOK
<1>2. CASE j.phase = "receipt" /\ j.ret = Pending /\ j.may = k.may
  <2>1. c \in D => j.may
    BY <1>2
  <2> QED BY <1>0, <1>2, <2>1 DEF Answered, CallOK
<1>3. CASE j.phase = "done" /\ j.ret.kind \in {"relayed", "ambiguous", "none"}
  BY <1>3 DEF Answered, CallOK
<1> QED BY <1>1, <1>2, <1>3 DEF Answered

-----------------------------------------------------------------------------
(* The steps.  A step of caller c changes c's call and, with it, whether c *)
(* is doubtful, and lets the store grow.                                   *)

StepOf(c, k) ==
    /\ DOMAIN call' = Callers /\ call'[c] = k /\ op' = op
    /\ \A d \in Callers : d # c => call'[d] = call[d]
    /\ loose' \in [Callers -> Nat]
    /\ \A d \in Callers : d # c => (d \in Doubtful' <=> d \in Doubtful)
    /\ StoreOK(store') /\ Later(store, store')

LEMMA Stepped ==
    ASSUME IInv, NEW c \in Callers, NEW k, StepOf(c, k),
           CallOK(op[c], k, c, Doubtful'), AnswerOK(op[c], k, Request[c], store')
    PROVE  IInv'
<1> DEFINE D == Doubtful
           E == Doubtful'
           s == store
           t == store'
<1>1. /\ op' \in [Callers -> Loops] /\ loose' \in [Callers -> Nat] /\ DOMAIN call' = Callers
      /\ StoreOK(t)
  BY DEF IInv, StepOf
<1>2. s \in StoreTypes /\ t \in StoreTypes /\ Later(s, t)
  BY DEF IInv, StepOf, StoreOK, StoreTypes
<1>3. op' = op /\ call'[c] = k /\ \A d \in Callers : d # c => call'[d] = call[d]
  BY DEF IInv, StepOf
<1>4. ASSUME NEW d \in Callers PROVE CallOK(op'[d], call'[d], d, E)
  <2>1. CASE d = c
    BY <1>3, <2>1, Zenon
  <2>2. CASE d # c
    <3>1. CallOK(op[d], call[d], d, D) /\ (d \in E <=> d \in D)
      BY <2>2 DEF IInv, StepOf
    <3> HIDE DEF D, E
    <3>2. CallOK(op[d], call[d], d, E)
      BY <3>1 DEF CallOK
    <3> QED BY <1>3, <2>2, <3>2, Zenon
  <2> QED BY <2>1, <2>2
<1>5. ASSUME NEW d \in Callers PROVE AnswerOK(op'[d], call'[d], Request[d], t)
  <2>1. CASE d = c
    BY <1>3, <2>1, Zenon
  <2>2. CASE d # c
    <3>1. AnswerOK(op[d], call[d], Request[d], s)
      BY DEF IInv
    <3>2. Request[d].session \in Sessions /\ Request[d].seq \in Nat
      BY RequestFields
    <3> HIDE DEF s, t
    <3>3. AnswerOK(op[d], call[d], Request[d], t)
      BY <1>2, <3>1, <3>2, LaterSpeaks DEF AnswerOK
    <3> QED BY <1>3, <2>2, <3>3, Zenon
  <2> QED BY <2>1, <2>2
<1>6. /\ \A d \in Callers : CallOK(op[d], call[d], d, Doubtful)'
      /\ \A d \in Callers : AnswerOK(op[d], call[d], Request[d], store)'
  BY <1>4, <1>5, Zenon
<1>7. StoreOK(store)'
  BY <1>1, Zenon
<1> QED BY <1>1, <1>6, <1>7 DEF IInv

(* The loop goes on, or ends, without the store or an old copy.            *)
LEMMA SteppedAlone ==
    ASSUME IInv, NEW c \in Callers, NEW k, call' = [call EXCEPT ![c] = k], op' = op, Quiet,
           CallOK(op[c], k, c, Doubtful), k.ret.kind = "ok" => op[c].what # "cas"
    PROVE  IInv'
<1>1. Doubtful' = Doubtful
  BY DEF Quiet, Doubtful
<1>2. store' = store /\ loose' = loose
  BY DEF Quiet
<1>3. StoreOK(store) /\ store \in StoreTypes
  BY DEF IInv, StoreOK, StoreTypes
<1>4. Later(store, store)
  BY <1>3, LaterSelf
<1>5. StepOf(c, k)
  <2>1. StoreOK(store') /\ Later(store, store')
    BY <1>2, <1>3, <1>4, Zenon
  <2>2. loose' \in [Callers -> Nat]
    BY <1>2 DEF IInv
  <2>3. /\ DOMAIN call' = Callers /\ call'[c] = k
        /\ \A d \in Callers : d # c => call'[d] = call[d]
    BY DEF IInv
  <2> QED BY <1>1, <2>1, <2>2, <2>3 DEF StepOf
<1>6. CallOK(op[c], k, c, Doubtful')
  BY <1>1, Zenon
<1>7. AnswerOK(op[c], k, Request[c], store')
  BY DEF AnswerOK
<1> QED BY <1>5, <1>6, <1>7, Stepped

(* The client stops waiting: the copy it leaves makes c doubtful.          *)
LEMMA SteppedAway ==
    ASSUME IInv, NEW c \in Callers, NEW k, call' = [call EXCEPT ![c] = k], op' = op,
           loose' = Dropped(c), UNCHANGED <<store, applied>>,
           \A D : (c \in D => c \in Doubtful \/ (Writes(op[c]) /\ call[c].phase \in {"sent", "submitted"}))
                  => CallOK(op[c], k, c, D),
           k.ret.kind # "ok"
    PROVE  IInv'
<1>1. store' = store /\ applied' = applied /\ loose \in [Callers -> Nat]
  BY DEF IInv
<1>2. StoreOK(store) /\ store \in StoreTypes
  BY DEF IInv, StoreOK, StoreTypes
<1>3. Later(store, store)
  BY <1>2, LaterSelf
<1>4. loose' = loose \/ (/\ loose' = [loose EXCEPT ![c] = loose[c] + 1]
                         /\ Writes(op[c]) /\ call[c].phase \in {"sent", "submitted"})
  BY DEF Dropped
<1>5. loose' \in [Callers -> Nat] /\ \A d \in Callers : d # c => loose'[d] = loose[d]
  BY <1>1, <1>4
<1>6. \A d \in Callers : d # c => (d \in Doubtful' <=> d \in Doubtful)
  BY <1>1, <1>5 DEF Doubtful
<1>7. c \in Doubtful' => c \in Doubtful \/ (Writes(op[c]) /\ call[c].phase \in {"sent", "submitted"})
  <2>1. CASE loose' = loose
    BY <1>1, <2>1 DEF Doubtful
  <2>2. CASE Writes(op[c]) /\ call[c].phase \in {"sent", "submitted"}
    BY <2>2
  <2> QED BY <1>4, <2>1, <2>2
<1>8. CallOK(op[c], k, c, Doubtful')
  BY <1>7
<1>9. StepOf(c, k)
  <2>1. StoreOK(store') /\ Later(store, store')
    BY <1>1, <1>2, <1>3, Zenon
  <2>2. /\ DOMAIN call' = Callers /\ call'[c] = k
        /\ \A d \in Callers : d # c => call'[d] = call[d]
    BY DEF IInv
  <2> QED BY <1>5, <1>6, <2>1, <2>2 DEF StepOf
<1>10. AnswerOK(op[c], k, Request[c], store')
  BY DEF AnswerOK
<1> QED BY <1>8, <1>9, <1>10, Stepped

(* A call that waits, connects or asks knows of its doubt.                 *)
LEMMA WaitingOK ==
    ASSUME NEW p, NEW j, IsCall(j), j.phase \in {"route", "try", "sleep", "receipt"},
           j.ret = Pending, NEW c, NEW D, c \in D => j.may
    PROVE  CallOK(p, j, c, D) /\ j.ret.kind # "ok"
<1>1. j.ret.kind = "pending"
  BY DEF Pending
<1> QED BY <1>1 DEF CallOK

LEMMA OneCall ==
    ASSUME IInv, NEW c \in Callers
    PROVE  CallOK(op[c], call[c], c, Doubtful) /\ IsCall(call[c]) /\ op[c] \in Loops
BY DEF IInv, CallOK

LEMMA StartKeepsInv ==
    ASSUME IInv, NEW c \in Callers, Start(c)
    PROVE  IInv'
<1> DEFINE k == call[c]
           ph == IF op[c].route = "no" THEN "try" ELSE "route"
           j == [k EXCEPT !.phase = ph]
<1>1. k.phase = "idle" /\ call' = [call EXCEPT ![c] = j] /\ op' = op /\ Quiet
  BY DEF Start, Set, Still
<1>2. CallOK(op[c], k, c, Doubtful) /\ IsCall(k)
  BY OneCall
<1>3. k.ret = Pending /\ c \notin Doubtful
  BY <1>1, <1>2 DEF CallOK
<1>4. ph \in {"try", "route"}
  OBVIOUS
<1> HIDE DEF ph
<1>5. IsCall(j) /\ j.phase \in {"try", "route"} /\ j.ret = k.ret
  BY <1>2, <1>4 DEF IsCall, Fields, Phases
<1> HIDE DEF j, k
<1>6. CallOK(op[c], j, c, Doubtful) /\ j.ret.kind # "ok"
  BY <1>3, <1>5, WaitingOK
<1> QED BY <1>1, <1>6, SteppedAlone

(* What a call that asks for its route may turn into.                      *)
Settles(k, j) ==
    \/ IsCall(j) /\ j.phase \in {"route", "try", "sleep", "receipt"} /\ j.ret = Pending /\ j.may = k.may
    \/ IsCall(j) /\ j.phase = "done" /\ j.ret.kind = "none"

LEMMA SettlesOK ==
    ASSUME NEW p, NEW k, NEW j, Settles(k, j), NEW c, NEW D, c \in D => k.may
    PROVE  CallOK(p, j, c, D) /\ j.ret.kind # "ok"
<1>1. CASE /\ IsCall(j) /\ j.phase \in {"route", "try", "sleep", "receipt"}
           /\ j.ret = Pending /\ j.may = k.may
  BY <1>1, WaitingOK
<1>2. CASE IsCall(j) /\ j.phase = "done" /\ j.ret.kind = "none"
  BY <1>2 DEF CallOK
<1> QED BY <1>1, <1>2 DEF Settles

LEMMA DoneSettles ==
    ASSUME NEW k
    PROVE  Settles(k, Done(k, "none", 0))
<1> DEFINE j == Done(k, "none", 0)
<1>1. IsCall(j) /\ j.phase = "done" /\ j.ret.kind = "none"
  BY DEF Done, NewCall, IsCall, Phases, Fields
<1> HIDE DEF j
<1> QED BY <1>1 DEF Settles, j

LEMMA RoutedIs ==
    ASSUME NEW k, IsCall(k), k.ret = Pending, NEW h
    PROVE  Settles(k, Routed(k, h))
<1> DEFINE j == Routed(k, h)
<1>1. /\ IsCall(j) /\ j.phase \in {"route", "try", "sleep", "receipt"}
      /\ j.ret = Pending /\ j.may = k.may
  <2>1. CASE k.back = "first"
    <3>1. j = [k EXCEPT !.phase = "try", !.eps = add_hint(Seeds, h), !.ix = 1]
      BY <2>1 DEF Routed
    <3> HIDE DEF j
    <3> QED BY <3>1 DEF IsCall, Fields, Phases
  <2>2. CASE k.back = "again"
    <3>1. j = [k EXCEPT !.phase = "sleep", !.eps = add_hint(k.eps, h), !.ix = 1]
      BY <2>2 DEF Routed, Sleep
    <3> HIDE DEF j
    <3> QED BY <3>1 DEF IsCall, Fields, Phases
  <2>3. CASE k.back = "receipt"
    <3>1. j = [k EXCEPT !.phase = "receipt", !.eps = add_hint(k.eps, h), !.ix = 1]
      BY <2>3 DEF Routed
    <3> HIDE DEF j
    <3> QED BY <3>1 DEF IsCall, Fields, Phases
  <2> QED BY <2>1, <2>2, <2>3 DEF IsCall
<1> HIDE DEF j
<1> QED BY <1>1 DEF Settles, j

LEMMA AskRouteKeepsInv ==
    ASSUME IInv, NEW c \in Callers, AskRoute(c)
    PROVE  IInv'
<1> DEFINE k == call[c]
           n == k.reps[k.rix]
           elsewhere == [k EXCEPT !.rix = Next1(k.rix, k.reps)]
           dn == Done(k, "none", 0)
           failed == IF op[c].retry THEN elsewhere ELSE dn
           nx == [k EXCEPT !.reps = add_hint(k.reps, knows[n]), !.rix = 1]
           stay == IF ~op[c].retry THEN dn ELSE IF knows[n] = None THEN k ELSE nx
           rt == Routed(k, n)
<1>1. /\ k.phase = "route" /\ op' = op /\ Quiet
      /\ \/ call' = [call EXCEPT ![c] = failed] \/ call' = [call EXCEPT ![c] = dn]
         \/ call' = [call EXCEPT ![c] = rt] \/ call' = [call EXCEPT ![c] = stay]
  BY DEF AskRoute, Set, Still
<1>2. CallOK(op[c], k, c, Doubtful) /\ IsCall(k)
  BY OneCall
<1>3. k.ret = Pending /\ (c \in Doubtful => k.may)
  BY <1>1, <1>2 DEF CallOK
<1>4. Settles(k, dn)
  BY DoneSettles
<1>5. Settles(k, elsewhere)
  <2> DEFINE i == Next1(k.rix, k.reps)
             j == [k EXCEPT !.rix = i]
  <2> HIDE DEF i
  <2>1. IsCall(j) /\ j.phase = "route" /\ j.ret = Pending /\ j.may = k.may
    BY <1>1, <1>2, <1>3 DEF IsCall, Fields
  <2> HIDE DEF j
  <2>2. Settles(k, j)
    BY <2>1 DEF Settles
  <2> QED BY <2>2 DEF j, i
<1>6. Settles(k, nx)
  <2> DEFINE es == add_hint(k.reps, knows[n])
             j == [k EXCEPT !.reps = es, !.rix = 1]
  <2> HIDE DEF es
  <2>1. IsCall(j) /\ j.phase = "route" /\ j.ret = Pending /\ j.may = k.may
    BY <1>1, <1>2, <1>3 DEF IsCall, Fields
  <2> HIDE DEF j
  <2>2. Settles(k, j)
    BY <2>1 DEF Settles
  <2> QED BY <2>2 DEF j, es
<1>7. Settles(k, k)
  BY <1>1, <1>2, <1>3 DEF Settles
<1>8. Settles(k, rt)
  BY <1>2, <1>3, RoutedIs
<1> HIDE DEF k, n, elsewhere, dn, nx, rt
<1>9. Settles(k, failed)
  BY <1>4, <1>5
<1>10. Settles(k, stay)
  BY <1>4, <1>6, <1>7
<1> HIDE DEF failed, stay
<1>11. PICK j : Settles(k, j) /\ call' = [call EXCEPT ![c] = j]
  BY <1>1, <1>4, <1>8, <1>9, <1>10, Zenon
<1>12. CallOK(op[c], j, c, Doubtful) /\ j.ret.kind # "ok"
  BY <1>3, <1>11, SettlesOK
<1> QED BY <1>1, <1>11, <1>12, SteppedAlone

(* What an answer of this kind does to a call, given what the call knows.  *)
LEMMA AnswerKeepsInv ==
    ASSUME NEW p \in Loops, NEW k, IsCall(k), k.ret = Pending, NEW a, a.kind # "ok",
           NEW c, NEW D, c \in D => k.may, a.kind \in Refusals => (c \in D => k.before)
    PROVE  CallOK(p, AfterAnswer(p, k, a), c, D) /\ AfterAnswer(p, k, a).ret.kind # "ok"
<1> DEFINE j == AfterAnswer(p, k, a)
           kind == a.kind
<1>1. Answered(k, j, kind)
  BY AfterAnswerIs
<1> HIDE DEF j, kind
<1>2. kind \in Refusals => (c \in D => k.before)
  BY DEF kind
<1>3. CallOK(p, j, c, D) /\ j.ret.kind # "ok"
  BY <1>1, <1>2, AnsweredOK
<1> QED BY <1>3 DEF j

LEMMA TryKeepsInv ==
    ASSUME IInv, NEW c \in Callers, Try(c)
    PROVE  IInv'
<1> DEFINE k == call[c]
           q == [k EXCEPT !.before = k.may]
           a == Answer("broken")
           w == k.may \/ Writes(op[c])
           sent == [k EXCEPT !.phase = "sent", !.before = k.may, !.may = w]
           lost == AfterAnswer(op[c], q, a)
<1>1. /\ k.phase = "try" /\ op' = op /\ Quiet
      /\ call' = [call EXCEPT ![c] = lost] \/ call' = [call EXCEPT ![c] = sent]
  BY DEF Try, Set, Still
<1>2. CallOK(op[c], k, c, Doubtful) /\ IsCall(k) /\ op[c] \in Loops
  BY OneCall
<1>3. k.ret = Pending /\ (c \in Doubtful => k.may)
  BY <1>1, <1>2 DEF CallOK
<1>4. CallOK(op[c], lost, c, Doubtful) /\ lost.ret.kind # "ok"
  <2>1. IsCall(q) /\ q.ret = k.ret /\ q.may = k.may
    BY <1>2 DEF IsCall, Fields
  <2>2. a.kind = "broken"
    BY DEF Answer
  <2>3. a.kind # "ok" /\ a.kind \notin Refusals
    BY <2>2 DEF Refusals
  <2> HIDE DEF q, a, k
  <2> QED BY <1>2, <1>3, <2>1, <2>3, AnswerKeepsInv
<1>5. CallOK(op[c], sent, c, Doubtful) /\ sent.ret.kind # "ok"
  <2>1. w \in BOOLEAN /\ (k.may => w) /\ (Writes(op[c]) => w)
    BY <1>2 DEF IsCall
  <2> HIDE DEF w
  <2>2. /\ IsCall(sent) /\ sent.phase = "sent" /\ sent.before = k.may /\ sent.may = w
        /\ sent.ret = k.ret
    BY <1>2, <2>1 DEF IsCall, Fields, Phases
  <2>3. sent.ret.kind = "pending"
    BY <1>3, <2>2 DEF Pending
  <2> HIDE DEF sent, k
  <2> QED BY <1>3, <2>1, <2>2, <2>3 DEF CallOK
<1> HIDE DEF lost, sent
<1> QED BY <1>1, <1>4, <1>5, SteppedAlone

(* A call that waits for the answer of an attempt.                         *)
LEMMA AttemptKnows ==
    ASSUME IInv, NEW c \in Callers, call[c].phase \in {"sent", "submitted"}
    PROVE  /\ call[c].ret = Pending /\ (c \in Doubtful => call[c].before)
           /\ (c \in Doubtful => call[c].may) /\ (Writes(op[c]) => call[c].may)
<1>1. CallOK(op[c], call[c], c, Doubtful)
  BY OneCall
<1> QED BY <1>1 DEF CallOK

LEMMA RefusedKeepsInv ==
    ASSUME IInv, NEW c \in Callers, call[c].phase \in {"sent", "submitted"},
           NEW a, a.kind \in Refusals,
           call' = [call EXCEPT ![c] = AfterAnswer(op[c], call[c], a)], op' = op, Quiet
    PROVE  IInv'
<1> DEFINE k == call[c]
           j == AfterAnswer(op[c], k, a)
<1>1. IsCall(k) /\ op[c] \in Loops
  BY OneCall
<1>2. k.ret = Pending /\ (c \in Doubtful => k.before) /\ (c \in Doubtful => k.may)
  BY AttemptKnows
<1>3. a.kind # "ok"
  BY DEF Refusals
<1>4. CallOK(op[c], j, c, Doubtful) /\ j.ret.kind # "ok"
  BY <1>1, <1>2, <1>3, AnswerKeepsInv
<1> HIDE DEF j
<1>5. call' = [call EXCEPT ![c] = j]
  BY DEF j
<1> QED BY <1>4, <1>5, SteppedAlone

LEMMA RefuseKeepsInv ==
    ASSUME IInv, NEW c \in Callers, Refuse(c)
    PROVE  IInv'
<1> DEFINE k == call[c]
           n == k.eps[k.ix]
<1>1. k.phase \in {"sent", "submitted"} /\ op' = op /\ Quiet
  BY DEF Refuse, Still
<1>2. CASE call' = [call EXCEPT ![c] = AfterAnswer(op[c], k, NotLeader(n))]
  <2>1. NotLeader(n).kind \in Refusals
    BY DEF NotLeader, Refusals
  <2> QED BY <1>1, <1>2, <2>1, RefusedKeepsInv
<1>3. ASSUME NEW x \in {"busy", "refused", "stale"},
             call' = [call EXCEPT ![c] = AfterAnswer(op[c], k, Answer(x))]
      PROVE  IInv'
  <2>1. Answer(x).kind \in Refusals
    BY DEF Answer, Refusals
  <2> QED BY <1>1, <1>3, <2>1, RefusedKeepsInv
<1>4. \/ call' = [call EXCEPT ![c] = AfterAnswer(op[c], k, NotLeader(n))]
      \/ \E x \in {"busy", "refused", "stale"} :
            call' = [call EXCEPT ![c] = AfterAnswer(op[c], k, Answer(x))]
  BY DEF Refuse, Set
<1> QED BY <1>2, <1>3, <1>4

LEMMA TruncateKeepsInv ==
    ASSUME IInv, NEW c \in Callers, Truncate(c)
    PROVE  IInv'
<1> DEFINE k == call[c]
           n == k.eps[k.ix]
<1>1. k.phase \in {"sent", "submitted"} /\ op' = op /\ Quiet
  BY DEF Truncate, Still
<1>2. call' = [call EXCEPT ![c] = AfterAnswer(op[c], k, NotLeader(n))]
  BY DEF Truncate, Set
<1>3. NotLeader(n).kind \in Refusals
  BY DEF NotLeader, Refusals
<1> QED BY <1>1, <1>2, <1>3, RefusedKeepsInv

LEMMA SubmitKeepsInv ==
    ASSUME IInv, NEW c \in Callers, Submit(c)
    PROVE  IInv'
<1> DEFINE k == call[c]
           j == [k EXCEPT !.phase = "submitted"]
           dn == Done(k, "ok", 0)
<1>1. k.phase = "sent" /\ op' = op /\ Quiet
  BY DEF Submit, Still
<1>2. CallOK(op[c], k, c, Doubtful) /\ IsCall(k)
  BY OneCall
<1>3. CASE Writes(op[c])
  <2>1. call' = [call EXCEPT ![c] = j]
    BY <1>3 DEF Submit, Set
  <2>2. IsCall(j) /\ j.phase = "submitted" /\ j.ret = k.ret /\ j.may = k.may /\ j.before = k.before
    BY <1>2 DEF IsCall, Fields, Phases
  <2>3. j.ret = Pending /\ j.ret.kind = "pending"
    BY <1>1, <1>2, <2>2 DEF CallOK, Pending
  <2> HIDE DEF j
  <2>4. CallOK(op[c], j, c, Doubtful)
    BY <1>1, <1>2, <1>3, <2>2, <2>3 DEF CallOK
  <2>5. j.ret.kind = "ok" => op[c].what # "cas"
    BY <2>3
  <2> QED BY <1>1, <2>1, <2>4, <2>5, SteppedAlone
<1>4. CASE ~Writes(op[c])
  <2>1. call' = [call EXCEPT ![c] = dn]
    BY <1>4 DEF Submit, Set
  <2>2. CallOK(op[c], dn, c, Doubtful)
    BY DoneOK
  <2>3. op[c].what # "cas"
    BY <1>4 DEF Writes
  <2> HIDE DEF dn
  <2> QED BY <1>1, <2>1, <2>2, <2>3, SteppedAlone
<1> QED BY <1>3, <1>4

LEMMA WakeKeepsInv ==
    ASSUME IInv, NEW c \in Callers, Wake(c)
    PROVE  IInv'
<1> DEFINE k == call[c]
           j == [k EXCEPT !.phase = "try"]
<1>1. k.phase = "sleep" /\ call' = [call EXCEPT ![c] = j] /\ op' = op /\ Quiet
  BY DEF Wake, Set, Still
<1>2. CallOK(op[c], k, c, Doubtful) /\ IsCall(k)
  BY OneCall
<1>3. k.ret = Pending /\ (c \in Doubtful => k.may)
  BY <1>1, <1>2 DEF CallOK
<1>4. IsCall(j) /\ j.phase = "try" /\ j.ret = k.ret /\ j.may = k.may
  BY <1>2 DEF IsCall, Fields, Phases
<1> HIDE DEF j, k
<1>5. CallOK(op[c], j, c, Doubtful) /\ j.ret.kind # "ok"
  BY <1>3, <1>4, WaitingOK
<1> QED BY <1>1, <1>5, SteppedAlone

(* The client stops waiting: D is at most the doubt it had, and the doubt  *)
(* about the copy it leaves.                                               *)
Left(c, D) ==
    c \in D => \/ c \in Doubtful
               \/ Writes(op[c]) /\ call[c].phase \in {"sent", "submitted"}

LEMMA LeavingKnows ==
    ASSUME IInv, NEW c \in Callers, NEW D, Left(c, D),
           call[c].phase \in {"route", "try", "sent", "submitted", "sleep", "receipt"}
    PROVE  call[c].ret = Pending /\ (c \in D => call[c].may)
<1>1. CallOK(op[c], call[c], c, Doubtful)
  BY OneCall
<1>2. CASE call[c].phase \in {"sent", "submitted"}
  BY <1>2, AttemptKnows DEF Left
<1>3. CASE call[c].phase \in {"route", "try", "sleep", "receipt"}
  <2>1. call[c].ret = Pending /\ (c \in Doubtful => call[c].may)
    BY <1>1, <1>3 DEF CallOK
  <2>2. call[c].phase \notin {"sent", "submitted"}
    BY <1>3
  <2> QED BY <2>1, <2>2 DEF Left
<1> QED BY <1>2, <1>3

LEMMA AbandonKeepsInv ==
    ASSUME IInv, NEW c \in Callers, Abandon(c)
    PROVE  IInv'
<1> DEFINE k == call[c]
<1>1. /\ k.phase \in {"sent", "submitted"} /\ op' = op /\ loose' = Dropped(c)
      /\ UNCHANGED <<store, applied>>
  BY DEF Abandon, Still
<1>2. PICK x \in {"broken", "unknown"} : call' = [call EXCEPT ![c] = AfterAnswer(op[c], k, Answer(x))]
  BY DEF Abandon, Set
<1> DEFINE a == Answer(x)
           j == AfterAnswer(op[c], k, a)
<1>3. a.kind # "ok" /\ a.kind \notin Refusals
  BY DEF Answer, Refusals
<1>4. IsCall(k) /\ op[c] \in Loops
  BY OneCall
<1> HIDE DEF a
<1>5. ASSUME NEW D, Left(c, D) PROVE CallOK(op[c], j, c, D) /\ j.ret.kind # "ok"
  <2>1. k.ret = Pending /\ (c \in D => k.may)
    BY <1>1, <1>5, LeavingKnows
  <2> QED BY <1>3, <1>4, <2>1, AnswerKeepsInv
<1>6. j.ret.kind # "ok"
  <2>1. Left(c, {})
    BY DEF Left
  <2> QED BY <1>5, <2>1
<1>7. call' = [call EXCEPT ![c] = j]
  BY <1>2 DEF a
<1> HIDE DEF j
<1> QED BY <1>1, <1>5, <1>6, <1>7, SteppedAway DEF Left

(* The client may say definite_no_commit only without doubt.               *)
LEMMA EndedKeepsInv ==
    ASSUME IInv, NEW c \in Callers, NEW kind, kind # "ok", kind = "definite" => ~call[c].may,
           call[c].phase \in {"route", "try", "sent", "submitted", "sleep", "receipt"},
           call' = [call EXCEPT ![c] = Done(call[c], kind, 0)], op' = op, loose' = Dropped(c),
           UNCHANGED <<store, applied>>
    PROVE  IInv'
<1> DEFINE k == call[c]
           j == Done(k, kind, 0)
<1>1. ASSUME NEW D, Left(c, D) PROVE CallOK(op[c], j, c, D)
  <2>1. c \in D => k.may
    BY <1>1, LeavingKnows
  <2>2. kind = "definite" => c \notin D
    BY <2>1
  <2> QED BY <2>2, DoneOK
<1>2. j.ret.kind = kind
  BY DEF Done, NewCall
<1>3. call' = [call EXCEPT ![c] = j]
  OBVIOUS
<1> HIDE DEF j
<1> QED BY <1>1, <1>2, <1>3, SteppedAway DEF Left

LEMMA ExpireKeepsInv ==
    ASSUME IInv, NEW c \in Callers, Expire(c)
    PROVE  IInv'
<1> DEFINE k == call[c]
           p == op[c]
           kind == CASE k.phase = "route" -> "none"
                     [] k.phase = "sleep" -> Late(p.asleep, k.may)
                     [] k.phase = "receipt" -> "ambiguous"
                     [] OTHER -> Late(p.late, k.may)
<1>1. /\ k.phase \in {"route", "try", "sent", "submitted", "sleep", "receipt"}
      /\ call' = [call EXCEPT ![c] = Done(k, kind, 0)] /\ op' = op /\ loose' = Dropped(c)
      /\ UNCHANGED <<store, applied>>
  BY DEF Expire, Set, Still
<1>2. p \in Loops /\ IsCall(k)
  BY OneCall
<1>3. p.asleep \in {"reset", "sticky", "none"} /\ p.late \in {"reset", "sticky", "ambiguous", "none"}
  BY <1>2 DEF Loops
<1> HIDE DEF p
<1>4. ASSUME NEW how \in {"reset", "sticky", "ambiguous", "none"}
      PROVE  Late(how, k.may) # "ok" /\ (Late(how, k.may) = "definite" => ~k.may)
  BY DEF Late
<1>5. kind # "ok" /\ (kind = "definite" => ~k.may)
  <2>1. CASE k.phase = "route"
    BY <2>1
  <2>2. CASE k.phase = "sleep"
    <3>1. kind = Late(p.asleep, k.may)
      BY <2>2
    <3> HIDE DEF kind
    <3> QED BY <1>3, <1>4, <3>1
  <2>3. CASE k.phase = "receipt"
    BY <2>3
  <2>4. CASE k.phase \notin {"route", "sleep", "receipt"}
    <3>1. kind = Late(p.late, k.may)
      BY <2>4
    <3> HIDE DEF kind
    <3> QED BY <1>3, <1>4, <3>1
  <2> QED BY <2>1, <2>2, <2>3, <2>4
<1> HIDE DEF kind
<1> QED BY <1>1, <1>5, EndedKeepsInv

LEMMA CancelKeepsInv ==
    ASSUME IInv, NEW c \in Callers, Cancel(c)
    PROVE  IInv'
<1> DEFINE k == call[c]
           j == Interrupted(k)
<1>1. /\ k.phase \in {"route", "try", "sent", "submitted", "sleep", "receipt"}
      /\ call' = [call EXCEPT ![c] = j] /\ op' = op /\ loose' = Dropped(c)
      /\ UNCHANGED <<store, applied>>
  BY DEF Cancel, Set, Still
<1>2. IsCall(k)
  BY OneCall
<1>3. CASE k.may
  <2>1. k.ret = Pending
    <3>1. Left(c, {})
      BY DEF Left
    <3> QED BY <1>1, <3>1, LeavingKnows
  <2>2. IsCall(j) /\ j.phase = "receipt" /\ j.may = k.may /\ j.ret = Pending
    BY <1>2, <1>3, <2>1, InterruptedIs
  <2> HIDE DEF j
  <2>3. ASSUME NEW D PROVE CallOK(op[c], j, c, D) /\ j.ret.kind # "ok"
    BY <1>3, <2>2, WaitingOK
  <2> QED BY <1>1, <2>3, SteppedAway
<1>4. CASE ~k.may
  <2>1. j = Done(k, "definite", 0)
    BY <1>4 DEF Interrupted
  <2> HIDE DEF j
  <2> QED BY <1>1, <1>4, <2>1, EndedKeepsInv
<1> QED BY <1>3, <1>4

(* A copy of caller c's request is applied.                                *)
LEMMA CommitKeepsInv ==
    ASSUME IInv, NEW c \in Callers, Commit(c)
    PROVE  IInv'
<1> DEFINE k == call[c]
           res == Apply(store, c).res
           t == Apply(store, c).s
           j == Done(k, "ok", res)
           r == Request[c]
<1>1. /\ store' = t /\ applied' = applied \cup {c} /\ loose' = loose /\ op' = op
      /\ call' = [call EXCEPT ![c] = j]
  BY DEF Commit, Set, Still
<1>2. Applied(store, t, res, c)
  BY ApplyIs DEF IInv
<1>3. j.ret.kind = "ok" /\ j.ret.val = res
  BY DEF Done, NewCall
<1>4. CallOK(op[c], j, c, Doubtful')
  BY DoneOK
<1> HIDE DEF j, t, res
<1>5. AnswerOK(op[c], j, r, store')
  <2>1. AnswerOK(op[c], j, r, t)
    BY <1>2, <1>3 DEF AnswerOK, Applied
  <2> QED BY <1>1, <2>1, Zenon
<1>6. StepOf(c, j)
  <2>1. StoreOK(store') /\ Later(store, store')
    BY <1>1, <1>2, Zenon DEF Applied
  <2>2. \A d \in Callers : d # c => (d \in Doubtful' <=> d \in Doubtful)
    BY <1>1 DEF Doubtful
  <2>3. /\ DOMAIN call' = Callers /\ call'[c] = j /\ loose' \in [Callers -> Nat]
        /\ \A d \in Callers : d # c => call'[d] = call[d]
    BY <1>1 DEF IInv
  <2> QED BY <1>1, <2>1, <2>2, <2>3 DEF StepOf
<1> QED BY <1>4, <1>5, <1>6, Stepped

(* The copy was known to be loose: c was doubtful before it was applied.   *)
LEMMA LateApplyKeepsInv ==
    ASSUME IInv, NEW c \in Callers, LateApply(c)
    PROVE  IInv'
<1> DEFINE k == call[c]
           res == Apply(store, c).res
           t == Apply(store, c).s
           r == Request[c]
<1>1. /\ store' = t /\ applied' = applied \cup {c} /\ loose[c] > 0 /\ op' = op /\ call' = call
      /\ loose' = [loose EXCEPT ![c] = loose[c] - 1]
  BY DEF LateApply, Still
<1>2. Applied(store, t, res, c) /\ loose \in [Callers -> Nat] /\ DOMAIN call = Callers
  BY ApplyIs DEF IInv
<1> HIDE DEF t, res
<1>3. loose' \in [Callers -> Nat] /\ \A d \in Callers : d # c => loose'[d] = loose[d]
  <2>1. loose[c] - 1 \in Nat
    BY <1>1, <1>2
  <2> QED BY <1>1, <1>2, <2>1
<1>4. c \in Doubtful
  BY <1>1 DEF Doubtful
<1>5. CallOK(op[c], k, c, Doubtful')
  <2>1. CallOK(op[c], k, c, Doubtful)
    BY OneCall
  <2> DEFINE D == Doubtful
             E == Doubtful'
  <2> HIDE DEF D, E
  <2>2. CallOK(op[c], k, c, E)
    BY <1>4, <2>1 DEF CallOK, D
  <2> QED BY <2>2 DEF E
<1>6. AnswerOK(op[c], k, r, store')
  <2>1. AnswerOK(op[c], k, r, store) /\ store \in StoreTypes
    BY DEF IInv, StoreOK, StoreTypes
  <2>2. t \in StoreTypes /\ Later(store, t)
    BY <1>2 DEF Applied, StoreOK, StoreTypes
  <2>3. r.session \in Sessions /\ r.seq \in Nat
    BY RequestFields
  <2>4. AnswerOK(op[c], k, r, t)
    BY <2>1, <2>2, <2>3, LaterSpeaks DEF AnswerOK
  <2> QED BY <1>1, <2>4, Zenon
<1>7. StepOf(c, k)
  <2>1. StoreOK(store') /\ Later(store, store')
    BY <1>1, <1>2, Zenon DEF Applied
  <2>2. \A d \in Callers : d # c => (d \in Doubtful' <=> d \in Doubtful)
    BY <1>1, <1>3 DEF Doubtful
  <2> QED BY <1>1, <1>2, <1>3, <2>1, <2>2 DEF StepOf
<1> QED BY <1>5, <1>6, <1>7, Stepped

LEMMA AskReceiptKeepsInv ==
    ASSUME IInv, NEW c \in Callers, AskReceipt(c)
    PROVE  IInv'
<1> DEFINE k == call[c]
           n == k.eps[k.ix]
           i == Next1(k.ix, k.eps)
           es == add_hint(k.eps, knows[n])
           on == [k EXCEPT !.ix = i]
           rt == [k EXCEPT !.phase = "route", !.reps = Seeds, !.rix = 1, !.back = "receipt"]
           hint == [k EXCEPT !.eps = es, !.ix = 1]
           dn == Done(k, "ok", Result("done", 0))
           r == Request[c]
<1>1. k.phase = "receipt" /\ op' = op /\ Quiet
  BY DEF AskReceipt, Still
<1>2. CallOK(op[c], k, c, Doubtful) /\ IsCall(k)
  BY OneCall
<1>3. k.ret = Pending /\ (c \in Doubtful => k.may)
  BY <1>1, <1>2 DEF CallOK
<1>4. \/ call' = [call EXCEPT ![c] = on] \/ call' = [call EXCEPT ![c] = rt]
      \/ call' = [call EXCEPT ![c] = hint]
      \/ call' = [call EXCEPT ![c] = dn] /\ Found(store, r) # {}
  BY DEF AskReceipt, Set
<1> HIDE DEF i, es
<1>5. CallOK(op[c], on, c, Doubtful) /\ on.ret.kind # "ok"
  <2>1. IsCall(on) /\ on.phase = "receipt" /\ on.ret = k.ret /\ on.may = k.may
    BY <1>1, <1>2 DEF IsCall, Fields
  <2> HIDE DEF on, k
  <2> QED BY <1>3, <2>1, WaitingOK
<1>6. CallOK(op[c], rt, c, Doubtful) /\ rt.ret.kind # "ok"
  <2>1. IsCall(rt) /\ rt.phase = "route" /\ rt.ret = k.ret /\ rt.may = k.may
    BY <1>2 DEF IsCall, Fields, Phases
  <2> HIDE DEF rt, k
  <2> QED BY <1>3, <2>1, WaitingOK
<1>7. CallOK(op[c], hint, c, Doubtful) /\ hint.ret.kind # "ok"
  <2>1. IsCall(hint) /\ hint.phase = "receipt" /\ hint.ret = k.ret /\ hint.may = k.may
    BY <1>1, <1>2 DEF IsCall, Fields
  <2> HIDE DEF hint, k
  <2> QED BY <1>3, <2>1, WaitingOK
<1>8. ASSUME call' = [call EXCEPT ![c] = dn], Found(store, r) # {}
      PROVE  IInv'
  <2>1. StoreOK(store) /\ store \in StoreTypes /\ store' = store /\ loose' = loose
    BY <1>1 DEF IInv, StoreOK, StoreTypes, Quiet
  <2>2. Prior(store, r) # {} /\ \A x \in Prior(store, r) : Applied(store, store, x, c)
    <3>1. Prior(store, r) # {}
      BY <1>8 DEF Prior
    <3> QED BY <2>1, <3>1, PriorIs
  <2>3. r.seq <= store.high[r.session] /\ Later(store, store)
    BY <2>2 DEF Applied
  <2>4. Doubtful' = Doubtful
    BY <1>1 DEF Quiet, Doubtful
  <2>5. CallOK(op[c], dn, c, Doubtful')
    BY DoneOK
  <2>6. dn.ret.val = Result("done", 0)
    BY DEF Done, NewCall
  <2> HIDE DEF dn
  <2>7. AnswerOK(op[c], dn, r, store')
    <3>1. Speaks(dn.ret.val, r, store.moves)
      BY <2>6 DEF Speaks, Result
    <3>2. AnswerOK(op[c], dn, r, store)
      BY <2>3, <3>1 DEF AnswerOK
    <3> QED BY <2>1, <3>2, Zenon
  <2>8. StepOf(c, dn)
    <3>1. StoreOK(store') /\ Later(store, store')
      BY <2>1, <2>3, Zenon
    <3>2. /\ DOMAIN call' = Callers /\ call'[c] = dn /\ loose' \in [Callers -> Nat]
          /\ \A d \in Callers : d # c => call'[d] = call[d]
      BY <1>8, <2>1 DEF IInv
    <3> QED BY <1>1, <2>4, <3>1, <3>2 DEF StepOf
  <2> QED BY <2>5, <2>7, <2>8, Stepped
<1> HIDE DEF on, rt, hint, dn
<1>9. CASE call' = [call EXCEPT ![c] = on]
  BY <1>1, <1>5, <1>9, SteppedAlone
<1>10. CASE call' = [call EXCEPT ![c] = rt]
  BY <1>1, <1>6, <1>10, SteppedAlone
<1>11. CASE call' = [call EXCEPT ![c] = hint]
  BY <1>1, <1>7, <1>11, SteppedAlone
<1> QED BY <1>4, <1>8, <1>9, <1>10, <1>11

(* The cluster does not touch the calls.                                   *)
LEMMA CalmKeepsInv ==
    ASSUME IInv, Calm
    PROVE  IInv'
<1>1. op' = op /\ call' = call /\ loose' = loose /\ store' = store /\ applied' = applied
  BY DEF Calm
<1>2. Doubtful' = Doubtful
  BY <1>1 DEF Doubtful
<1>3. /\ \A c \in Callers : CallOK(op[c], call[c], c, Doubtful)'
      /\ \A c \in Callers : AnswerOK(op[c], call[c], Request[c], store)'
      /\ StoreOK(store)'
  BY <1>1, <1>2, Zenon DEF IInv
<1> QED BY <1>1, <1>3 DEF IInv

LEMMA InitInv ==
    ASSUME Init
    PROVE  IInv
<1>1. PICK m \in Mixes : op = m.ops
  BY DEF Init
<1>2. op \in [Callers -> Loops]
  BY <1>1, MixesAssumption
<1>3. loose \in [Callers -> Nat] /\ DOMAIN call = Callers /\ Doubtful = {}
  BY DEF Init, Doubtful
<1>4. ASSUME NEW c \in Callers
      PROVE  CallOK(op[c], call[c], c, Doubtful) /\ AnswerOK(op[c], call[c], Request[c], store)
  <2> DEFINE k == call[c]
  <2>1. k = NewCall
    BY DEF Init
  <2>2. IsCall(k) /\ k.phase = "idle" /\ k.ret = Pending /\ ~k.may /\ k.ret.kind = "pending"
    BY <2>1 DEF NewCall, IsCall, Fields, Phases, Pending
  <2> HIDE DEF k
  <2>3. CallOK(op[c], k, c, Doubtful) /\ AnswerOK(op[c], k, Request[c], store)
    BY <1>3, <2>2 DEF CallOK, AnswerOK
  <2> QED BY <2>3 DEF k
<1>5. StoreOK(store)
  <2>1. store = [moves |-> <<>>, offset |-> 0, high |-> [x \in Sessions |-> 0],
                 receipts |-> [x \in Sessions |-> <<>>]]
    BY DEF Init
  <2>2. store \in StoreTypes /\ store.moves = <<>> /\ store.receipts = [x \in Sessions |-> <<>>]
    BY <2>1 DEF StoreTypes
  <2>3. Len(store.moves) = 0 /\ \A x \in Sessions : Len(store.receipts[x]) = 0
    BY <2>2
  <2>4. 1 .. 0 = {}
    OBVIOUS
  <2> QED BY <2>2, <2>3, <2>4 DEF StoreOK, StoreTypes
<1> QED BY <1>2, <1>3, <1>4, <1>5 DEF IInv

LEMMA NextKeepsInv ==
    ASSUME IInv, [Next]_vars
    PROVE  IInv'
<1>1. ASSUME NEW n \in Nodes,
             Elect(n) \/ Learn(n) \/ Crash(n) \/ Cut(n) \/ Restart(n) \/ Heal(n)
      PROVE  IInv'
  <2>1. Calm
    BY <1>1 DEF Elect, Learn, Crash, Cut, Restart, Heal
  <2> QED BY <2>1, CalmKeepsInv
<1>2. ASSUME NEW c \in Callers, Proceed(c)
      PROVE  IInv'
  BY <1>2, StartKeepsInv, AskRouteKeepsInv, TryKeepsInv, RefuseKeepsInv, SubmitKeepsInv,
     CommitKeepsInv, TruncateKeepsInv, AbandonKeepsInv, WakeKeepsInv, AskReceiptKeepsInv
  DEF Proceed
<1>3. ASSUME NEW c \in Callers, LateApply(c) \/ Expire(c) \/ Cancel(c)
      PROVE  IInv'
  BY <1>3, LateApplyKeepsInv, ExpireKeepsInv, CancelKeepsInv
<1>4. CASE UNCHANGED vars
  <2>1. Calm
    BY <1>4 DEF vars, Calm
  <2> QED BY <2>1, CalmKeepsInv
<1> QED BY <1>1, <1>2, <1>3, <1>4 DEF Next

LEMMA Invariant == Spec => []IInv
<1>1. Init => IInv
  BY InitInv
<1>2. IInv /\ [Next]_vars => IInv'
  BY NextKeepsInv
<1> QED BY <1>1, <1>2, PTL DEF Spec

-----------------------------------------------------------------------------
(* The client never says definite_no_commit of a request of which a copy   *)
(* was applied or may still be: whatever the loop, the cluster and the     *)
(* order of refusals, redirects, lost answers, deadlines and cancellation. *)
THEOREM DefiniteIsAlwaysTrue == Spec => []CertaintyIsTrue
<1>1. IInv => CertaintyIsTrue
  <2> SUFFICES ASSUME IInv, NEW c \in Callers, call[c].ret.kind = "definite"
               PROVE  c \notin applied /\ loose[c] = 0
    BY DEF CertaintyIsTrue
  <2>1. CallOK(op[c], call[c], c, Doubtful)
    BY OneCall
  <2>2. c \notin Doubtful
    BY <2>1 DEF CallOK
  <2>3. loose[c] \in Nat
    BY DEF IInv
  <2> QED BY <2>2, <2>3 DEF Doubtful
<1> QED BY <1>1, Invariant, PTL

(* No compare-and-set moves the checkpoint twice, and what its caller is   *)
(* told, at once, after retries or from a receipt, stays true.             *)
THEOREM AnswersAlwaysMatchMoves == Spec => []AnswersMatchMoves
<1>1. IInv => AnswersMatchMoves
  <2> SUFFICES ASSUME IInv PROVE AnswersMatchMoves
    OBVIOUS
  <2>1. StoreOK(store) /\ store.moves \in Seq(RequestIds) /\ Len(store.moves) \in Nat
        /\ DOMAIN store.moves = 1 .. Len(store.moves)
    BY DEF IInv, StoreOK
  <2>2. IsInjective(store.moves)
    BY <2>1 DEF IsInjective, StoreOK
  <2>3. ASSUME NEW c \in Callers, op[c].what = "cas" /\ call[c].ret.kind = "ok"
        PROVE  /\ call[c].ret.val.kind = "advanced" =>
                    /\ call[c].ret.val.rev <= Len(store.moves)
                    /\ store.moves[call[c].ret.val.rev] = Request[c]
               /\ call[c].ret.val.kind \in {"conflict", "ahead", "regression"} =>
                    Request[c] \notin Range(store.moves)
    <3> DEFINE res == call[c].ret.val
    <3>1. AnswerOK(op[c], call[c], Request[c], store)
      BY DEF IInv
    <3>2. Speaks(res, Request[c], store.moves)
      BY <2>3, <3>1 DEF AnswerOK
    <3> HIDE DEF res
    <3>3. res.kind = "advanced" => res.rev <= Len(store.moves) /\ store.moves[res.rev] = Request[c]
      BY <2>1, <3>2 DEF Speaks
    <3>4. res.kind \in {"conflict", "ahead", "regression"} => Request[c] \notin Range(store.moves)
      BY <2>1, <3>2 DEF Speaks, Range
    <3> QED BY <3>3, <3>4 DEF res
  <2> QED BY <2>2, <2>3 DEF AnswersMatchMoves
<1> QED BY <1>1, Invariant, PTL
=============================================================================
