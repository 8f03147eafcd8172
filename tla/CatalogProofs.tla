---------------------------- MODULE CatalogProofs ----------------------------
(***************************************************************************)
(* Proofs about the stream catalog: the commands of the control group, the *)
(* calls that submit them and the listing of stream bookmarks.             *)
(***************************************************************************)
EXTENDS Catalog, FiniteSetTheorems, NaturalsInduction, WellFoundedInduction, TLAPS

-----------------------------------------------------------------------------
(* The inductive invariant, in parts that name the state they are about.   *)

Places == UNION {[1 .. n -> Groups] : n \in 1 .. MaxParts}
Vecs == UNION {[1 .. n -> Nat] : n \in 1 .. MaxParts}
Specs == [name : Names, parts : Nat \ {0}]
Streams == [life : Lives, name : Names, place : Places, ready : SUBSET Groups, rev : Nat]
Intents == [stream : {0}] \cup [stream : StreamIds, spec : Specs]
Books == [life : {"available", "deleted"}, stream : StreamIds, name : BookNames, vec : Vecs, pub : Nat]
Tails == [StreamIds -> [1 .. MaxParts -> Nat]]
Cats ==
    [streams : [StreamIds -> Streams \cup {Absent}], names : [Names -> Nat],
     intents : [Requests -> Intents], cursor : Nat, revision : Nat,
     books : [BookIds -> Books \cup {Absent}],
     booknames : [StreamIds -> [BookNames -> BookIds \cup {0}]], pubs : [StreamIds -> Nat]]

(* Identities are given out in order, and enough of them are left.         *)
Existing(k) == {s \in StreamIds : Exists(k, s)}
Unused(k) == {r \in Requests : k.intents[r].stream = 0}
IdsOK(k) == \E n \in Nat : Existing(k) = 1 .. n /\ n + Cardinality(Unused(k)) <= MaxIds

NamesOK(k) ==
    \A n \in Names : {s \in Live(k) : k.streams[s].name = n} = IF k.names[n] = 0 THEN {} ELSE {k.names[n]}

(* A group is ready only when it is formed, a stream active only then.     *)
StreamsOK(k, f) ==
    \A s \in StreamIds : Exists(k, s) =>
        /\ k.streams[s].ready \subseteq f
        /\ Life(k, s) # "preparing" => GroupsOf(k.streams[s]) \subseteq f
Settled(k, s) == Exists(k, s) /\ Life(k, s) # "preparing"
TailsOK(k, t) == \A s \in StreamIds : (\E p \in 1 .. MaxParts : t[s][p] > 0) => Settled(k, s)

Inside(vec, s, t) == \A p \in DOMAIN vec : vec[p] <= t[s][p]
BooksOK(k, t) ==
    \A b \in BookIds : k.books[b] # Absent =>
        /\ Exists(k, k.books[b].stream)
        /\ DOMAIN k.books[b].vec = DOMAIN k.streams[k.books[b].stream].place
        /\ Inside(k.books[b].vec, k.books[b].stream, t)

(* Publications of a stream are numbered without repetition.               *)
PubsOK(k) ==
    /\ \A b \in BookIds : k.books[b] # Absent => k.books[b].pub \in 1 .. k.pubs[k.books[b].stream]
    /\ \A a, b \in BookIds :
          k.books[a] # Absent /\ k.books[b] # Absent /\ k.books[a].stream = k.books[b].stream
             /\ k.books[a].pub = k.books[b].pub => a = b

CatOK(k, f, t) ==
    /\ k \in Cats /\ IdsOK(k) /\ NamesOK(k) /\ StreamsOK(k, f) /\ TailsOK(k, t)
    /\ BooksOK(k, t) /\ PubsOK(k)

(* The commands that are submitted: a group was seen formed before it is   *)
(* reported ready, a position was seen below the tail.                     *)
GoalOps == {"create", "begin", "book", "unbook"}
GoalOK(g) ==
    /\ g.op \in GoalOps
    /\ g.op = "create" => g.req \in Requests /\ g.spec \in Specs
    /\ g.op = "book" => g.id \in BookIds /\ g.name \in BookNames /\ g.stream \in StreamIds /\ g.vec \in Vecs
    /\ g.op = "unbook" => g.id \in BookIds
CommandOK(m, f, t) ==
    /\ m.op \in {"ready", "activate", "finish"} \/ GoalOK(m)
    /\ m.op = "ready" => m.group \in f
    /\ m.op = "book" => Inside(m.vec, m.stream, t)

CallFields == {"step", "goal", "op", "left", "stream"}
CallOK(w, k, f, t) ==
    \/ w.step = "idle"
    \/ /\ DOMAIN w = CallFields /\ GoalOK(w.goal) /\ w.step \in {"tail", "member", "wait"}
       /\ w.op \in {"ready", "activate", "finish"} \/ w.op = w.goal.op
       /\ w.op \in {"ready", "activate"} =>
             w.goal.op = "create" /\ w.stream # 0 /\ w.stream = k.intents[w.goal.req].stream
       /\ w.step = "member" => w.op = "ready"
       /\ w.step = "wait" /\ w.op = "ready" => Min(w.left) \in f
       /\ w.step = "tail" => w.op = "book"
       /\ w.op = "book" =>
             /\ \A p \in DOMAIN w.goal.vec : p \in w.left \/ w.goal.vec[p] <= t[w.goal.stream][p]
             /\ w.step = "wait" => w.left = {}

ToldOK(T, k) == \A x \in T : x[1] \in Requests /\ x[2] # 0 /\ x[2] = k.intents[x[1]].stream

(* The listing: what it has is below its ceiling and at or above the place *)
(* it continues from, and it has all that is left there of what existed.   *)
Falling(s) == \A i, j \in 1 .. Len(s) : i < j => s[i] > s[j]
Has(s, n) == \E i \in 1 .. Len(s) : s[i] = n
ListOK(l, k) ==
    \/ l.step = "new"
    \/ /\ l.step \in {"page", "ended"} /\ l.stream \in StreamIds
       /\ DOMAIN l = {"step", "stream", "ceiling", "before", "got", "had"}
       /\ l.ceiling \in Nat /\ l.before \in Nat /\ l.got \in Seq(Nat)
       /\ Falling(l.got)
       /\ \A i \in 1 .. Len(l.got) : l.got[i] <= l.ceiling /\ l.before <= l.got[i]
       /\ \A b \in l.had : /\ b \in BookIds /\ k.books[b] # Absent
                           /\ k.books[b].stream = l.stream /\ k.books[b].pub <= l.ceiling
       /\ \A b \in l.had \cap Available(k, l.stream) :
             l.step = "ended" \/ l.before <= k.books[b].pub => Has(l.got, k.books[b].pub)

LocalOK(L, k) == \A s \in StreamIds : L[s] = "active" => Settled(k, s)

IInv ==
    /\ tails \in Tails /\ 1 \in formed
    /\ CatOK(cat, formed, tails)
    /\ \A c \in Callers : CallOK(caller[c], cat, formed, tails)
    /\ \A m \in floating : CommandOK(m, formed, tails)
    /\ ToldOK(told, cat)
    /\ DOMAIN caller = Callers
    /\ LocalOK(local, cat)
    /\ ListOK(lister, cat)

-----------------------------------------------------------------------------
(* Facts about well-formed catalogs.                                       *)

LEMMA StreamOf ==
    ASSUME NEW k \in Cats, NEW s, Exists(k, s)
    PROVE  s \in StreamIds /\ k.streams[s] \in Streams
<1>1. s \in StreamIds /\ k.streams[s] \in Streams \cup {Absent} /\ k.streams[s].life \in Lives
  BY DEF Exists, Cats
<1>2. Absent.life \notin Lives
  BY DEF Absent, Lives
<1> QED BY <1>1, <1>2, Zenon

LEMMA ExistsIs ==
    ASSUME NEW k \in Cats, NEW s \in StreamIds
    PROVE  Exists(k, s) <=> k.streams[s] \in Streams
<1>1. k.streams[s] \in Streams => k.streams[s].life \in Lives
  BY DEF Streams
<1> QED BY <1>1, StreamOf DEF Exists

LEMMA BookOf ==
    ASSUME NEW k \in Cats, NEW b \in BookIds, k.books[b] # Absent
    PROVE  k.books[b] \in Books
BY DEF Cats

LEMMA DomainOfPlace ==
    ASSUME NEW d \in Streams
    PROVE  DOMAIN d.place \subseteq 1 .. MaxParts /\ \E n \in 1 .. MaxParts : DOMAIN d.place = 1 .. n
<1>1. d.place \in Places
  BY DEF Streams
<1>2. PICK n \in 1 .. MaxParts : d.place \in [1 .. n -> Groups]
  BY <1>1 DEF Places
<1>3. n \in Nat /\ n <= MaxParts /\ MaxParts \in Nat
  BY CatalogAssumption
<1>4. 1 .. n \subseteq 1 .. MaxParts
  BY <1>3
<1> QED BY <1>2, <1>4

(* What a command may never undo.                                          *)
Grown(k, j) ==
    /\ \A r \in Requests : k.intents[r].stream # 0 => j.intents[r].stream = k.intents[r].stream
    /\ \A s \in StreamIds : Exists(k, s) => Exists(j, s) /\ j.streams[s].place = k.streams[s].place
    /\ \A s \in StreamIds : Settled(k, s) => Settled(j, s)
    /\ \A b \in BookIds : k.books[b] # Absent =>
          /\ j.books[b] # Absent
          /\ j.books[b].stream = k.books[b].stream /\ j.books[b].pub = k.books[b].pub
          /\ j.books[b].life = "available" => k.books[b].life = "available"

LEMMA GrownSelf ==
    ASSUME NEW k
    PROVE  Grown(k, k)
BY DEF Grown

(* A stream goes on: j is catalog k with descriptor d for stream s.        *)
StreamChange(k, j, s, d) ==
    /\ j \in Cats /\ j.streams = [k.streams EXCEPT ![s] = d]
    /\ j.intents = k.intents /\ j.books = k.books /\ j.pubs = k.pubs
Advance(c, d, f) ==
    /\ d \in Streams /\ d.name = c.name /\ d.place = c.place /\ d.ready \subseteq f
    /\ d.life = "preparing" => c.life = "preparing"
    /\ d.life # "preparing" => GroupsOf(d) \subseteq f

LEMMA ChangedStream ==
    ASSUME NEW k, NEW j, NEW f, NEW t, CatOK(k, f, t), NEW s, Exists(k, s), NEW d,
           StreamChange(k, j, s, d), Advance(k.streams[s], d, f), NamesOK(j)
    PROVE  CatOK(j, f, t) /\ Grown(k, j)
<1>1. k \in Cats /\ j \in Cats /\ s \in StreamIds /\ k.streams[s] \in Streams /\ d \in Streams
  BY StreamOf DEF CatOK, StreamChange, Advance
<1>2. /\ j.intents = k.intents /\ j.books = k.books /\ j.pubs = k.pubs
      /\ j.streams[s] = d /\ \A x \in StreamIds : x # s => j.streams[x] = k.streams[x]
  BY <1>1 DEF StreamChange, Cats
<1>3. ASSUME NEW x \in StreamIds PROVE Exists(j, x) <=> Exists(k, x)
  BY <1>1, <1>2, ExistsIs
<1>4. ASSUME NEW x \in StreamIds, Exists(k, x) PROVE j.streams[x].place = k.streams[x].place
  BY <1>2 DEF Advance
<1>5. ASSUME NEW x \in StreamIds, Settled(k, x) PROVE Settled(j, x)
  <2>1. CASE x = s
    BY <1>2, <1>3, <1>5, <2>1 DEF Settled, Advance, Life
  <2>2. CASE x # s
    BY <1>2, <1>3, <1>5, <2>2 DEF Settled, Life
  <2> QED BY <2>1, <2>2
<1>6. Grown(k, j)
  BY <1>2, <1>3, <1>4, <1>5 DEF Grown
<1>7. IdsOK(j)
  <2>1. Existing(j) = Existing(k) /\ Unused(j) = Unused(k)
    BY <1>2, <1>3 DEF Existing, Unused
  <2> QED BY <2>1 DEF IdsOK, CatOK
<1>8. StreamsOK(j, f)
  <2> SUFFICES ASSUME NEW x \in StreamIds, Exists(j, x)
               PROVE  /\ j.streams[x].ready \subseteq f
                      /\ Life(j, x) # "preparing" => GroupsOf(j.streams[x]) \subseteq f
    BY DEF StreamsOK
  <2>1. CASE x = s
    BY <1>2, <2>1 DEF Advance, Life
  <2>2. CASE x # s
    BY <1>2, <1>3, <2>2 DEF CatOK, StreamsOK, Life
  <2> QED BY <2>1, <2>2
<1>9. TailsOK(j, t)
  BY <1>5 DEF TailsOK, CatOK
<1>10. BooksOK(j, t)
  <2> SUFFICES ASSUME NEW b \in BookIds, j.books[b] # Absent
               PROVE  /\ Exists(j, j.books[b].stream)
                      /\ DOMAIN j.books[b].vec = DOMAIN j.streams[j.books[b].stream].place
                      /\ Inside(j.books[b].vec, j.books[b].stream, t)
    BY DEF BooksOK
  <2> DEFINE m == k.books[b]
  <2>1. j.books[b] = m /\ m # Absent
    BY <1>2
  <2>2. Exists(k, m.stream) /\ DOMAIN m.vec = DOMAIN k.streams[m.stream].place /\ Inside(m.vec, m.stream, t)
    BY <2>1 DEF CatOK, BooksOK
  <2> HIDE DEF m
  <2>3. m.stream \in StreamIds
    BY <2>2 DEF Exists
  <2> QED BY <1>3, <1>4, <2>1, <2>2, <2>3
<1>11. PubsOK(j)
  BY <1>2 DEF PubsOK, CatOK
<1> QED BY <1>1, <1>6, <1>7, <1>8, <1>9, <1>10, <1>11 DEF CatOK

(* The name index while no stream comes or goes.                           *)
LEMMA NamesStay ==
    ASSUME NEW k, NEW j, NEW f, NEW t, CatOK(k, f, t), NEW s, Exists(k, s), NEW d,
           StreamChange(k, j, s, d), Advance(k.streams[s], d, f), j.names = k.names,
           d.life = "deleted" <=> k.streams[s].life = "deleted"
    PROVE  NamesOK(j)
<1>1. k \in Cats /\ j \in Cats /\ s \in StreamIds /\ k.streams[s] \in Streams /\ d \in Streams
  BY StreamOf DEF CatOK, StreamChange, Advance
<1>2. j.streams[s] = d /\ \A x \in StreamIds : x # s => j.streams[x] = k.streams[x]
  BY <1>1 DEF StreamChange, Cats
<1>3. ASSUME NEW x \in StreamIds PROVE Exists(j, x) <=> Exists(k, x)
  BY <1>1, <1>2, ExistsIs
<1>4. Live(j) = Live(k)
  <2> SUFFICES ASSUME NEW x \in StreamIds PROVE x \in Live(j) <=> x \in Live(k)
    BY DEF Live
  <2>1. CASE x = s
    BY <1>2, <1>3, <2>1 DEF Live, Life
  <2>2. CASE x # s
    BY <1>2, <1>3, <2>2 DEF Live, Life
  <2> QED BY <2>1, <2>2
<1>5. ASSUME NEW x \in Live(k) PROVE j.streams[x].name = k.streams[x].name
  <2>1. x \in StreamIds
    BY DEF Live
  <2> QED BY <1>2, <2>1 DEF Advance
<1>6. ASSUME NEW n \in Names
      PROVE  {x \in Live(j) : j.streams[x].name = n} = {x \in Live(k) : k.streams[x].name = n}
  BY <1>4, <1>5
<1> QED BY <1>6 DEF NamesOK, CatOK

-----------------------------------------------------------------------------
(* The commands.                                                           *)

Fine(k, j, f, t) == CatOK(j, f, t) /\ Grown(k, j)

LEMMA KeptIsFine ==
    ASSUME NEW k, NEW f, NEW t, CatOK(k, f, t), NEW r
    PROVE  Fine(k, Keep(k, r).k, f, t) /\ Fine(k, Refuse(k).k, f, t)
<1>1. Keep(k, r).k = k /\ Refuse(k).k = k
  BY DEF Keep, Refuse
<1>2. Fine(k, k, f, t)
  BY GrownSelf DEF Fine
<1> QED BY <1>1, <1>2, Zenon

LEMMA SetStreamIs ==
    ASSUME NEW k \in Cats, NEW s \in StreamIds, NEW d \in Streams
    PROVE  StreamChange(k, SetStream(k, s, d), s, d) /\ SetStream(k, s, d).names = k.names
<1> DEFINE S == [k.streams EXCEPT ![s] = d]
           v == k.revision + 1
           j == [k EXCEPT !.streams = S, !.revision = v]
<1>1. SetStream(k, s, d) = j
  BY DEF SetStream
<1>2. S \in [StreamIds -> Streams \cup {Absent}] /\ v \in Nat
  BY DEF Cats
<1> HIDE DEF S, v
<1>3. /\ j \in Cats /\ j.streams = S /\ j.names = k.names /\ j.intents = k.intents
      /\ j.books = k.books /\ j.pubs = k.pubs
  BY <1>2 DEF Cats
<1> HIDE DEF j
<1>4. StreamChange(k, j, s, d) /\ j.names = k.names
  BY <1>3 DEF StreamChange, S
<1> QED BY <1>1, <1>4, Zenon

LEMMA SetStreamIsFine ==
    ASSUME NEW k, NEW f, NEW t, CatOK(k, f, t), NEW s, Exists(k, s), NEW d,
           Advance(k.streams[s], d, f), d.life = "deleted" <=> k.streams[s].life = "deleted"
    PROVE  Fine(k, SetStream(k, s, d), f, t)
<1> DEFINE j == SetStream(k, s, d)
<1>1. k \in Cats /\ s \in StreamIds /\ d \in Streams
  BY StreamOf DEF CatOK, Advance
<1>2. StreamChange(k, j, s, d) /\ j.names = k.names
  BY <1>1, SetStreamIs
<1> HIDE DEF j
<1>3. NamesOK(j)
  BY <1>2, NamesStay
<1>4. Fine(k, j, f, t)
  BY <1>2, <1>3, ChangedStream DEF Fine
<1> QED BY <1>4 DEF j

(* The descriptor of a stream after Move.                                  *)
Moved(c, life, v) == [c EXCEPT !.life = life, !.rev = v]

LEMMA MovedStream ==
    ASSUME NEW c \in Streams, NEW v \in Nat, NEW life \in Lives
    PROVE  /\ Moved(c, life, v) \in Streams
           /\ Moved(c, life, v).name = c.name /\ Moved(c, life, v).place = c.place
           /\ Moved(c, life, v).ready = c.ready /\ Moved(c, life, v).life = life
BY DEF Moved, Streams

LEMMA ReplicaReadyIsFine ==
    ASSUME NEW k, NEW f, NEW t, CatOK(k, f, t), NEW m, m.group \in f
    PROVE  Fine(k, ReplicaReady(k, m).k, f, t)
<1> DEFINE s == m.stream
           c == k.streams[s]
           v == k.revision + 1
           R == c.ready \cup {m.group}
           d == [c EXCEPT !.ready = R, !.rev = v]
<1>1. CASE Exists(k, s) /\ Life(k, s) = "preparing" /\ m.group \in GroupsOf(c) /\ m.group \notin c.ready
  <2>1. ReplicaReady(k, m) = Keep(SetStream(k, s, d), s)
    BY <1>1 DEF ReplicaReady
  <2>2. k \in Cats /\ c \in Streams /\ s \in StreamIds
    BY <1>1, StreamOf DEF CatOK
  <2>3. c.ready \subseteq f /\ c.ready \subseteq Groups
    BY <1>1, <2>2 DEF CatOK, StreamsOK, Streams
  <2>4. m.group \in Groups
    <3>1. c.place \in Places
      BY <2>2 DEF Streams
    <3>2. PICK n \in 1 .. MaxParts : c.place \in [1 .. n -> Groups]
      BY <3>1 DEF Places
    <3> HIDE DEF c
    <3> QED BY <1>1, <3>2 DEF GroupsOf
  <2>5. R \subseteq Groups /\ R \subseteq f /\ v \in Nat
    BY <2>2, <2>3, <2>4 DEF Cats
  <2>6. c.life = "preparing"
    BY <1>1 DEF Life
  <2> HIDE DEF R, v, c
  <2>7. d \in Streams /\ d.name = c.name /\ d.place = c.place /\ d.ready = R /\ d.life = "preparing"
    BY <2>2, <2>5, <2>6 DEF Streams
  <2> HIDE DEF d
  <2>8. Advance(c, d, f)
    BY <2>5, <2>6, <2>7 DEF Advance
  <2>9. Fine(k, SetStream(k, s, d), f, t)
    <3>1. d.life = "deleted" <=> c.life = "deleted"
      BY <2>6, <2>7
    <3> QED BY <1>1, <2>8, <3>1, SetStreamIsFine DEF c
  <2>10. ReplicaReady(k, m).k = SetStream(k, s, d)
    BY <2>1 DEF Keep
  <2> QED BY <2>9, <2>10, Zenon
<1>2. CASE ~(Exists(k, s) /\ Life(k, s) = "preparing" /\ m.group \in GroupsOf(c) /\ m.group \notin c.ready)
  <2>1. ReplicaReady(k, m) = Refuse(k) \/ ReplicaReady(k, m) = Keep(k, s)
    BY <1>2 DEF ReplicaReady
  <2> QED BY <2>1, KeptIsFine, Zenon
<1> QED BY <1>1, <1>2

LEMMA MoveIsFine ==
    ASSUME NEW k, NEW f, NEW t, CatOK(k, f, t), NEW s, Exists(k, s), NEW life \in {"active", "deleting"},
           Life(k, s) # "deleted", GroupsOf(k.streams[s]) \subseteq f
    PROVE  Fine(k, Move(k, s, life), f, t)
<1> DEFINE c == k.streams[s]
           d == Moved(c, life, k.revision + 1)
<1>1. Move(k, s, life) = SetStream(k, s, d)
  BY DEF Move, Moved
<1>2. c \in Streams /\ k.revision + 1 \in Nat /\ life \in Lives
  BY StreamOf DEF CatOK, Cats, Lives
<1>3. d \in Streams /\ d.name = c.name /\ d.place = c.place /\ d.ready = c.ready /\ d.life = life
  BY <1>2, MovedStream
<1>4. c.ready \subseteq f /\ c.life # "deleted"
  BY StreamOf DEF CatOK, StreamsOK, Life
<1>5. GroupsOf(d) = GroupsOf(c)
  BY <1>3 DEF GroupsOf
<1> HIDE DEF d
<1>6. Advance(c, d, f)
  BY <1>3, <1>4, <1>5 DEF Advance
<1>7. d.life = "deleted" <=> c.life = "deleted"
  BY <1>3, <1>4
<1>8. Fine(k, SetStream(k, s, d), f, t)
  BY <1>6, <1>7, SetStreamIsFine
<1> QED BY <1>1, <1>8, Zenon

LEMMA ActivateIsFine ==
    ASSUME NEW k, NEW f, NEW t, CatOK(k, f, t), NEW m
    PROVE  Fine(k, ActivateStream(k, m).k, f, t)
<1> DEFINE s == m.stream
           a == ActivateStream(k, m)
<1>1. CASE Exists(k, s) /\ Life(k, s) = "preparing" /\ k.streams[s].ready = GroupsOf(k.streams[s])
  <2>1. a = Keep(Move(k, s, "active"), s)
    BY <1>1 DEF ActivateStream
  <2>2. a.k = Move(k, s, "active")
    BY <2>1 DEF Keep
  <2>3. GroupsOf(k.streams[s]) \subseteq f
    BY <1>1, StreamOf DEF CatOK, StreamsOK
  <2>4. Fine(k, Move(k, s, "active"), f, t)
    BY <1>1, <2>3, MoveIsFine
  <2> QED BY <2>2, <2>4, Zenon
<1>2. CASE ~(Exists(k, s) /\ Life(k, s) = "preparing" /\ k.streams[s].ready = GroupsOf(k.streams[s]))
  <2>1. a = Refuse(k) \/ a = Keep(k, s)
    BY <1>2 DEF ActivateStream
  <2> QED BY <2>1, KeptIsFine, Zenon
<1> QED BY <1>1, <1>2

LEMMA BeginDeleteIsFine ==
    ASSUME NEW k, NEW f, NEW t, CatOK(k, f, t), NEW m
    PROVE  Fine(k, BeginDelete(k, m).k, f, t)
<1> DEFINE s == m.stream
           a == BeginDelete(k, m)
<1>1. CASE Exists(k, s) /\ Life(k, s) = "active"
  <2>1. a = Keep(Move(k, s, "deleting"), s)
    BY <1>1 DEF BeginDelete
  <2>2. a.k = Move(k, s, "deleting")
    BY <2>1 DEF Keep
  <2>3. GroupsOf(k.streams[s]) \subseteq f
    BY <1>1, StreamOf DEF CatOK, StreamsOK
  <2>4. Fine(k, Move(k, s, "deleting"), f, t)
    BY <1>1, <2>3, MoveIsFine
  <2> QED BY <2>2, <2>4, Zenon
<1>2. CASE ~(Exists(k, s) /\ Life(k, s) = "active")
  <2>1. a = Refuse(k) \/ a = Keep(k, s)
    BY <1>2 DEF BeginDelete
  <2> QED BY <2>1, KeptIsFine, Zenon
<1> QED BY <1>1, <1>2

LEMMA FinishDeleteIsFine ==
    ASSUME NEW k, NEW f, NEW t, CatOK(k, f, t), NEW m
    PROVE  Fine(k, FinishDelete(k, m).k, f, t)
<1> DEFINE s == m.stream
           a == FinishDelete(k, m)
           c == k.streams[s]
           d == Moved(c, "deleted", k.revision + 1)
           i == SetStream(k, s, d)
           N == [k.names EXCEPT ![c.name] = 0]
           j == [i EXCEPT !.names = N]
<1>1. CASE Exists(k, s) /\ Life(k, s) = "deleting"
  <2>1. a = Keep(j, s)
    <3>1. a = Keep([Move(k, s, "deleted") EXCEPT !.names[c.name] = 0], s)
      BY <1>1 DEF FinishDelete
    <3>2. Move(k, s, "deleted") = i
      BY DEF Move, Moved
    <3>3. c \in Streams /\ k \in Cats /\ s \in StreamIds
      BY <1>1, StreamOf DEF CatOK
    <3>4. d \in Streams
      BY <3>3, MovedStream DEF Cats, Lives
    <3> HIDE DEF d
    <3>5. i.names = k.names
      BY <3>3, <3>4, SetStreamIs
    <3> HIDE DEF i
    <3>6. [i EXCEPT !.names[c.name] = 0] = j
      BY <3>5
    <3> HIDE DEF j
    <3> QED BY <3>1, <3>2, <3>6, Zenon
  <2>2. a.k = j
    BY <2>1 DEF Keep
  <2>3. c \in Streams /\ k.revision + 1 \in Nat /\ "deleted" \in Lives /\ k \in Cats /\ s \in StreamIds
    BY <1>1, StreamOf DEF CatOK, Cats, Lives
  <2>4. d \in Streams /\ d.name = c.name /\ d.place = c.place /\ d.ready = c.ready /\ d.life = "deleted"
    BY <2>3, MovedStream
  <2> HIDE DEF d
  <2>5. StreamChange(k, i, s, d) /\ i.names = k.names
    BY <2>3, <2>4, SetStreamIs
  <2> HIDE DEF i
  <2>6. N \in [Names -> Nat] /\ c.name \in Names
    BY <2>3 DEF Cats, Streams
  <2>7. j \in Cats /\ j.names = N /\ j.streams = i.streams /\ j.intents = i.intents /\ j.books = i.books
        /\ j.pubs = i.pubs
    <3> HIDE DEF N
    <3> QED BY <2>5, <2>6 DEF StreamChange, Cats
  <2> HIDE DEF j
  <2>8. StreamChange(k, j, s, d)
    BY <2>5, <2>7 DEF StreamChange
  <2>9. Advance(c, d, f)
    <3>1. c.ready \subseteq f /\ GroupsOf(c) \subseteq f
      BY <1>1, <2>3 DEF CatOK, StreamsOK
    <3>2. GroupsOf(d) = GroupsOf(c)
      BY <2>4 DEF GroupsOf
    <3> QED BY <2>4, <3>1, <3>2 DEF Advance
  <2>10. j.streams[s] = d /\ \A x \in StreamIds : x # s => j.streams[x] = k.streams[x]
    BY <2>3, <2>8 DEF StreamChange, Cats
  <2>11. Live(j) = Live(k) \ {s} /\ s \in Live(k)
    <3>1. ASSUME NEW x \in StreamIds PROVE Exists(j, x) <=> Exists(k, x)
      BY <1>1, <2>3, <2>4, <2>7, <2>10, ExistsIs
    <3>2. Life(j, s) = "deleted"
      BY <2>4, <2>10 DEF Life
    <3>3. s \notin Live(j) /\ s \in Live(k)
      BY <1>1, <2>3, <3>2 DEF Live
    <3>4. ASSUME NEW x \in StreamIds, x # s PROVE x \in Live(j) <=> x \in Live(k)
      BY <2>10, <3>1, <3>4 DEF Live, Life
    <3> QED BY <3>3, <3>4 DEF Live
  <2>12. NamesOK(j)
    <3> SUFFICES ASSUME NEW n \in Names
                 PROVE  {x \in Live(j) : j.streams[x].name = n} = IF j.names[n] = 0 THEN {} ELSE {j.names[n]}
      BY DEF NamesOK
    <3>1. {x \in Live(k) : k.streams[x].name = n} = IF k.names[n] = 0 THEN {} ELSE {k.names[n]}
      BY DEF CatOK, NamesOK
    <3>2. {x \in Live(j) : j.streams[x].name = n} = {x \in Live(k) : k.streams[x].name = n} \ {s}
      <4>1. \A x \in Live(j) : x \in StreamIds /\ x # s
        BY <2>11 DEF Live
      <4> QED BY <2>10, <2>11, <4>1
    <3>3. CASE n = c.name
      <4>1. j.names[n] = 0
        BY <2>3, <2>6, <2>7, <3>3 DEF Cats
      <4>2. s \in {x \in Live(k) : k.streams[x].name = n}
        BY <2>11, <3>3
      <4>3. {x \in Live(k) : k.streams[x].name = n} = {s}
        BY <3>1, <4>2
      <4> QED BY <3>2, <4>1, <4>3
    <3>4. CASE n # c.name
      <4>1. j.names[n] = k.names[n]
        BY <2>3, <2>6, <2>7, <3>4 DEF Cats
      <4>2. s \notin {x \in Live(k) : k.streams[x].name = n}
        BY <3>4
      <4> QED BY <3>1, <3>2, <4>1, <4>2
    <3> QED BY <3>3, <3>4
  <2>13. Fine(k, j, f, t)
    BY <1>1, <2>8, <2>9, <2>12, ChangedStream DEF Fine
  <2> QED BY <2>2, <2>13, Zenon
<1>2. CASE ~(Exists(k, s) /\ Life(k, s) = "deleting")
  <2>1. a = Refuse(k) \/ a = Keep(k, s)
    BY <1>2 DEF FinishDelete
  <2> QED BY <2>1, KeptIsFine, Zenon
<1> QED BY <1>1, <1>2

(* A new identity is one that nobody has.                                  *)
LEMMA NewStreamIs ==
    ASSUME NEW k \in Cats, IdsOK(k), NEW r \in Unused(k)
    PROVE  /\ NewStream(k) \in StreamIds /\ ~Exists(k, NewStream(k)) /\ NewStream(k) # 0
           /\ Existing(k) \cup {NewStream(k)} = 1 .. NewStream(k)
           /\ NewStream(k) + Cardinality(Unused(k) \ {r}) <= MaxIds
<1> DEFINE U == Unused(k)
<1>1. PICK n \in Nat : Existing(k) = 1 .. n /\ n + Cardinality(U) <= MaxIds
  BY DEF IdsOK
<1>2. IsFiniteSet(U) /\ Cardinality(U) \in Nat
  <2>1. U \subseteq Requests
    BY DEF Unused
  <2> QED BY <2>1, IdsAssumption, FS_Subset, FS_CardinalityType
<1>3. Cardinality(U \ {r}) = Cardinality(U) - 1 /\ Cardinality(U \ {r}) \in Nat
  <2>1. IsFiniteSet(U \ {r}) /\ Cardinality(U \ {r}) = Cardinality(U) - 1
    BY <1>2, FS_RemoveElement
  <2> QED BY <2>1, FS_CardinalityType
<1>4. Cardinality(Existing(k)) = n
  BY <1>1, FS_Interval
<1>5. NewStream(k) = n + 1
  <2>1. NewStream(k) = 1 + Cardinality(Existing(k))
    BY DEF NewStream, Existing
  <2> QED BY <1>1, <1>4, <2>1
<1> HIDE DEF U
<1>6. n + 1 + Cardinality(U \ {r}) <= MaxIds /\ n + 1 \in 1 .. MaxIds /\ n + 1 # 0
  BY <1>1, <1>2, <1>3, IdsAssumption
<1>7. n + 1 \notin Existing(k) /\ Existing(k) \cup {n + 1} = 1 .. n + 1
  BY <1>1
<1> QED BY <1>5, <1>6, <1>7 DEF U, StreamIds, Existing

LEMMA PlaceIs ==
    ASSUME NEW k \in Cats, NEW parts \in 1 .. MaxParts
    PROVE  Place(k, parts) \in Places
<1>1. k.cursor \in Nat /\ NGroups \in Nat \ {0}
  BY CatalogAssumption DEF Cats
<1>2. ASSUME NEW p \in 1 .. parts PROVE 1 + ((k.cursor + p - 1) % NGroups) \in Groups
  <2> DEFINE x == k.cursor + p - 1
  <2>1. x \in Int
    BY <1>1
  <2> HIDE DEF x
  <2>2. x % NGroups \in 0 .. NGroups - 1
    BY <1>1, <2>1
  <2>3. 1 + (x % NGroups) \in 1 .. NGroups
    BY <1>1, <2>2
  <2> QED BY <2>3 DEF x, Groups
<1>3. Place(k, parts) \in [1 .. parts -> Groups]
  BY <1>2 DEF Place
<1> QED BY <1>3 DEF Places

(* A stream that comes into being.                                         *)
LEMMA CreatedIsFine ==
    ASSUME NEW k, NEW f, NEW t, CatOK(k, f, t), NEW r \in Unused(k), NEW n \in Names, k.names[n] = 0,
           NEW d \in Streams, d.name = n, d.life = "preparing", d.ready = {},
           NEW j \in Cats, j.streams = [k.streams EXCEPT ![NewStream(k)] = d],
           j.names = [k.names EXCEPT ![n] = NewStream(k)], NEW i, i.stream = NewStream(k),
           j.intents = [k.intents EXCEPT ![r] = i], j.books = k.books, j.pubs = k.pubs
    PROVE  Fine(k, j, f, t)
<1> DEFINE s == NewStream(k)
<1>0. k \in Cats /\ IdsOK(k) /\ r \in Requests /\ k.intents[r].stream = 0
  BY DEF CatOK, Unused
<1>1. /\ s \in StreamIds /\ ~Exists(k, s) /\ s # 0 /\ Existing(k) \cup {s} = 1 .. s
      /\ s + Cardinality(Unused(k) \ {r}) <= MaxIds
  BY <1>0, NewStreamIs
<1> HIDE DEF s
<1>2. j.streams[s] = d /\ \A x \in StreamIds : x # s => j.streams[x] = k.streams[x]
  BY <1>0, <1>1 DEF Cats, s
<1>3. /\ j.names[n] = s /\ \A y \in Names : y # n => j.names[y] = k.names[y]
      /\ j.intents[r].stream = s /\ \A y \in Requests : y # r => j.intents[y] = k.intents[y]
  BY <1>0 DEF Cats, s
<1>4. Exists(j, s) /\ \A x \in StreamIds : x # s => (Exists(j, x) <=> Exists(k, x))
  BY <1>0, <1>1, <1>2, ExistsIs
<1>5. ASSUME NEW x \in StreamIds, Exists(k, x)
      PROVE  x # s /\ Exists(j, x) /\ j.streams[x] = k.streams[x]
  BY <1>1, <1>2, <1>4, <1>5
<1>6. ASSUME NEW x \in StreamIds, Settled(k, x) PROVE Settled(j, x)
  BY <1>5, <1>6 DEF Settled, Life
<1>7. Grown(k, j)
  BY <1>0, <1>3, <1>5, <1>6 DEF Grown
<1>8. IdsOK(j)
  <2>1. Existing(j) = Existing(k) \cup {s}
    BY <1>1, <1>4 DEF Existing
  <2>2. Unused(j) = Unused(k) \ {r}
    BY <1>0, <1>1, <1>3 DEF Unused
  <2>3. s \in Nat
    BY <1>1, IdsAssumption DEF StreamIds
  <2> QED BY <1>1, <2>1, <2>2, <2>3 DEF IdsOK
<1>9. NamesOK(j)
  <2>1. Live(j) = Live(k) \cup {s} /\ s \notin Live(k)
    <3>1. Life(j, s) = "preparing"
      BY <1>2 DEF Life
    <3>2. s \in Live(j) /\ s \notin Live(k)
      BY <1>1, <1>4, <3>1 DEF Live
    <3>3. ASSUME NEW x \in StreamIds, x # s PROVE x \in Live(j) <=> x \in Live(k)
      BY <1>2, <1>4, <3>3 DEF Live, Life
    <3> QED BY <3>2, <3>3 DEF Live
  <2> SUFFICES ASSUME NEW y \in Names
               PROVE  {x \in Live(j) : j.streams[x].name = y} = IF j.names[y] = 0 THEN {} ELSE {j.names[y]}
    BY DEF NamesOK
  <2>2. {x \in Live(k) : k.streams[x].name = y} = IF k.names[y] = 0 THEN {} ELSE {k.names[y]}
    BY DEF CatOK, NamesOK
  <2>3. \A x \in Live(k) : j.streams[x].name = k.streams[x].name
    BY <1>2, <2>1 DEF Live
  <2>4. CASE y = n
    <3>1. {x \in Live(k) : k.streams[x].name = y} = {}
      BY <2>2, <2>4
    <3>2. {x \in Live(j) : j.streams[x].name = y} = {s}
      BY <1>2, <2>1, <2>3, <2>4, <3>1
    <3> QED BY <1>1, <1>3, <2>4, <3>2
  <2>5. CASE y # n
    <3>1. {x \in Live(j) : j.streams[x].name = y} = {x \in Live(k) : k.streams[x].name = y}
      BY <1>2, <2>1, <2>3, <2>5
    <3> QED BY <1>3, <2>2, <2>5, <3>1
  <2> QED BY <2>4, <2>5
<1>10. StreamsOK(j, f)
  <2> SUFFICES ASSUME NEW x \in StreamIds, Exists(j, x)
               PROVE  /\ j.streams[x].ready \subseteq f
                      /\ Life(j, x) # "preparing" => GroupsOf(j.streams[x]) \subseteq f
    BY DEF StreamsOK
  <2>1. CASE x = s
    BY <1>2, <2>1 DEF Life
  <2>2. CASE x # s
    BY <1>2, <1>4, <2>2 DEF CatOK, StreamsOK, Life
  <2> QED BY <2>1, <2>2
<1>11. TailsOK(j, t)
  BY <1>6 DEF TailsOK, CatOK
<1>12. BooksOK(j, t)
  <2> SUFFICES ASSUME NEW b \in BookIds, j.books[b] # Absent
               PROVE  /\ Exists(j, j.books[b].stream)
                      /\ DOMAIN j.books[b].vec = DOMAIN j.streams[j.books[b].stream].place
                      /\ Inside(j.books[b].vec, j.books[b].stream, t)
    BY DEF BooksOK
  <2> DEFINE m == k.books[b]
  <2>1. j.books[b] = m /\ m # Absent
    OBVIOUS
  <2>2. Exists(k, m.stream) /\ DOMAIN m.vec = DOMAIN k.streams[m.stream].place /\ Inside(m.vec, m.stream, t)
    BY <2>1 DEF CatOK, BooksOK
  <2> HIDE DEF m
  <2>3. m.stream \in StreamIds
    BY <2>2 DEF Exists
  <2> QED BY <1>5, <2>1, <2>2, <2>3
<1>13. PubsOK(j)
  BY DEF PubsOK, CatOK
<1> QED BY <1>7, <1>8, <1>9, <1>10, <1>11, <1>12, <1>13 DEF Fine, CatOK

(* The answer to a create request is the stream its intent names.          *)
LEMMA CreateStreamIsFine ==
    ASSUME NEW k, NEW f, NEW t, CatOK(k, f, t), NEW m, m.req \in Requests, m.spec \in Specs
    PROVE  /\ Fine(k, CreateStream(k, m).k, f, t)
           /\ CreateStream(k, m).r # 0 =>
                 CreateStream(k, m).r = CreateStream(k, m).k.intents[m.req].stream
<1> DEFINE a == CreateStream(k, m)
           r == m.req
           n == m.spec.name
           parts == m.spec.parts
           s == NewStream(k)
<1>1. CASE Replayed(k, m)
  <2>1. a = Keep(k, k.intents[r].stream) \/ a = Refuse(k)
    BY <1>1 DEF CreateStream
  <2>2. Fine(k, a.k, f, t)
    BY <2>1, KeptIsFine, Zenon
  <2>3. a.r # 0 => a.r = a.k.intents[r].stream
    BY <2>1 DEF Keep, Refuse
  <2> QED BY <2>2, <2>3
<1>2. CASE ~Replayed(k, m) /\ (k.names[n] # 0 \/ parts > MaxParts \/ Cardinality(Live(k)) >= MaxStreams)
  <2>1. a = Refuse(k)
    BY <1>2 DEF CreateStream
  <2>2. Fine(k, a.k, f, t)
    BY <2>1, KeptIsFine, Zenon
  <2>3. a.r = 0
    BY <2>1 DEF Keep, Refuse
  <2> QED BY <2>2, <2>3
<1>3. CASE ~Replayed(k, m) /\ ~(k.names[n] # 0 \/ parts > MaxParts \/ Cardinality(Live(k)) >= MaxStreams)
  <2> DEFINE pl == Place(k, parts)
             v == k.revision + 1
             d == [life |-> "preparing", name |-> n, place |-> pl, ready |-> {}, rev |-> v]
             i == [stream |-> s, spec |-> m.spec]
             S == [k.streams EXCEPT ![s] = d]
             N == [k.names EXCEPT ![n] = s]
             I == [k.intents EXCEPT ![r] = i]
             C == NextCursor(k, parts)
             j == [k EXCEPT !.streams = S, !.revision = v, !.names = N, !.intents = I, !.cursor = C]
  <2>1. k \in Cats /\ IdsOK(k) /\ n \in Names /\ parts \in Nat \ {0} /\ r \in Unused(k) /\ k.names[n] = 0
    <3>1. k \in Cats /\ IdsOK(k) /\ n \in Names /\ parts \in Nat \ {0} /\ k.names[n] = 0
      BY <1>3 DEF CatOK, Specs
    <3>2. r \in Unused(k)
      BY <1>3 DEF Replayed, Unused
    <3> QED BY <3>1, <3>2
  <2>2. s \in StreamIds /\ s # 0
    BY <2>1, NewStreamIs
  <2>3. pl \in Places /\ v \in Nat
    <3>1. parts \in 1 .. MaxParts
      BY <1>3, <2>1, CatalogAssumption
    <3> QED BY <2>1, <3>1, PlaceIs DEF Cats
  <2>4. a = Keep(j, s)
    <3>1. a = Keep([SetStream(k, s, d) EXCEPT !.names[n] = s, !.intents[r] = i, !.cursor = C], s)
      BY <1>3 DEF CreateStream
    <3> HIDE DEF s, d, i, C
    <3>2. SetStream(k, s, d) = [k EXCEPT !.streams = S, !.revision = v]
      BY DEF SetStream
    <3> DEFINE h == [k EXCEPT !.streams = S, !.revision = v]
    <3> HIDE DEF S, v
    <3>3. h.names = k.names /\ h.intents = k.intents
      BY <2>1 DEF Cats
    <3>4. [h EXCEPT !.names[n] = s, !.intents[r] = i, !.cursor = C]
          = [h EXCEPT !.names = N, !.intents = I, !.cursor = C]
      BY <3>3
    <3> HIDE DEF N, I
    <3>5. [h EXCEPT !.names = N, !.intents = I, !.cursor = C] = j
      BY <2>1 DEF Cats
    <3> HIDE DEF h, j
    <3> QED BY <3>1, <3>2, <3>4, <3>5, Zenon DEF h
  <2>5. d \in Streams
    <3> HIDE DEF pl, v
    <3> QED BY <2>1, <2>3 DEF Streams, Lives
  <2>6. d.name = n /\ d.life = "preparing" /\ d.ready = {}
    OBVIOUS
  <2> HIDE DEF d
  <2>7. i \in Intents /\ i.stream = s
    BY <2>2 DEF Intents
  <2> HIDE DEF s, i
  <2>8. /\ S \in [StreamIds -> Streams \cup {Absent}] /\ N \in [Names -> Nat]
        /\ I \in [Requests -> Intents] /\ C \in Nat
    <3>1. s \in Nat
      BY <2>2, IdsAssumption DEF StreamIds
    <3>2. C \in Nat
      BY <2>1 DEF Cats, NextCursor
    <3>3. S \in [StreamIds -> Streams \cup {Absent}]
      BY <2>1, <2>2, <2>5 DEF Cats
    <3>4. N \in [Names -> Nat]
      BY <2>1, <3>1 DEF Cats
    <3>5. I \in [Requests -> Intents]
      BY <2>1, <2>7 DEF Cats
    <3> QED BY <3>2, <3>3, <3>4, <3>5
  <2>9. I[r].stream = s
    BY <2>1, <2>7 DEF Cats
  <2> HIDE DEF S, N, I, C, v
  <2>10. /\ j \in Cats /\ j.streams = S /\ j.names = N /\ j.intents = I /\ j.books = k.books
         /\ j.pubs = k.pubs
    BY <2>1, <2>3, <2>8 DEF Cats
  <2> HIDE DEF j
  <2>11. Fine(k, j, f, t)
    <3>1. /\ j.streams = [k.streams EXCEPT ![NewStream(k)] = d]
          /\ j.names = [k.names EXCEPT ![n] = NewStream(k)]
          /\ j.intents = [k.intents EXCEPT ![r] = i] /\ i.stream = NewStream(k)
      BY <2>7, <2>10 DEF S, N, I, s
    <3> QED BY <2>1, <2>5, <2>6, <2>10, <3>1, CreatedIsFine
  <2>12. a.k = j /\ a.r = s
    BY <2>4 DEF Keep
  <2> HIDE DEF a
  <2>13. a.r = a.k.intents[r].stream
    BY <2>9, <2>10, <2>12
  <2>14. Fine(k, a.k, f, t)
    BY <2>11, <2>12, Zenon
  <2> QED BY <2>13, <2>14 DEF a
<1> QED BY <1>1, <1>2, <1>3

(* A bookmark is added or changes: j is catalog k with bookmark b at id.   *)
BookChange(k, j, id, b) ==
    /\ j \in Cats /\ j.streams = k.streams /\ j.names = k.names /\ j.intents = k.intents
    /\ j.books = [k.books EXCEPT ![id] = b]

LEMMA ChangedBook ==
    ASSUME NEW k, NEW j, NEW f, NEW t, CatOK(k, f, t), NEW id \in BookIds, NEW b \in Books,
           BookChange(k, j, id, b), PubsOK(j),
           Exists(k, b.stream), DOMAIN b.vec = DOMAIN k.streams[b.stream].place,
           Inside(b.vec, b.stream, t),
           k.books[id] # Absent => /\ b.stream = k.books[id].stream /\ b.pub = k.books[id].pub
                                   /\ b.life = "available" => k.books[id].life = "available"
    PROVE  Fine(k, j, f, t)
<1>1. k \in Cats /\ j \in Cats /\ j.streams = k.streams /\ j.names = k.names /\ j.intents = k.intents
  BY DEF CatOK, BookChange
<1>2. j.books[id] = b /\ \A x \in BookIds : x # id => j.books[x] = k.books[x]
  BY <1>1 DEF BookChange, Cats
<1>3. b # Absent
  <2>1. b.life \in {"available", "deleted"} /\ Absent.life = "absent"
    BY DEF Books, Absent
  <2> QED BY <2>1
<1>4. /\ \A x : Exists(j, x) <=> Exists(k, x)
      /\ \A x : Life(j, x) = Life(k, x)
      /\ \A x : Settled(j, x) <=> Settled(k, x)
  BY <1>1 DEF Exists, Life, Settled
<1>5. IdsOK(j)
  <2>1. Existing(j) = Existing(k) /\ Unused(j) = Unused(k)
    BY <1>1, <1>4 DEF Existing, Unused
  <2> QED BY <2>1 DEF IdsOK, CatOK
<1>6. NamesOK(j)
  <2>1. Live(j) = Live(k)
    BY <1>4 DEF Live
  <2> QED BY <1>1, <2>1 DEF NamesOK, CatOK
<1>7. StreamsOK(j, f) /\ TailsOK(j, t)
  BY <1>1, <1>4 DEF StreamsOK, TailsOK, CatOK
<1>8. BooksOK(j, t)
  <2> SUFFICES ASSUME NEW x \in BookIds, j.books[x] # Absent
               PROVE  /\ Exists(j, j.books[x].stream)
                      /\ DOMAIN j.books[x].vec = DOMAIN j.streams[j.books[x].stream].place
                      /\ Inside(j.books[x].vec, j.books[x].stream, t)
    BY DEF BooksOK
  <2>1. CASE x = id
    BY <1>1, <1>2, <1>4, <2>1
  <2>2. CASE x # id
    BY <1>1, <1>2, <1>4, <2>2 DEF BooksOK, CatOK
  <2> QED BY <2>1, <2>2
<1>9. Grown(k, j)
  <2>1. ASSUME NEW x \in BookIds, k.books[x] # Absent
        PROVE  /\ j.books[x] # Absent
               /\ j.books[x].stream = k.books[x].stream /\ j.books[x].pub = k.books[x].pub
               /\ j.books[x].life = "available" => k.books[x].life = "available"
    <3>1. CASE x = id
      BY <1>2, <1>3, <2>1, <3>1
    <3>2. CASE x # id
      BY <1>2, <2>1, <3>2
    <3> QED BY <3>1, <3>2
  <2> QED BY <1>1, <1>4, <2>1 DEF Grown
<1> QED BY <1>1, <1>5, <1>6, <1>7, <1>8, <1>9 DEF Fine, CatOK

LEMMA CreateBookmarkIsFine ==
    ASSUME NEW k, NEW f, NEW t, CatOK(k, f, t), NEW m, m.id \in BookIds, m.name \in BookNames,
           m.vec \in Vecs, Inside(m.vec, m.stream, t)
    PROVE  Fine(k, CreateStreamBookmark(k, m).k, f, t)
<1> DEFINE s == m.stream
           a == CreateStreamBookmark(k, m)
           new == /\ Exists(k, s) /\ Life(k, s) = "active" /\ DOMAIN m.vec = DOMAIN k.streams[s].place
                  /\ k.books[m.id] = Absent /\ k.booknames[s][m.name] = 0
<1>1. CASE new
  <2> DEFINE v == k.pubs[s] + 1
             b == [life |-> "available", stream |-> s, name |-> m.name, vec |-> m.vec, pub |-> v]
             B == [k.books EXCEPT ![m.id] = b]
             row == [k.booknames[s] EXCEPT ![m.name] = m.id]
             N == [k.booknames EXCEPT ![s] = row]
             P == [k.pubs EXCEPT ![s] = v]
             j == [k EXCEPT !.books = B, !.booknames = N, !.pubs = P]
  <2>1. k \in Cats /\ s \in StreamIds
    BY <1>1, StreamOf DEF CatOK
  <2>2. a = Keep(j, m.id)
    <3>1. a = Keep([k EXCEPT !.books[m.id] = b, !.booknames[s][m.name] = m.id, !.pubs[s] = b.pub], m.id)
      BY <1>1 DEF CreateStreamBookmark
    <3>2. b.pub = v
      OBVIOUS
    <3> HIDE DEF b, v
    <3>3. [k EXCEPT !.books[m.id] = b, !.booknames[s][m.name] = m.id, !.pubs[s] = b.pub] = j
      BY <2>1, <3>2 DEF Cats
    <3> HIDE DEF j
    <3> QED BY <3>1, <3>3, Zenon
  <2>3. v \in Nat /\ k.pubs[s] \in Nat /\ v = k.pubs[s] + 1
    BY <2>1 DEF Cats
  <2> HIDE DEF v
  <2>4. b \in Books /\ b.stream = s /\ b.vec = m.vec /\ b.pub = v
    BY <2>1, <2>3 DEF Books
  <2> HIDE DEF b
  <2>5. /\ B \in [BookIds -> Books \cup {Absent}] /\ P \in [StreamIds -> Nat]
        /\ N \in [StreamIds -> [BookNames -> BookIds \cup {0}]]
    <3>1. B \in [BookIds -> Books \cup {Absent}]
      BY <2>1, <2>4 DEF Cats
    <3>2. P \in [StreamIds -> Nat]
      BY <2>1, <2>3 DEF Cats
    <3>3. row \in [BookNames -> BookIds \cup {0}]
      BY <2>1 DEF Cats
    <3> HIDE DEF row
    <3>4. N \in [StreamIds -> [BookNames -> BookIds \cup {0}]]
      BY <2>1, <3>3 DEF Cats
    <3> QED BY <3>1, <3>2, <3>4
  <2> HIDE DEF B, N, P
  <2>6. /\ j \in Cats /\ j.streams = k.streams /\ j.names = k.names /\ j.intents = k.intents
        /\ j.books = B /\ j.pubs = P
    BY <2>1, <2>5 DEF Cats
  <2> HIDE DEF j
  <2>7. BookChange(k, j, m.id, b)
    BY <2>6 DEF BookChange, B
  <2>8. /\ j.books[m.id] = b /\ \A x \in BookIds : x # m.id => j.books[x] = k.books[x]
        /\ j.pubs[s] = v /\ \A x \in StreamIds : x # s => j.pubs[x] = k.pubs[x]
    BY <2>1, <2>6 DEF Cats, B, P
  <2>9. ASSUME NEW x \in BookIds, k.books[x] # Absent
        PROVE  /\ x # m.id /\ j.books[x] = k.books[x] /\ k.books[x].stream \in StreamIds
               /\ k.books[x].pub \in 1 .. k.pubs[k.books[x].stream]
    <3>1. k.books[x] \in Books
      BY <2>1, <2>9, BookOf
    <3>2. k.books[x].pub \in 1 .. k.pubs[k.books[x].stream]
      BY <2>9 DEF CatOK, PubsOK
    <3> QED BY <1>1, <2>8, <2>9, <3>1, <3>2 DEF Books
  <2>10. ASSUME NEW x \in BookIds, j.books[x] # Absent, x # m.id PROVE k.books[x] # Absent
    BY <2>8, <2>10
  <2>11. PubsOK(j)
    <3>1. ASSUME NEW x \in BookIds, j.books[x] # Absent
          PROVE  j.books[x].pub \in 1 .. j.pubs[j.books[x].stream]
      <4>1. CASE x = m.id
        BY <2>3, <2>4, <2>8, <4>1
      <4>2. CASE x # m.id
        <5> DEFINE y == k.books[x]
                   q == y.pub
                   o == y.stream
        <5>1. j.books[x] = y /\ o \in StreamIds /\ q \in 1 .. k.pubs[o]
          BY <2>9, <2>10, <3>1, <4>2
        <5>2. k.pubs[o] \in Nat /\ j.pubs[o] \in Nat /\ k.pubs[o] <= j.pubs[o]
          <6>1. k.pubs[o] \in Nat
            BY <2>1, <5>1 DEF Cats
          <6>2. CASE o = s
            BY <2>3, <2>8, <6>2
          <6>3. CASE o # s
            <7>1. j.pubs[o] = k.pubs[o]
              BY <2>8, <5>1, <6>3
            <7> QED BY <6>1, <7>1
          <6> QED BY <6>1, <6>2, <6>3
        <5> HIDE DEF q, o
        <5>3. q \in 1 .. j.pubs[o]
          BY <5>1, <5>2
        <5> QED BY <5>1, <5>3 DEF q, o
      <4> QED BY <4>1, <4>2
    <3>2. ASSUME NEW x \in BookIds, j.books[x] # Absent, x # m.id, j.books[x].stream = s
          PROVE  j.books[x].pub # v
      <4>1. k.books[x].pub \in 1 .. k.pubs[s] /\ j.books[x] = k.books[x]
        BY <2>9, <2>10, <3>2
      <4> QED BY <2>3, <4>1
    <3>3. ASSUME NEW x \in BookIds, NEW y \in BookIds, j.books[x] # Absent, j.books[y] # Absent,
                 j.books[x].stream = j.books[y].stream, j.books[x].pub = j.books[y].pub
          PROVE  x = y
      <4>1. CASE x = m.id
        BY <2>4, <2>8, <3>2, <3>3, <4>1
      <4>2. CASE y = m.id
        BY <2>4, <2>8, <3>2, <3>3, <4>2
      <4>3. CASE x # m.id /\ y # m.id
        <5>1. k.books[x] # Absent /\ k.books[y] # Absent /\ j.books[x] = k.books[x] /\ j.books[y] = k.books[y]
          BY <2>8, <2>10, <3>3, <4>3
        <5> QED BY <3>3, <5>1 DEF CatOK, PubsOK
      <4> QED BY <4>1, <4>2, <4>3
    <3> QED BY <3>1, <3>3 DEF PubsOK
  <2>12. Fine(k, j, f, t)
    <3>1. Exists(k, b.stream) /\ DOMAIN b.vec = DOMAIN k.streams[b.stream].place /\ Inside(b.vec, b.stream, t)
      BY <1>1, <2>4
    <3>2. k.books[m.id] = Absent
      BY <1>1
    <3> QED BY <2>4, <2>7, <2>11, <3>1, <3>2, ChangedBook
  <2>13. a.k = j
    BY <2>2 DEF Keep
  <2> QED BY <2>12, <2>13, Zenon
<1>2. CASE ~new
  <2>1. a = Refuse(k) \/ a = Keep(k, m.id)
    BY <1>2 DEF CreateStreamBookmark
  <2> QED BY <2>1, KeptIsFine, Zenon
<1> QED BY <1>1, <1>2

LEMMA DeleteBookmarkIsFine ==
    ASSUME NEW k, NEW f, NEW t, CatOK(k, f, t), NEW m, m.id \in BookIds
    PROVE  Fine(k, DeleteStreamBookmark(k, m).k, f, t)
<1> DEFINE c == k.books[m.id]
           a == DeleteStreamBookmark(k, m)
<1>1. CASE c # Absent /\ c.stream = m.stream /\ c.life # "deleted"
  <2> DEFINE b == [c EXCEPT !.life = "deleted"]
             B == [k.books EXCEPT ![m.id] = b]
             row == [k.booknames[c.stream] EXCEPT ![c.name] = 0]
             N == [k.booknames EXCEPT ![c.stream] = row]
             j == [k EXCEPT !.books = B, !.booknames = N]
  <2>1. k \in Cats /\ c \in Books /\ c.stream \in StreamIds /\ c.name \in BookNames
    <3>1. k \in Cats /\ c \in Books
      BY <1>1, BookOf DEF CatOK
    <3> QED BY <3>1 DEF Books
  <2>2. a = Keep(j, m.id)
    <3>1. a = Keep([k EXCEPT !.books[m.id].life = "deleted", !.booknames[c.stream][c.name] = 0], m.id)
      BY <1>1 DEF DeleteStreamBookmark
    <3>2. [k EXCEPT !.books[m.id].life = "deleted", !.booknames[c.stream][c.name] = 0] = j
      BY <2>1 DEF Cats
    <3> HIDE DEF j
    <3> QED BY <3>1, <3>2, Zenon
  <2> HIDE DEF c
  <2>3. /\ b \in Books /\ b.stream = c.stream /\ b.vec = c.vec /\ b.pub = c.pub
        /\ b.life = "deleted"
    BY <2>1 DEF Books
  <2> HIDE DEF b
  <2>4. B \in [BookIds -> Books \cup {Absent}] /\ N \in [StreamIds -> [BookNames -> BookIds \cup {0}]]
    <3>1. B \in [BookIds -> Books \cup {Absent}]
      BY <2>1, <2>3 DEF Cats
    <3>2. row \in [BookNames -> BookIds \cup {0}]
      BY <2>1 DEF Cats
    <3> HIDE DEF row
    <3>3. N \in [StreamIds -> [BookNames -> BookIds \cup {0}]]
      BY <2>1, <3>2 DEF Cats
    <3> QED BY <3>1, <3>3
  <2> HIDE DEF B, N
  <2>5. /\ j \in Cats /\ j.streams = k.streams /\ j.names = k.names /\ j.intents = k.intents
        /\ j.books = B /\ j.pubs = k.pubs
    BY <2>1, <2>4 DEF Cats
  <2> HIDE DEF j
  <2>6. BookChange(k, j, m.id, b)
    BY <2>5 DEF BookChange, B
  <2>7. j.books[m.id] = b /\ \A x \in BookIds : x # m.id => j.books[x] = k.books[x]
    BY <2>1, <2>5 DEF Cats, B
  <2>8. ASSUME NEW x \in BookIds, j.books[x] # Absent
        PROVE  /\ k.books[x] # Absent /\ j.books[x].stream = k.books[x].stream
               /\ j.books[x].pub = k.books[x].pub
    <3>1. CASE x = m.id
      BY <1>1, <2>3, <2>7, <3>1 DEF c
    <3>2. CASE x # m.id
      BY <2>7, <2>8, <3>2
    <3> QED BY <3>1, <3>2
  <2>9. PubsOK(j)
    BY <2>5, <2>8 DEF PubsOK, CatOK
  <2>10. Exists(k, b.stream) /\ DOMAIN b.vec = DOMAIN k.streams[b.stream].place /\ Inside(b.vec, b.stream, t)
    <3>1. Exists(k, c.stream) /\ DOMAIN c.vec = DOMAIN k.streams[c.stream].place /\ Inside(c.vec, c.stream, t)
      BY <1>1 DEF CatOK, BooksOK, c
    <3> QED BY <2>3, <3>1
  <2>11. Fine(k, j, f, t)
    <3>1. /\ b.stream = k.books[m.id].stream /\ b.pub = k.books[m.id].pub /\ b.life # "available"
      BY <2>3 DEF c
    <3> QED BY <2>3, <2>6, <2>9, <2>10, <3>1, ChangedBook
  <2>12. a.k = j
    BY <2>2 DEF Keep
  <2> QED BY <2>11, <2>12, Zenon
<1>2. CASE ~(c # Absent /\ c.stream = m.stream /\ c.life # "deleted")
  <2>1. a = Refuse(k) \/ a = Keep(k, m.id)
    BY <1>2 DEF DeleteStreamBookmark
  <2> QED BY <2>1, KeptIsFine, Zenon
<1> QED BY <1>1, <1>2

LEMMA ReadyAnswer ==
    ASSUME NEW k, NEW m, ReplicaReady(k, m).r # 0
    PROVE  ReplicaReady(k, m).r = m.stream
<1>1. \/ ReplicaReady(k, m) = Refuse(k)
      \/ \E j : ReplicaReady(k, m) = Keep(j, m.stream)
  BY DEF ReplicaReady
<1> HIDE DEF ReplicaReady
<1> QED BY <1>1 DEF Keep, Refuse

(* Every command that is submitted keeps the catalog coherent.             *)
LEMMA ApplyIsFine ==
    ASSUME NEW k, NEW f, NEW t, CatOK(k, f, t), NEW m, CommandOK(m, f, t)
    PROVE  /\ Fine(k, Apply(k, m).k, f, t)
           /\ m.op = "create" /\ Apply(k, m).r # 0 => Apply(k, m).r = Apply(k, m).k.intents[m.req].stream
           /\ m.op = "ready" /\ Apply(k, m).r # 0 => Apply(k, m).r = m.stream
<1>1. CASE m.op = "create"
  <2>1. Apply(k, m) = CreateStream(k, m)
    BY <1>1 DEF Apply
  <2>2. m.req \in Requests /\ m.spec \in Specs
    BY <1>1 DEF CommandOK, GoalOK
  <2>3. /\ Fine(k, CreateStream(k, m).k, f, t)
        /\ CreateStream(k, m).r # 0 => CreateStream(k, m).r = CreateStream(k, m).k.intents[m.req].stream
    BY <2>2, CreateStreamIsFine
  <2> QED BY <1>1, <2>1, <2>3
<1>2. CASE m.op = "ready"
  <2>1. Apply(k, m) = ReplicaReady(k, m)
    BY <1>2 DEF Apply
  <2>2. m.group \in f
    BY <1>2 DEF CommandOK
  <2> QED BY <1>2, <2>1, <2>2, ReplicaReadyIsFine, ReadyAnswer
<1>3. CASE m.op = "activate"
  <2>1. Apply(k, m) = ActivateStream(k, m)
    BY <1>3 DEF Apply
  <2> QED BY <1>3, <2>1, ActivateIsFine
<1>4. CASE m.op = "begin"
  <2>1. Apply(k, m) = BeginDelete(k, m)
    BY <1>4 DEF Apply
  <2> QED BY <1>4, <2>1, BeginDeleteIsFine
<1>5. CASE m.op = "finish"
  <2>1. Apply(k, m) = FinishDelete(k, m)
    BY <1>5 DEF Apply
  <2> QED BY <1>5, <2>1, FinishDeleteIsFine
<1>6. CASE m.op = "book"
  <2>1. Apply(k, m) = CreateStreamBookmark(k, m)
    BY <1>6 DEF Apply
  <2>2. /\ m.id \in BookIds /\ m.name \in BookNames /\ m.vec \in Vecs /\ Inside(m.vec, m.stream, t)
    BY <1>6 DEF CommandOK, GoalOK
  <2> QED BY <1>6, <2>1, <2>2, CreateBookmarkIsFine
<1>7. CASE m.op = "unbook"
  <2>1. Apply(k, m) = DeleteStreamBookmark(k, m)
    BY <1>7 DEF Apply
  <2>2. m.id \in BookIds
    BY <1>7 DEF CommandOK, GoalOK
  <2> QED BY <1>7, <2>1, <2>2, DeleteBookmarkIsFine
<1> QED BY <1>1, <1>2, <1>3, <1>4, <1>5, <1>6, <1>7 DEF CommandOK, GoalOK, GoalOps

-----------------------------------------------------------------------------
(* What a larger catalog, a formed group and a longer partition preserve.  *)

LEMMA CallsGrow ==
    ASSUME NEW w, NEW k, NEW j, NEW f, NEW t, CallOK(w, k, f, t), Grown(k, j)
    PROVE  CallOK(w, j, f, t)
<1>1. CASE w.step = "idle"
  BY <1>1 DEF CallOK
<1>2. CASE w.step # "idle"
  <2>1. ASSUME w.op \in {"ready", "activate"} PROVE w.stream = j.intents[w.goal.req].stream
    <3>1. GoalOK(w.goal) /\ w.goal.op = "create" /\ w.stream # 0 /\ w.stream = k.intents[w.goal.req].stream
      BY <1>2, <2>1 DEF CallOK
    <3> QED BY <3>1 DEF GoalOK, Grown
  <2> QED BY <1>2, <2>1 DEF CallOK
<1> QED BY <1>1, <1>2

LEMMA ToldGrows ==
    ASSUME NEW T, NEW k, NEW j, ToldOK(T, k), Grown(k, j)
    PROVE  ToldOK(T, j)
BY DEF ToldOK, Grown

LEMMA LocalGrows ==
    ASSUME NEW L, NEW k, NEW j, LocalOK(L, k), Grown(k, j)
    PROVE  LocalOK(L, j)
BY DEF LocalOK, Grown

LEMMA ListGrows ==
    ASSUME NEW l, NEW k, NEW j, ListOK(l, k), Grown(k, j)
    PROVE  ListOK(l, j)
<1>1. CASE l.step = "new"
  BY <1>1 DEF ListOK
<1>2. CASE l.step # "new"
  <2>1. ASSUME NEW b \in l.had
        PROVE  /\ b \in BookIds /\ j.books[b] # Absent
               /\ j.books[b].stream = l.stream /\ j.books[b].pub <= l.ceiling
               /\ j.books[b].pub = k.books[b].pub
               /\ b \in Available(j, l.stream) => b \in Available(k, l.stream)
    <3>1. b \in BookIds /\ k.books[b] # Absent /\ k.books[b].stream = l.stream /\ k.books[b].pub <= l.ceiling
      BY <1>2, <2>1 DEF ListOK
    <3>2. /\ j.books[b] # Absent
          /\ j.books[b].stream = k.books[b].stream /\ j.books[b].pub = k.books[b].pub
          /\ j.books[b].life = "available" => k.books[b].life = "available"
      BY <3>1 DEF Grown
    <3> QED BY <3>1, <3>2 DEF Available
  <2>2. ASSUME NEW b \in l.had \cap Available(j, l.stream), l.step = "ended" \/ l.before <= j.books[b].pub
        PROVE  Has(l.got, j.books[b].pub)
    BY <1>2, <2>1, <2>2 DEF ListOK
  <2> QED BY <1>2, <2>1, <2>2 DEF ListOK
<1> QED BY <1>1, <1>2

Longer(t, u) == \A s \in StreamIds : \A p \in 1 .. MaxParts : t[s][p] <= u[s][p]

LEMMA VecDomain ==
    ASSUME NEW v \in Vecs
    PROVE  DOMAIN v \subseteq 1 .. MaxParts /\ \A p \in DOMAIN v : v[p] \in Nat
<1>1. PICK n \in 1 .. MaxParts : v \in [1 .. n -> Nat]
  BY DEF Vecs
<1>2. n \in Nat /\ n <= MaxParts /\ MaxParts \in Nat
  BY CatalogAssumption
<1>3. 1 .. n \subseteq 1 .. MaxParts
  BY <1>2
<1> QED BY <1>1, <1>3

LEMMA InsideGrows ==
    ASSUME NEW v \in Vecs, NEW s \in StreamIds, NEW t \in Tails, NEW u \in Tails, Longer(t, u),
           NEW p \in DOMAIN v, v[p] <= t[s][p]
    PROVE  v[p] <= u[s][p]
<1>1. p \in 1 .. MaxParts /\ v[p] \in Nat
  BY VecDomain
<1>2. t[s][p] \in Nat /\ u[s][p] \in Nat /\ t[s][p] <= u[s][p]
  BY <1>1 DEF Tails, Longer
<1> QED BY <1>1, <1>2

LEMMA CommandsGrow ==
    ASSUME NEW m, NEW f, NEW t \in Tails, NEW u \in Tails, NEW g, CommandOK(m, f, t),
           f \subseteq g, Longer(t, u)
    PROVE  CommandOK(m, g, u)
<1>1. ASSUME m.op = "book" PROVE Inside(m.vec, m.stream, u)
  <2>1. m.vec \in Vecs /\ m.stream \in StreamIds /\ Inside(m.vec, m.stream, t)
    BY <1>1 DEF CommandOK, GoalOK
  <2> QED BY <2>1, InsideGrows DEF Inside
<1> QED BY <1>1 DEF CommandOK

LEMMA CallsLast ==
    ASSUME NEW w, NEW k, NEW f, NEW t \in Tails, NEW u \in Tails, NEW g, CallOK(w, k, f, t),
           f \subseteq g, Longer(t, u)
    PROVE  CallOK(w, k, g, u)
<1>1. CASE w.step = "idle"
  BY <1>1 DEF CallOK
<1>2. CASE w.step # "idle"
  <2>1. ASSUME w.op = "book", NEW p \in DOMAIN w.goal.vec, p \notin w.left
        PROVE  w.goal.vec[p] <= u[w.goal.stream][p]
    <3>1. w.goal.vec \in Vecs /\ w.goal.stream \in StreamIds
      BY <1>2, <2>1 DEF CallOK, GoalOK
    <3>2. w.goal.vec[p] <= t[w.goal.stream][p]
      BY <1>2, <2>1 DEF CallOK
    <3> QED BY <3>1, <3>2, InsideGrows
  <2> QED BY <1>2, <2>1 DEF CallOK
<1> QED BY <1>1, <1>2

LEMMA CatalogLasts ==
    ASSUME NEW k, NEW f, NEW t \in Tails, NEW u \in Tails, NEW g, CatOK(k, f, t),
           f \subseteq g, Longer(t, u), TailsOK(k, u)
    PROVE  CatOK(k, g, u)
<1>1. StreamsOK(k, g)
  BY DEF CatOK, StreamsOK
<1>2. BooksOK(k, u)
  <2> SUFFICES ASSUME NEW b \in BookIds, k.books[b] # Absent
               PROVE  Inside(k.books[b].vec, k.books[b].stream, u)
    BY DEF CatOK, BooksOK
  <2>1. k.books[b] \in Books
    BY BookOf DEF CatOK
  <2>2. k.books[b].vec \in Vecs /\ k.books[b].stream \in StreamIds
    BY <2>1 DEF Books
  <2>3. Inside(k.books[b].vec, k.books[b].stream, t)
    BY DEF CatOK, BooksOK
  <2> QED BY <2>2, <2>3, InsideGrows DEF Inside
<1> QED BY <1>1, <1>2 DEF CatOK

LEMMA LongerSelf ==
    ASSUME NEW t \in Tails
    PROVE  Longer(t, t)
<1> SUFFICES ASSUME NEW s \in StreamIds, NEW p \in 1 .. MaxParts PROVE t[s][p] <= t[s][p]
  BY DEF Longer
<1>1. t[s][p] \in Nat
  BY DEF Tails
<1> QED BY <1>1

-----------------------------------------------------------------------------
(* The invariant, action by action.                                        *)

(* A step that leaves the catalog and the callers alone.                   *)
LEMMA SurroundingsGrow ==
    ASSUME IInv, UNCHANGED <<cat, caller, floating, told, lister>>,
           formed \subseteq formed', tails' \in Tails, Longer(tails, tails'), TailsOK(cat, tails'),
           LocalOK(local', cat)
    PROVE  IInv'
<1>1. tails \in Tails /\ 1 \in formed /\ CatOK(cat, formed, tails)
  BY DEF IInv
<1>2. CatOK(cat, formed', tails')
  BY <1>1, CatalogLasts
<1>3. ASSUME NEW c \in Callers PROVE CallOK(caller[c], cat, formed', tails')
  <2>1. CallOK(caller[c], cat, formed, tails)
    BY DEF IInv
  <2> QED BY <1>1, <2>1, CallsLast
<1>4. ASSUME NEW m \in floating PROVE CommandOK(m, formed', tails')
  <2>1. CommandOK(m, formed, tails)
    BY DEF IInv
  <2> QED BY <1>1, <2>1, CommandsGrow
<1>5. ToldOK(told, cat) /\ DOMAIN caller = Callers /\ ListOK(lister, cat)
  BY DEF IInv
<1> QED BY <1>1, <1>2, <1>3, <1>4, <1>5 DEF IInv

LEMMA LifecyclesAreLocal ==
    ASSUME NEW k
    PROVE  LocalOK(Lifecycles(k), k)
BY DEF LocalOK, Lifecycles, Settled, Exists, Life, Lives

LEMMA FormKeepsInv ==
    ASSUME IInv, NEW g, Form(g)
    PROVE  IInv'
<1>1. tails \in Tails /\ TailsOK(cat, tails) /\ LocalOK(local, cat)
  BY DEF IInv, CatOK
<1>2. UNCHANGED <<cat, local, tails, caller, floating, told, lister>> /\ formed \subseteq formed'
  BY DEF Form
<1> QED BY <1>1, <1>2, LongerSelf, SurroundingsGrow

LEMMA CatchUpKeepsInv ==
    ASSUME IInv, CatchUp
    PROVE  IInv'
<1>1. tails \in Tails /\ TailsOK(cat, tails)
  BY DEF IInv, CatOK
<1>2. UNCHANGED <<cat, formed, tails, caller, floating, told, lister>> /\ local' = Lifecycles(cat)
  BY DEF CatchUp
<1>3. LocalOK(local', cat)
  BY <1>2, LifecyclesAreLocal
<1> QED BY <1>1, <1>2, <1>3, LongerSelf, SurroundingsGrow

LEMMA PublishKeepsInv ==
    ASSUME IInv, NEW s \in StreamIds, NEW p \in 1 .. MaxParts, Publish(s, p)
    PROVE  IInv'
<1>1. tails \in Tails /\ TailsOK(cat, tails) /\ LocalOK(local, cat)
  BY DEF IInv, CatOK
<1>2. UNCHANGED <<cat, local, formed, caller, floating, told, lister>>
  BY DEF Publish
<1> DEFINE v == tails[s][p] + 1
           row == [tails[s] EXCEPT ![p] = v]
<1>3. tails' = [tails EXCEPT ![s] = row]
  BY <1>1 DEF Publish, Tails
<1>4. tails[s][p] \in Nat /\ v \in Nat /\ tails[s][p] <= v
  <2>1. tails[s][p] \in Nat
    BY <1>1 DEF Tails
  <2> QED BY <2>1
<1> HIDE DEF v
<1>5. row \in [1 .. MaxParts -> Nat]
  BY <1>1, <1>4 DEF Tails
<1>6. ASSUME NEW q \in 1 .. MaxParts PROVE row[q] = IF q = p THEN v ELSE tails[s][q]
  BY <1>1 DEF Tails
<1> HIDE DEF row
<1>7. tails' \in Tails
  BY <1>1, <1>3, <1>5 DEF Tails
<1>8. tails'[s] = row /\ \A x \in StreamIds : x # s => tails'[x] = tails[x]
  BY <1>1, <1>3 DEF Tails
<1>9. Longer(tails, tails')
  <2> SUFFICES ASSUME NEW x \in StreamIds, NEW q \in 1 .. MaxParts PROVE tails[x][q] <= tails'[x][q]
    BY DEF Longer
  <2>1. tails[x][q] \in Nat
    BY <1>1 DEF Tails
  <2>2. CASE x = s /\ q = p
    BY <1>4, <1>6, <1>8, <2>2
  <2>3. CASE ~(x = s /\ q = p)
    <3>1. tails'[x][q] = tails[x][q]
      BY <1>6, <1>8, <2>3
    <3> QED BY <2>1, <3>1
  <2> QED BY <2>2, <2>3
<1>10. Settled(cat, s)
  BY <1>1 DEF Publish, LocalOK
<1>11. TailsOK(cat, tails')
  <2> SUFFICES ASSUME NEW x \in StreamIds, NEW q \in 1 .. MaxParts, tails'[x][q] > 0 PROVE Settled(cat, x)
    BY DEF TailsOK
  <2>1. CASE x = s
    BY <1>10, <2>1
  <2>2. CASE x # s
    BY <1>1, <1>8, <2>2 DEF TailsOK
  <2> QED BY <2>1, <2>2
<1> QED BY <1>1, <1>2, <1>7, <1>9, <1>11, SurroundingsGrow

-----------------------------------------------------------------------------
(* Callers.                                                                *)

LEMMA RestartIsOK ==
    ASSUME NEW g, GoalOK(g), NEW k, NEW f, NEW t
    PROVE  CallOK(Restart(g), k, f, t)
<1> DEFINE w == Restart(g)
<1>1. /\ DOMAIN w = CallFields /\ w.goal = g /\ w.op = g.op
      /\ w.step = IF g.op = "book" THEN "tail" ELSE "wait"
      /\ w.left = IF g.op = "book" THEN DOMAIN g.vec ELSE {}
  BY DEF Restart, CallFields
<1> HIDE DEF w
<1>2. g.op \in GoalOps
  BY DEF GoalOK
<1>3. CallOK(w, k, f, t)
  BY <1>1, <1>2 DEF CallOK, GoalOps
<1> QED BY <1>3 DEF w

LEMMA CommandIsOK ==
    ASSUME NEW w, NEW k, NEW f, NEW t, CallOK(w, k, f, t), w.step = "wait"
    PROVE  /\ CommandOK(Command(w), f, t) /\ Command(w).op = w.op
           /\ w.op = "ready" => Command(w).stream = w.stream
           /\ w.op = "create" => Command(w) = w.goal
<1>1. GoalOK(w.goal) /\ (w.op \in {"ready", "activate", "finish"} \/ w.op = w.goal.op)
  BY DEF CallOK
<1>2. CASE w.op = "ready"
  <2>1. Command(w) = [op |-> "ready", stream |-> w.stream, group |-> Min(w.left)]
    BY <1>2 DEF Command
  <2>2. Min(w.left) \in f
    BY <1>2 DEF CallOK
  <2> QED BY <1>2, <2>1, <2>2 DEF CommandOK
<1>3. CASE w.op \in {"activate", "finish"}
  <2>1. Command(w) = [op |-> w.op, stream |-> w.stream]
    BY <1>3 DEF Command
  <2> QED BY <1>3, <2>1 DEF CommandOK
<1>4. CASE w.op \notin {"ready", "activate", "finish"}
  <2>1. Command(w) = w.goal
    BY <1>4 DEF Command
  <2>2. w.op = w.goal.op
    BY <1>1, <1>4
  <2>3. ASSUME w.op = "book" PROVE Inside(w.goal.vec, w.goal.stream, t)
    BY <2>3 DEF CallOK, Inside
  <2> QED BY <1>1, <1>4, <2>1, <2>2, <2>3 DEF CommandOK
<1> QED BY <1>2, <1>3, <1>4

(* A call goes on while the catalog stays.                                 *)
LEMMA CallGoesOn ==
    ASSUME IInv, UNCHANGED <<cat, formed, tails, told, lister>>, LocalOK(local', cat),
           NEW c \in Callers, NEW w, CallOK(w, cat, formed, tails), caller' = [caller EXCEPT ![c] = w],
           \A m \in floating' : CommandOK(m, formed, tails)
    PROVE  IInv'
<1>1. /\ tails \in Tails /\ 1 \in formed /\ CatOK(cat, formed, tails) /\ ToldOK(told, cat)
      /\ DOMAIN caller = Callers /\ ListOK(lister, cat)
  BY DEF IInv
<1>2. DOMAIN caller' = Callers
  BY <1>1
<1>3. ASSUME NEW x \in Callers PROVE CallOK(caller'[x], cat, formed, tails)
  <2>1. CASE x = c
    BY <1>1, <2>1
  <2>2. CASE x # c
    <3>1. caller'[x] = caller[x]
      BY <1>1, <2>2
    <3>2. CallOK(caller[x], cat, formed, tails)
      BY DEF IInv
    <3> QED BY <3>1, <3>2
  <2> QED BY <2>1, <2>2
<1> QED BY <1>1, <1>2, <1>3 DEF IInv

(* A command is applied.                                                   *)
LEMMA CatalogChanges ==
    ASSUME IInv, UNCHANGED <<local, formed, tails, lister>>, Fine(cat, cat', formed, tails),
           DOMAIN caller' = Callers, \A c \in Callers : CallOK(caller'[c], cat', formed, tails),
           \A m \in floating' : CommandOK(m, formed, tails), ToldOK(told', cat')
    PROVE  IInv'
<1>1. tails \in Tails /\ 1 \in formed /\ LocalOK(local, cat) /\ ListOK(lister, cat)
  BY DEF IInv
<1>2. CatOK(cat', formed, tails) /\ Grown(cat, cat')
  BY DEF Fine
<1>3. LocalOK(local, cat') /\ ListOK(lister, cat')
  BY <1>1, <1>2, LocalGrows, ListGrows
<1> QED BY <1>1, <1>2, <1>3 DEF IInv

LEMMA GoalsAreOK ==
    ASSUME IInv, NEW g \in Goals
    PROVE  GoalOK(g)
<1>1. cat \in Cats
  BY DEF IInv, CatOK
<1>2. CASE \E x \in CreateSpecs :
             g = [op |-> "create", req |-> x.req, spec |-> [name |-> x.name, parts |-> x.parts]]
  BY <1>2, CatalogAssumption DEF GoalOK, GoalOps, Specs
<1>3. CASE \E s \in StreamIds : g = [op |-> "begin", stream |-> s]
  BY <1>3 DEF GoalOK, GoalOps
<1>4. CASE \E x \in BookSpecs, s \in StreamIds :
             /\ Exists(cat, s)
             /\ g = [op |-> "book", stream |-> s, id |-> x.id, name |-> x.name,
                     vec |-> [p \in DOMAIN cat.streams[s].place |-> x.offset]]
  <2>1. PICK x \in BookSpecs, s \in StreamIds :
             /\ Exists(cat, s)
             /\ g = [op |-> "book", stream |-> s, id |-> x.id, name |-> x.name,
                     vec |-> [p \in DOMAIN cat.streams[s].place |-> x.offset]]
    BY <1>4
  <2>2. x.id \in BookIds /\ x.name \in BookNames /\ x.offset \in Nat
    BY CatalogAssumption
  <2>3. cat.streams[s] \in Streams
    BY <1>1, <2>1, StreamOf
  <2>4. PICK n \in 1 .. MaxParts : DOMAIN cat.streams[s].place = 1 .. n
    BY <2>3, DomainOfPlace
  <2> DEFINE vec == [p \in 1 .. n |-> x.offset]
  <2>5. vec \in Vecs
    <3>1. vec \in [1 .. n -> Nat]
      BY <2>2
    <3> HIDE DEF vec
    <3> QED BY <3>1 DEF Vecs
  <2>6. g = [op |-> "book", stream |-> s, id |-> x.id, name |-> x.name, vec |-> vec]
    BY <2>1, <2>4
  <2> HIDE DEF vec
  <2> QED BY <2>2, <2>5, <2>6 DEF GoalOK, GoalOps
<1>5. CASE \E b \in BookIds : g = [op |-> "unbook", stream |-> cat.books[b].stream, id |-> b]
  BY <1>5 DEF GoalOK, GoalOps
<1> QED BY <1>2, <1>3, <1>4, <1>5 DEF Goals

LEMMA BeginKeepsInv ==
    ASSUME IInv, NEW c \in Callers, NEW g \in Goals, Begin(c, g)
    PROVE  IInv'
<1>1. CallOK(Restart(g), cat, formed, tails)
  BY GoalsAreOK, RestartIsOK
<1>2. UNCHANGED <<cat, local, formed, tails, floating, told, lister>> /\ caller' = [caller EXCEPT ![c] = Restart(g)]
  BY DEF Begin
<1>3. LocalOK(local, cat) /\ \A m \in floating : CommandOK(m, formed, tails)
  BY DEF IInv
<1> QED BY <1>1, <1>2, <1>3, CallGoesOn

LEMMA CheckTailKeepsInv ==
    ASSUME IInv, NEW c \in Callers, CheckTail(c)
    PROVE  IInv'
<1> DEFINE w == caller[c]
           g == w.goal
           p == Min(w.left)
           L == w.left \ {p}
           S == IF w.left = {p} THEN "wait" ELSE "tail"
           n == [w EXCEPT !.left = L, !.step = S]
           v == IF Life(cat, g.stream) # "active" \/ ~TailAdmits(g.stream, p, g.vec[p]) THEN Idle ELSE n
<1>1. CallOK(w, cat, formed, tails) /\ w.step = "tail"
  BY DEF IInv, CheckTail
<1>2. caller' = [caller EXCEPT ![c] = v]
  BY DEF CheckTail
<1>3. /\ DOMAIN w = CallFields /\ GoalOK(g) /\ w.op = "book" /\ w.op = g.op
      /\ \A q \in DOMAIN g.vec : q \in w.left \/ g.vec[q] <= tails[g.stream][q]
  BY <1>1 DEF CallOK
<1>4. CallOK(v, cat, formed, tails)
  <2>1. CASE Life(cat, g.stream) # "active" \/ ~TailAdmits(g.stream, p, g.vec[p])
    BY <2>1 DEF CallOK, Idle
  <2>2. CASE ~(Life(cat, g.stream) # "active" \/ ~TailAdmits(g.stream, p, g.vec[p]))
    <3>1. v = n /\ g.vec[p] <= tails[g.stream][p]
      BY <2>2 DEF TailAdmits
    <3>2. S \in {"wait", "tail"} /\ (S = "wait" => L = {})
      OBVIOUS
    <3>3. \A q \in DOMAIN g.vec : q \in L \/ g.vec[q] <= tails[g.stream][q]
      BY <1>3, <3>1
    <3> HIDE DEF S, L
    <3>4. /\ DOMAIN n = CallFields /\ n.goal = g /\ n.op = "book" /\ n.left = L /\ n.step = S
      BY <1>3 DEF CallFields
    <3> HIDE DEF n, g
    <3>5. CallOK(n, cat, formed, tails)
      BY <1>3, <3>2, <3>3, <3>4 DEF CallOK
    <3> QED BY <3>1, <3>5, Zenon
  <2> QED BY <2>1, <2>2
<1> HIDE DEF v
<1>5. UNCHANGED <<cat, formed, tails, floating, told, lister>> /\ local' = Lifecycles(cat)
  BY DEF CheckTail
<1>6. LocalOK(local', cat) /\ \A m \in floating : CommandOK(m, formed, tails)
  BY <1>5, LifecyclesAreLocal DEF IInv
<1> QED BY <1>2, <1>4, <1>5, <1>6, CallGoesOn

LEMMA CheckMembershipKeepsInv ==
    ASSUME IInv, NEW c \in Callers, CheckMembership(c)
    PROVE  IInv'
<1> DEFINE w == caller[c]
           n == [w EXCEPT !.step = "wait"]
           v == IF MayBeReady(Min(w.left)) THEN n ELSE Restart(w.goal)
<1>1. CallOK(w, cat, formed, tails) /\ w.step = "member"
  BY DEF IInv, CheckMembership
<1>2. caller' = [caller EXCEPT ![c] = v]
  BY DEF CheckMembership
<1>3. /\ DOMAIN w = CallFields /\ GoalOK(w.goal) /\ w.op = "ready"
      /\ w.goal.op = "create" /\ w.stream # 0 /\ w.stream = cat.intents[w.goal.req].stream
  BY <1>1 DEF CallOK
<1>4. CallOK(v, cat, formed, tails)
  <2>1. CASE MayBeReady(Min(w.left))
    <3>1. v = n /\ Min(w.left) \in formed
      BY <2>1 DEF MayBeReady
    <3>2. DOMAIN n = CallFields /\ n.goal = w.goal /\ n.op = w.op /\ n.left = w.left /\ n.stream = w.stream /\ n.step = "wait"
      BY <1>3 DEF CallFields
    <3> HIDE DEF n, w
    <3>3. CallOK(n, cat, formed, tails)
      BY <1>3, <3>1, <3>2 DEF CallOK
    <3> QED BY <3>1, <3>3, Zenon
  <2>2. CASE ~MayBeReady(Min(w.left))
    BY <1>3, <2>2, RestartIsOK
  <2> QED BY <2>1, <2>2
<1> HIDE DEF v
<1>5. UNCHANGED <<cat, local, formed, tails, floating, told, lister>>
  BY DEF CheckMembership
<1>6. LocalOK(local, cat) /\ \A m \in floating : CommandOK(m, formed, tails)
  BY DEF IInv
<1> QED BY <1>2, <1>4, <1>5, <1>6, CallGoesOn

LEMMA TimeOutKeepsInv ==
    ASSUME IInv, NEW c \in Callers, TimeOut(c)
    PROVE  IInv'
<1> DEFINE w == caller[c]
           v == Restart(w.goal)
<1>1. CallOK(w, cat, formed, tails) /\ w.step = "wait"
  BY DEF IInv, TimeOut
<1>2. caller' = [caller EXCEPT ![c] = v] /\ floating' = floating \cup {Command(w)}
  BY DEF TimeOut
<1>3. GoalOK(w.goal)
  BY <1>1 DEF CallOK
<1>4. CallOK(v, cat, formed, tails)
  BY <1>3, RestartIsOK
<1>5. CommandOK(Command(w), formed, tails)
  BY <1>1, CommandIsOK
<1>6. UNCHANGED <<cat, local, formed, tails, told, lister>>
  BY DEF TimeOut
<1>7. LocalOK(local, cat) /\ \A m \in floating : CommandOK(m, formed, tails)
  BY DEF IInv
<1>8. \A m \in floating' : CommandOK(m, formed, tails)
  BY <1>2, <1>5, <1>7
<1> HIDE DEF v
<1> QED BY <1>2, <1>4, <1>6, <1>7, <1>8, CallGoesOn

LEMMA LateKeepsInv ==
    ASSUME IInv, NEW m \in floating, Late(m)
    PROVE  IInv'
<1>1. /\ CatOK(cat, formed, tails) /\ CommandOK(m, formed, tails) /\ DOMAIN caller = Callers
      /\ \A x \in floating : CommandOK(x, formed, tails)
      /\ ToldOK(told, cat)
  BY DEF IInv
<1>2. /\ UNCHANGED <<local, formed, tails, caller, told, lister>>
      /\ cat' = Apply(cat, m).k /\ floating' \subseteq floating
  BY DEF Late
<1>3. Fine(cat, Apply(cat, m).k, formed, tails)
  BY <1>1, ApplyIsFine
<1>4. Fine(cat, cat', formed, tails)
  BY <1>2, <1>3, Zenon
<1>5. Grown(cat, cat')
  BY <1>4 DEF Fine
<1>6. ASSUME NEW c \in Callers PROVE CallOK(caller'[c], cat', formed, tails)
  <2>1. CallOK(caller[c], cat, formed, tails)
    BY DEF IInv
  <2>2. CallOK(caller[c], cat', formed, tails)
    BY <1>5, <2>1, CallsGrow
  <2> QED BY <1>2, <2>2
<1>7. ToldOK(told', cat') /\ DOMAIN caller' = Callers /\ \A x \in floating' : CommandOK(x, formed, tails)
  BY <1>1, <1>2, <1>5, ToldGrows
<1> QED BY <1>2, <1>4, <1>6, <1>7, CatalogChanges

LEMMA ResumeIsOK ==
    ASSUME NEW w, NEW k, NEW f, NEW t, CallOK(w, k, f, t), w.step = "wait", NEW r,
           w.op = "create" /\ r # 0 => r = k.intents[w.goal.req].stream,
           w.op = "ready" /\ r # 0 => r = w.stream
    PROVE  CallOK(Resume(w, k, r), k, f, t)
<1> DEFINE next(op, left) == [goal |-> w.goal, op |-> op, left |-> left, stream |-> r,
                              step |-> IF op = "ready" THEN "member" ELSE "wait"]
<1>1. CallOK(Idle, k, f, t)
  BY DEF CallOK, Idle
<1>2. GoalOK(w.goal) /\ (w.op \in {"ready", "activate", "finish"} \/ w.op = w.goal.op)
  BY DEF CallOK
<1>3. ASSUME NEW op \in {"ready", "activate"}, NEW left, r # 0, w.goal.op = "create",
             r = k.intents[w.goal.req].stream
      PROVE  CallOK(next(op, left), k, f, t)
  <2> DEFINE n == next(op, left)
  <2>1. /\ DOMAIN n = CallFields /\ n.goal = w.goal /\ n.op = op /\ n.stream = r
        /\ n.step = IF op = "ready" THEN "member" ELSE "wait"
    BY DEF CallFields
  <2> HIDE DEF n
  <2>2. CallOK(n, k, f, t)
    BY <1>2, <1>3, <2>1 DEF CallOK
  <2> QED BY <2>2 DEF n
<1>4. CASE r = 0
  BY <1>1, <1>4 DEF Resume
<1>5. CASE r # 0 /\ w.op \in {"activate", "finish", "book", "unbook"}
  <2>1. Resume(w, k, r) = Idle
    BY <1>5 DEF Resume
  <2> QED BY <1>1, <2>1
<1>6. CASE r # 0 /\ w.op = "create"
  <2>1. Resume(w, k, r) = next("ready", GroupsOf(k.streams[r]))
    BY <1>6 DEF Resume
  <2>2. w.goal.op = "create" /\ r = k.intents[w.goal.req].stream
    BY <1>2, <1>6
  <2> HIDE DEF next
  <2> QED BY <1>3, <1>6, <2>1, <2>2
<1>7. CASE r # 0 /\ w.op = "ready"
  <2> DEFINE left == w.left \ {Min(w.left)}
             o == IF left = {} THEN "activate" ELSE "ready"
  <2>1. Resume(w, k, r) = next(o, left)
    BY <1>7 DEF Resume
  <2>2. w.goal.op = "create" /\ r = k.intents[w.goal.req].stream
    BY <1>7 DEF CallOK
  <2>3. o \in {"ready", "activate"}
    OBVIOUS
  <2> HIDE DEF next, o, left
  <2> QED BY <1>3, <1>7, <2>1, <2>2, <2>3
<1>8. CASE r # 0 /\ w.op = "begin"
  <2> DEFINE n == next("finish", {})
  <2>1. Resume(w, k, r) = n
    BY <1>8 DEF Resume
  <2>2. DOMAIN n = CallFields /\ n.goal = w.goal /\ n.op = "finish" /\ n.step = "wait"
    BY DEF CallFields
  <2> HIDE DEF n
  <2>3. CallOK(n, k, f, t)
    BY <1>2, <2>2 DEF CallOK
  <2> QED BY <2>1, <2>3, Zenon
<1> QED BY <1>2, <1>4, <1>5, <1>6, <1>7, <1>8 DEF GoalOK, GoalOps

LEMMA ReplyKeepsInv ==
    ASSUME IInv, NEW c \in Callers, Reply(c)
    PROVE  IInv'
<1> DEFINE w == caller[c]
           m == Command(w)
           a == Apply(cat, m)
           v == Resume(w, a.k, a.r)
<1>1. /\ CallOK(w, cat, formed, tails) /\ w.step = "wait" /\ CatOK(cat, formed, tails)
      /\ DOMAIN caller = Callers /\ ToldOK(told, cat) /\ \A x \in floating : CommandOK(x, formed, tails)
  BY DEF IInv, Reply
<1>2. /\ UNCHANGED <<local, formed, tails, floating, lister>>
      /\ cat' = a.k /\ caller' = [caller EXCEPT ![c] = v]
      /\ told' = IF w.op = "activate" /\ a.r # 0 THEN told \cup {<<w.goal.req, w.stream>>} ELSE told
  BY DEF Reply
<1>3. /\ CommandOK(m, formed, tails) /\ m.op = w.op
      /\ w.op = "ready" => m.stream = w.stream
      /\ w.op = "create" => m = w.goal
  BY <1>1, CommandIsOK
<1> HIDE DEF m
<1>4. /\ Fine(cat, a.k, formed, tails)
      /\ m.op = "create" /\ a.r # 0 => a.r = a.k.intents[m.req].stream
      /\ m.op = "ready" /\ a.r # 0 => a.r = m.stream
  BY <1>1, <1>3, ApplyIsFine
<1>5. Grown(cat, a.k)
  BY <1>4 DEF Fine
<1> HIDE DEF a
<1>6. CallOK(w, a.k, formed, tails)
  BY <1>1, <1>5, CallsGrow
<1>7. CallOK(v, a.k, formed, tails)
  <2>1. w.op = "create" /\ a.r # 0 => a.r = a.k.intents[w.goal.req].stream
    BY <1>3, <1>4
  <2>2. w.op = "ready" /\ a.r # 0 => a.r = w.stream
    BY <1>3, <1>4
  <2> QED BY <1>1, <1>6, <2>1, <2>2, ResumeIsOK
<1> HIDE DEF v
<1>8. ASSUME NEW x \in Callers PROVE CallOK(caller'[x], cat', formed, tails)
  <2>1. CASE x = c
    <3>1. caller'[x] = v
      BY <1>1, <1>2, <2>1
    <3> QED BY <1>2, <1>7, <3>1, Zenon
  <2>2. CASE x # c
    <3>1. caller'[x] = caller[x]
      BY <1>1, <1>2, <2>2
    <3>2. CallOK(caller[x], a.k, formed, tails)
      <4>1. CallOK(caller[x], cat, formed, tails)
        BY DEF IInv
      <4> QED BY <1>5, <4>1, CallsGrow
    <3> QED BY <1>2, <3>1, <3>2, Zenon
  <2> QED BY <2>1, <2>2
<1>9. ToldOK(told', a.k)
  <2>1. ToldOK(told, a.k)
    BY <1>1, <1>5, ToldGrows
  <2>2. CASE w.op = "activate"
    <3>1. /\ GoalOK(w.goal) /\ w.goal.op = "create" /\ w.stream # 0
          /\ w.stream = a.k.intents[w.goal.req].stream
      BY <1>1, <1>6, <2>2 DEF CallOK
    <3>2. w.goal.req \in Requests
      BY <3>1 DEF GoalOK
    <3> HIDE DEF w
    <3> QED BY <1>2, <2>1, <3>1, <3>2 DEF ToldOK
  <2>3. CASE w.op # "activate"
    BY <1>2, <2>1, <2>3
  <2> QED BY <2>2, <2>3
<1>10. Fine(cat, cat', formed, tails) /\ ToldOK(told', cat')
  BY <1>2, <1>4, <1>9, Zenon
<1>11. DOMAIN caller' = Callers /\ \A x \in floating' : CommandOK(x, formed, tails)
  BY <1>1, <1>2
<1> QED BY <1>2, <1>8, <1>10, <1>11, CatalogChanges

-----------------------------------------------------------------------------
(* The pages of a listing: a set of publications, newest first.            *)

LEMMA LeastNatural ==
    ASSUME NEW T \in SUBSET Nat, T # {}
    PROVE  \E m \in T : \A n \in T : m <= n
<1>1. PICK m \in T : \A n \in T : ~(<<n, m>> \in OpToRel(<, Nat))
  BY NatLessThanWellFounded, WFMin
<1>2. ASSUME NEW n \in T PROVE m <= n
  <2>1. n < m => <<n, m>> \in OpToRel(<, Nat)
    BY DEF OpToRel
  <2>2. ~(n < m)
    BY <1>1, <2>1, Zenon
  <2> QED BY <2>2
<1> QED BY <1>2

LEMMA GreatestNatural ==
    ASSUME NEW T \in SUBSET Nat, T # {}, NEW c \in Nat, \A n \in T : n <= c
    PROVE  \E m \in T : \A n \in T : n <= m
<1> DEFINE D == {c - n : n \in T}
<1>1. D \in SUBSET Nat /\ D # {}
  <2>1. ASSUME NEW n \in T PROVE c - n \in Nat
    <3>1. n \in Nat /\ n <= c
      OBVIOUS
    <3> QED BY <3>1
  <2> QED BY <2>1
<1> HIDE DEF D
<1>2. PICK d \in D : \A e \in D : d <= e
  BY <1>1, LeastNatural
<1>3. PICK m \in T : d = c - m
  BY DEF D
<1>4. ASSUME NEW n \in T PROVE n <= m
  <2>1. c - n \in D
    BY DEF D
  <2>2. c - m <= c - n /\ n \in Nat /\ m \in Nat
    BY <1>2, <1>3, <2>1
  <2> QED BY <2>2
<1> QED BY <1>4

From(P, n) == {m \in P : m >= n}
Rank(P) == [n \in P |-> Cardinality(From(P, n))]

LEMMA RanksFall ==
    ASSUME NEW P \in SUBSET Nat, IsFiniteSet(P), NEW n \in P, NEW o \in P, n < o
    PROVE  Rank(P)[o] < Rank(P)[n]
<1>1. From(P, o) \subseteq From(P, n) /\ n \in From(P, n) /\ n \notin From(P, o) /\ From(P, n) \subseteq P
  <2>1. n \in Nat /\ o \in Nat /\ \A m \in P : m \in Nat
    OBVIOUS
  <2>2. n >= n /\ ~(n >= o) /\ \A m \in P : m >= o => m >= n
    BY <2>1
  <2> QED BY <2>2 DEF From
<1>2. IsFiniteSet(From(P, n))
  BY <1>1, FS_Subset
<1>3. /\ IsFiniteSet(From(P, o)) /\ Cardinality(From(P, o)) <= Cardinality(From(P, n))
      /\ Cardinality(From(P, n)) # Cardinality(From(P, o))
  BY <1>1, <1>2, FS_Subset
<1>4. Cardinality(From(P, n)) \in Nat /\ Cardinality(From(P, o)) \in Nat
  BY <1>2, <1>3, FS_CardinalityType
<1>5. Rank(P)[n] = Cardinality(From(P, n)) /\ Rank(P)[o] = Cardinality(From(P, o))
  BY DEF Rank
<1> QED BY <1>3, <1>4, <1>5

LEMMA RanksAreAll ==
    ASSUME NEW P \in SUBSET Nat, IsFiniteSet(P)
    PROVE  /\ Cardinality(P) \in Nat
           /\ \A n \in P : Rank(P)[n] \in 1 .. Cardinality(P)
           /\ \A i \in 1 .. Cardinality(P) : \E n \in P : Rank(P)[n] = i
<1> DEFINE c == Cardinality(P)
           R == Rank(P)
<1>1. c \in Nat
  BY FS_CardinalityType
<1>2. ASSUME NEW n \in P PROVE R[n] \in 1 .. c
  <2>1. From(P, n) \subseteq P /\ n \in From(P, n)
    BY DEF From
  <2>2. IsFiniteSet(From(P, n)) /\ Cardinality(From(P, n)) <= c
    BY <2>1, FS_Subset
  <2>3. Cardinality(From(P, n)) \in Nat /\ Cardinality(From(P, n)) # 0
    BY <2>1, <2>2, FS_CardinalityType, FS_EmptySet
  <2>4. R[n] = Cardinality(From(P, n))
    BY DEF Rank
  <2> QED BY <1>1, <2>2, <2>3, <2>4
<1>3. ASSUME NEW n \in P, NEW o \in P, R[n] = R[o] PROVE n = o
  <2>1. R[n] \in Nat /\ n \in Nat /\ o \in Nat /\ R[o] \in Nat
    BY <1>1, <1>2
  <2>2. ~(n < o) /\ ~(o < n)
    BY <1>3, <2>1, RanksFall
  <2> QED BY <2>1, <2>2
<1>4. R \in [P -> 1 .. c]
  BY <1>2 DEF Rank
<1>5. R \in Injection(P, 1 .. c)
  BY <1>3, <1>4 DEF Injection, IsInjective
<1>6. IsFiniteSet(1 .. c) /\ Cardinality(1 .. c) = c
  BY <1>1, FS_Interval
<1> HIDE DEF R
<1>7. R \in Surjection(P, 1 .. c)
  BY <1>5, <1>6, FS_Injection
<1>8. \A i \in 1 .. c : \E n \in P : R[n] = i
  BY <1>7 DEF Surjection
<1> QED BY <1>1, <1>2, <1>8 DEF R

(* NewestFirst lists a finite set of publications, falling.                *)
LEMMA NewestFirstLists ==
    ASSUME NEW P \in SUBSET Nat, IsFiniteSet(P)
    PROVE  /\ NewestFirst(P) \in Seq(Nat) /\ Len(NewestFirst(P)) = Cardinality(P)
           /\ Falling(NewestFirst(P)) /\ \A i \in 1 .. Len(NewestFirst(P)) : NewestFirst(P)[i] \in P
           /\ \A n \in P : Has(NewestFirst(P), n)
<1> DEFINE c == Cardinality(P)
           s == NewestFirst(P)
<1>1. /\ c \in Nat
      /\ \A n \in P : Rank(P)[n] \in 1 .. c
      /\ \A i \in 1 .. c : \E n \in P : Rank(P)[n] = i
  BY RanksAreAll
<1>2. ASSUME NEW i \in 1 .. c PROVE s[i] \in P /\ Rank(P)[s[i]] = i
  <2>1. s[i] = CHOOSE n \in P : Cardinality({m \in P : m >= n}) = i
    BY DEF NewestFirst
  <2>2. \E n \in P : Cardinality({m \in P : m >= n}) = i
    BY <1>1 DEF Rank, From
  <2>3. s[i] \in P /\ Cardinality({m \in P : m >= s[i]}) = i
    <3> HIDE DEF s
    <3> QED BY <2>1, <2>2, Zenon
  <2> QED BY <2>3 DEF Rank, From
<1>3. DOMAIN s = 1 .. c
  BY DEF NewestFirst
<1>4. s \in [1 .. c -> Nat]
  <2> DEFINE e(i) == CHOOSE n \in P : Cardinality({m \in P : m >= n}) = i
  <2>1. s = [i \in 1 .. c |-> e(i)]
    BY DEF NewestFirst
  <2> HIDE DEF s, e
  <2>2. \A i \in 1 .. c : e(i) \in P
    BY <1>2, <2>1
  <2> QED BY <2>1, <2>2
<1> HIDE DEF s, c
<1>5. s \in Seq(Nat) /\ Len(s) = c
  BY <1>1, <1>3, <1>4
<1>6. Falling(s)
  <2> SUFFICES ASSUME NEW i \in 1 .. c, NEW j \in 1 .. c, i < j PROVE s[i] > s[j]
    BY <1>5 DEF Falling
  <2>1. s[i] \in P /\ s[j] \in P /\ Rank(P)[s[i]] = i /\ Rank(P)[s[j]] = j
    BY <1>2
  <2>2. s[i] \in Nat /\ s[j] \in Nat /\ i \in Nat /\ j \in Nat
    <3>1. s[i] \in Nat /\ s[j] \in Nat
      BY <2>1
    <3> QED BY <1>1, <3>1
  <2>3. s[i] # s[j]
    BY <2>1, <2>2
  <2>4. ~(s[i] < s[j])
    <3>1. s[i] < s[j] => Rank(P)[s[j]] < Rank(P)[s[i]]
      BY <2>1, RanksFall
    <3> QED BY <2>1, <2>2, <3>1
  <2> QED BY <2>2, <2>3, <2>4
<1>7. ASSUME NEW n \in P PROVE Has(s, n)
  <2> DEFINE i == Rank(P)[n]
  <2>1. i \in 1 .. c
    BY <1>1
  <2>2. s[i] \in P /\ Rank(P)[s[i]] = i
    BY <1>2, <2>1
  <2>3. n \in Nat /\ s[i] \in Nat /\ i \in Nat
    <3>1. n \in Nat /\ s[i] \in Nat
      BY <2>2
    <3> HIDE DEF i
    <3> QED BY <1>1, <2>1, <3>1
  <2>4. ~(n < s[i]) /\ ~(s[i] < n)
    <3>1. (n < s[i] => Rank(P)[s[i]] < i) /\ (s[i] < n => i < Rank(P)[s[i]])
      BY <2>2, RanksFall
    <3> HIDE DEF i
    <3> QED BY <2>2, <2>3, <3>1
  <2> HIDE DEF i
  <2>5. s[i] = n
    BY <2>3, <2>4
  <2> QED BY <1>5, <2>1, <2>5 DEF Has
<1>8. \A i \in 1 .. Len(s) : s[i] \in P
  BY <1>2, <1>5
<1> QED BY <1>5, <1>6, <1>7, <1>8 DEF s, c

Above(S, n) == {m \in S : m > n}

LEMMA AboveIsFinite ==
    ASSUME NEW S, IsFiniteSet(S), NEW n
    PROVE  IsFiniteSet(Above(S, n)) /\ Cardinality(Above(S, n)) \in Nat
<1>1. Above(S, n) \subseteq S
  BY DEF Above
<1> QED BY <1>1, FS_Subset, FS_CardinalityType

(* What is not on a page is older than the page.                           *)
LEMMA RestIsOlder ==
    ASSUME NEW S \in SUBSET Nat, IsFiniteSet(S), NEW n \in S, n \notin Newest(S), NEW q \in Newest(S)
    PROVE  n < q
<1>1. q \in S /\ Cardinality(Above(S, q)) < PageLimit /\ ~(Cardinality(Above(S, n)) < PageLimit)
  BY DEF Newest, Above
<1>2. n \in Nat /\ q \in Nat
  BY <1>1
<1>3. PageLimit \in Nat
  BY CatalogAssumption
<1>4. ASSUME q < n PROVE FALSE
  <2>1. \A m \in S : m > n => m > q
    <3>1. \A m \in S : m \in Nat
      OBVIOUS
    <3> QED BY <1>2, <1>4, <3>1
  <2>2. Above(S, n) \subseteq Above(S, q)
    BY <2>1 DEF Above
  <2>3. Cardinality(Above(S, n)) <= Cardinality(Above(S, q))
    BY <2>2, AboveIsFinite, FS_Subset
  <2>4. Cardinality(Above(S, n)) \in Nat /\ Cardinality(Above(S, q)) \in Nat
    BY AboveIsFinite
  <2> QED BY <1>1, <1>3, <2>3, <2>4
<1>5. n # q
  OBVIOUS
<1> QED BY <1>2, <1>4, <1>5

(* A page is not longer than the limit, and a shorter one is the last.     *)
LEMMA PageSize ==
    ASSUME NEW S \in SUBSET Nat, NEW c \in Nat, \A n \in S : n <= c
    PROVE  /\ IsFiniteSet(S) /\ IsFiniteSet(Newest(S)) /\ Newest(S) \in SUBSET Nat
           /\ Cardinality(Newest(S)) # PageLimit => Newest(S) = S
<1> DEFINE P == Newest(S)
<1>1. IsFiniteSet(S)
  BY FS_BoundedSetOfNaturals
<1>2. P \subseteq S
  BY DEF Newest
<1>3. IsFiniteSet(P) /\ Cardinality(P) \in Nat
  BY <1>1, <1>2, FS_Subset, FS_CardinalityType
<1>4. PageLimit \in Nat \ {0}
  BY CatalogAssumption
<1>5. Cardinality(P) <= PageLimit
  <2>1. CASE P = {}
    BY <1>4, <2>1, FS_EmptySet
  <2>2. CASE P # {}
    <3>1. P \in SUBSET Nat
      BY <1>2
    <3>2. PICK q \in P : \A n \in P : q <= n
      BY <2>2, <3>1, LeastNatural
    <3>3. Cardinality(Above(S, q)) < PageLimit
      BY DEF Newest, Above
    <3>4. P \ {q} \subseteq Above(S, q)
      <4> SUFFICES ASSUME NEW n \in P, n # q PROVE n \in S /\ n > q
        BY DEF Above
      <4>1. n \in Nat /\ q \in Nat /\ q <= n /\ n \in S
        BY <1>2, <3>1, <3>2
      <4> QED BY <4>1
    <3>5. Cardinality(P \ {q}) <= Cardinality(Above(S, q))
      BY <1>1, <3>4, AboveIsFinite, FS_Subset
    <3>6. Cardinality(P \ {q}) = Cardinality(P) - 1
      BY <1>3, FS_RemoveElement
    <3>7. Cardinality(Above(S, q)) \in Nat
      BY <1>1, AboveIsFinite
    <3> HIDE DEF P
    <3> QED BY <1>3, <1>4, <3>3, <3>5, <3>6, <3>7
  <2> QED BY <2>1, <2>2
<1>6. ASSUME Cardinality(P) < PageLimit, P # S PROVE FALSE
  <2> DEFINE R == S \ P
  <2>1. R \in SUBSET Nat /\ R # {} /\ \A n \in R : n <= c
    BY <1>2, <1>6
  <2> HIDE DEF R
  <2>2. PICK x \in R : \A n \in R : n <= x
    BY <2>1, GreatestNatural
  <2>3. x \in S /\ x \notin P /\ x \in Nat
    BY <2>1, <2>2 DEF R
  <2>4. Above(S, x) \subseteq P
    <3> SUFFICES ASSUME NEW n \in S, n > x, n \notin P PROVE FALSE
      BY DEF Above
    <3>1. n \in R /\ n \in Nat
      BY DEF R
    <3>2. n <= x
      BY <2>2, <3>1
    <3> QED BY <2>3, <3>1, <3>2
  <2>5. Cardinality(Above(S, x)) <= Cardinality(P)
    BY <1>3, <2>4, FS_Subset
  <2>6. Cardinality(Above(S, x)) \in Nat
    BY <1>1, AboveIsFinite
  <2>7. Cardinality(Above(S, x)) < PageLimit
    <3> HIDE DEF P
    <3> QED BY <1>3, <1>4, <1>6, <2>5, <2>6
  <2>8. x \in P
    BY <2>3, <2>7 DEF Newest, Above
  <2> QED BY <2>3, <2>8
<1>7. P \in SUBSET Nat
  BY <1>2
<1>8. Cardinality(P) # PageLimit => P = S
  <2> HIDE DEF P
  <2> QED BY <1>3, <1>4, <1>5, <1>6
<1> QED BY <1>1, <1>3, <1>7, <1>8

LEMMA Joined ==
    ASSUME NEW s \in Seq(Nat), NEW u \in Seq(Nat)
    PROVE  /\ s \o u \in Seq(Nat) /\ Len(s \o u) = Len(s) + Len(u)
           /\ \A i \in 1 .. Len(s) : (s \o u)[i] = s[i]
           /\ \A i \in 1 .. Len(u) : (s \o u)[Len(s) + i] = u[i]
           /\ \A i \in 1 .. Len(s \o u) :
                 i <= Len(s) \/ (i - Len(s) \in 1 .. Len(u) /\ (s \o u)[i] = u[i - Len(s)])
<1>1. s \o u \in Seq(Nat) /\ Len(s \o u) = Len(s) + Len(u) /\ Len(s) \in Nat /\ Len(u) \in Nat
  OBVIOUS
<1>2. \A i \in 1 .. Len(s) + Len(u) : (s \o u)[i] = IF i <= Len(s) THEN s[i] ELSE u[i - Len(s)]
  OBVIOUS
<1>3. ASSUME NEW i \in 1 .. Len(s) PROVE (s \o u)[i] = s[i]
  <2>1. i \in 1 .. Len(s) + Len(u) /\ i <= Len(s)
    BY <1>1
  <2> QED BY <1>2, <2>1
<1>4. ASSUME NEW i \in 1 .. Len(u) PROVE (s \o u)[Len(s) + i] = u[i]
  <2>1. Len(s) + i \in 1 .. Len(s) + Len(u) /\ ~(Len(s) + i <= Len(s)) /\ (Len(s) + i) - Len(s) = i
    BY <1>1
  <2> QED BY <1>2, <2>1
<1>5. ASSUME NEW i \in 1 .. Len(s \o u), ~(i <= Len(s))
      PROVE  i - Len(s) \in 1 .. Len(u) /\ (s \o u)[i] = u[i - Len(s)]
  <2>1. i \in 1 .. Len(s) + Len(u)
    BY <1>1
  <2>2. i - Len(s) \in 1 .. Len(u)
    BY <1>1, <1>5, <2>1
  <2> QED BY <1>2, <1>5, <2>1, <2>2
<1> QED BY <1>1, <1>3, <1>4, <1>5

LEMMA JoinedFalls ==
    ASSUME NEW s \in Seq(Nat), NEW u \in Seq(Nat), Falling(s), Falling(u), NEW b \in Nat,
           \A i \in 1 .. Len(s) : b <= s[i], \A i \in 1 .. Len(u) : u[i] < b
    PROVE  Falling(s \o u)
<1> DEFINE v == s \o u
<1>1. /\ v \in Seq(Nat) /\ Len(v) = Len(s) + Len(u) /\ Len(s) \in Nat /\ Len(u) \in Nat
      /\ \A i \in 1 .. Len(s) : v[i] = s[i]
      /\ \A i \in 1 .. Len(v) : i <= Len(s) \/ (i - Len(s) \in 1 .. Len(u) /\ v[i] = u[i - Len(s)])
  BY Joined
<1> HIDE DEF v
<1> SUFFICES ASSUME NEW i \in 1 .. Len(v), NEW j \in 1 .. Len(v), i < j PROVE v[i] > v[j]
  BY DEF Falling, v
<1>2. v[i] \in Nat /\ v[j] \in Nat /\ i \in Nat /\ j \in Nat
  BY <1>1
<1>3. CASE j <= Len(s)
  <2>1. i \in 1 .. Len(s) /\ j \in 1 .. Len(s)
    BY <1>1, <1>3
  <2>2. s[i] > s[j]
    BY <2>1 DEF Falling
  <2> QED BY <1>1, <2>1, <2>2
<1>4. CASE ~(j <= Len(s)) /\ i <= Len(s)
  <2>1. i \in 1 .. Len(s) /\ j - Len(s) \in 1 .. Len(u) /\ v[j] = u[j - Len(s)] /\ v[i] = s[i]
    BY <1>1, <1>4
  <2>2. b <= v[i] /\ v[j] < b
    BY <2>1
  <2> QED BY <1>2, <2>2
<1>5. CASE ~(j <= Len(s)) /\ ~(i <= Len(s))
  <2> DEFINE x == i - Len(s)
             y == j - Len(s)
  <2>1. x \in 1 .. Len(u) /\ y \in 1 .. Len(u) /\ v[i] = u[x] /\ v[j] = u[y]
    BY <1>1, <1>5
  <2>2. x < y
    BY <1>1, <1>2
  <2> HIDE DEF x, y
  <2>3. u[x] > u[y]
    BY <2>1, <2>2 DEF Falling
  <2> QED BY <2>1, <2>3
<1> QED BY <1>3, <1>4, <1>5

LEMMA ListStartKeepsInv ==
    ASSUME IInv, NEW s \in StreamIds, ListStart(s)
    PROVE  IInv'
<1> DEFINE c == cat.pubs[s]
           l == [step |-> "page", stream |-> s, ceiling |-> c, before |-> c + 1, got |-> <<>>,
                 had |-> Available(cat, s)]
<1>1. UNCHANGED <<cat, local, formed, tails, caller, floating, told>> /\ lister' = l
  BY DEF ListStart
<1>2. cat \in Cats /\ PubsOK(cat) /\ c \in Nat
  BY DEF IInv, CatOK, Cats
<1>3. ASSUME NEW b \in Available(cat, s)
      PROVE  /\ b \in BookIds /\ cat.books[b] # Absent /\ cat.books[b].stream = s
             /\ cat.books[b].pub <= c /\ ~(c + 1 <= cat.books[b].pub)
  <2>1. b \in BookIds /\ cat.books[b] # Absent /\ cat.books[b].stream = s
    BY DEF Available
  <2>2. cat.books[b].pub \in 1 .. c
    BY <1>2, <2>1 DEF PubsOK
  <2> QED BY <1>2, <2>1, <2>2
<1> HIDE DEF c
<1>4. /\ DOMAIN l = {"step", "stream", "ceiling", "before", "got", "had"}
      /\ l.step = "page" /\ l.stream = s /\ l.ceiling = c /\ l.before = c + 1 /\ l.got = <<>>
      /\ l.had = Available(cat, s) /\ c + 1 \in Nat
  BY <1>2
<1> HIDE DEF l
<1>5. l.got \in Seq(Nat) /\ Falling(l.got) /\ Len(l.got) = 0
  BY <1>4 DEF Falling
<1>6. ListOK(l, cat)
  BY <1>2, <1>3, <1>4, <1>5 DEF ListOK
<1> QED BY <1>1, <1>6 DEF IInv

(* The next page: P is the page, S all that is below the last one.         *)
PageStep(l, n, S, items) ==
    /\ DOMAIN n = {"step", "stream", "ceiling", "before", "got", "had"}
    /\ n.stream = l.stream /\ n.ceiling = l.ceiling /\ n.had = l.had
    /\ n.got = l.got \o items
    /\ n.step = IF Len(items) = PageLimit THEN "page" ELSE "ended"
    /\ n.before = IF items = <<>> THEN l.before ELSE items[Len(items)]

LEMMA NextPageIsOK ==
    ASSUME NEW l, NEW k, ListOK(l, k), l.step = "page", NEW S \in SUBSET Nat,
           \A x \in S : x <= l.ceiling /\ x < l.before,
           \A b \in Available(k, l.stream) :
              k.books[b].pub \in Nat /\ (k.books[b].pub <= l.ceiling /\ k.books[b].pub < l.before => k.books[b].pub \in S),
           NEW n, PageStep(l, n, S, NewestFirst(Newest(S)))
    PROVE  ListOK(n, k)
<1> DEFINE P == Newest(S)
           u == NewestFirst(P)
           s == l.got
<1>1. /\ l.stream \in StreamIds /\ l.ceiling \in Nat /\ l.before \in Nat /\ s \in Seq(Nat) /\ Falling(s)
      /\ \A i \in 1 .. Len(s) : s[i] <= l.ceiling /\ l.before <= s[i]
      /\ \A b \in l.had : /\ b \in BookIds /\ k.books[b] # Absent
                          /\ k.books[b].stream = l.stream /\ k.books[b].pub <= l.ceiling
      /\ \A b \in l.had \cap Available(k, l.stream) : l.before <= k.books[b].pub => Has(s, k.books[b].pub)
  BY DEF ListOK
<1>2. /\ IsFiniteSet(S) /\ IsFiniteSet(P) /\ P \in SUBSET Nat /\ P \subseteq S
      /\ Cardinality(P) # PageLimit => P = S
  <2>1. P \subseteq S
    BY DEF Newest
  <2> QED BY <1>1, <2>1, PageSize
<1>3. \A x \in S : x \notin P => \A q \in P : x < q
  BY <1>2, RestIsOlder
<1> HIDE DEF P
<1>4. /\ u \in Seq(Nat) /\ Len(u) = Cardinality(P) /\ Falling(u)
      /\ \A i \in 1 .. Len(u) : u[i] \in P
      /\ \A x \in P : Has(u, x)
  BY <1>2, NewestFirstLists
<1>5. PageStep(l, n, S, u)
  BY DEF P
<1> HIDE DEF u
<1>6. Len(s) \in Nat /\ Len(u) \in Nat /\ PageLimit \in Nat \ {0}
  BY <1>1, <1>4, CatalogAssumption
<1>7. ASSUME NEW i \in 1 .. Len(u) PROVE u[i] \in Nat /\ u[i] <= l.ceiling /\ u[i] < l.before
  BY <1>2, <1>4
<1>8. ASSUME Len(u) # 0
      PROVE  Len(u) \in 1 .. Len(u) /\ n.before = u[Len(u)] /\ n.before \in P /\ n.before \in Nat /\ n.before < l.before
  <2>1. Len(u) \in 1 .. Len(u)
    BY <1>6, <1>8
  <2>2. u # <<>>
    BY <1>4, <1>8
  <2> QED BY <1>4, <1>5, <1>7, <2>1, <2>2 DEF PageStep
<1>9. ASSUME Len(u) = 0 PROVE n.before = l.before
  BY <1>4, <1>5, <1>9 DEF PageStep
<1>10. n.before \in Nat /\ n.before <= l.before
  BY <1>1, <1>6, <1>8, <1>9
<1>11. /\ n.got \in Seq(Nat) /\ Len(n.got) = Len(s) + Len(u)
       /\ \A i \in 1 .. Len(s) : n.got[i] = s[i]
       /\ \A i \in 1 .. Len(u) : n.got[Len(s) + i] = u[i]
       /\ \A i \in 1 .. Len(n.got) : i <= Len(s) \/ (i - Len(s) \in 1 .. Len(u) /\ n.got[i] = u[i - Len(s)])
  <2> DEFINE v == s \o u
  <2>1. n.got = v
    BY <1>5 DEF PageStep
  <2>2. s \in Seq(Nat) /\ u \in Seq(Nat)
    BY <1>1, <1>4
  <2> HIDE DEF s
  <2>3. /\ v \in Seq(Nat) /\ Len(v) = Len(s) + Len(u)
        /\ \A i \in 1 .. Len(s) : v[i] = s[i]
        /\ \A i \in 1 .. Len(u) : v[Len(s) + i] = u[i]
        /\ \A i \in 1 .. Len(v) : i <= Len(s) \/ (i - Len(s) \in 1 .. Len(u) /\ v[i] = u[i - Len(s)])
    BY <2>2, Joined
  <2> HIDE DEF v
  <2> QED BY <2>1, <2>3, Zenon
<1>12. Falling(n.got)
  BY <1>1, <1>4, <1>5, <1>7, JoinedFalls DEF PageStep
<1>13. ASSUME NEW i \in 1 .. Len(n.got) PROVE n.got[i] <= n.ceiling /\ n.before <= n.got[i]
  <2>1. n.ceiling = l.ceiling
    BY <1>5 DEF PageStep
  <2>2. CASE i <= Len(s)
    <3>1. i \in 1 .. Len(s) /\ n.got[i] = s[i] /\ s[i] \in Nat
      <4>1. s \in Seq(Nat) /\ Len(n.got) = Len(s) + Len(u)
        BY <1>1, <1>11
      <4> HIDE DEF s
      <4>2. i \in 1 .. Len(s)
        BY <1>6, <2>2, <4>1
      <4>3. s[i] \in Nat
        BY <4>1, <4>2
      <4> QED BY <1>11, <4>2, <4>3
    <3>2. s[i] <= l.ceiling /\ l.before <= s[i]
      BY <1>1, <3>1
    <3> HIDE DEF s
    <3> QED BY <1>1, <1>10, <2>1, <3>1, <3>2
  <2>3. CASE ~(i <= Len(s))
    <3> DEFINE x == i - Len(s)
    <3>1. x \in 1 .. Len(u) /\ n.got[i] = u[x]
      BY <1>11, <2>3
    <3> HIDE DEF x
    <3>2. u[x] \in Nat /\ u[x] <= l.ceiling
      BY <1>7, <3>1
    <3>3. Len(u) # 0 /\ x \in Nat /\ x <= Len(u)
      BY <1>6, <3>1
    <3>4. n.before = u[Len(u)] /\ Len(u) \in 1 .. Len(u) /\ n.before \in Nat
      BY <1>8, <3>3
    <3>5. n.before <= u[x]
      <4>1. CASE x = Len(u)
        BY <3>2, <3>4, <4>1
      <4>2. CASE x < Len(u)
        <5>1. u[x] > u[Len(u)]
          BY <1>4, <3>1, <3>4, <4>2 DEF Falling
        <5> QED BY <3>2, <3>4, <5>1
      <4> QED BY <1>6, <3>3, <4>1, <4>2
    <3> QED BY <2>1, <3>1, <3>2, <3>5
  <2> QED BY <2>2, <2>3
<1>14. ASSUME NEW x, Has(s, x) \/ Has(u, x) PROVE Has(n.got, x)
  <2>1. CASE Has(s, x)
    <3>1. PICK i \in 1 .. Len(s) : s[i] = x
      BY <2>1 DEF Has
    <3>2. i \in 1 .. Len(n.got)
      BY <1>6, <1>11
    <3> QED BY <1>11, <3>1, <3>2 DEF Has
  <2>2. CASE Has(u, x)
    <3>1. PICK i \in 1 .. Len(u) : u[i] = x
      BY <2>2 DEF Has
    <3>2. Len(s) + i \in 1 .. Len(n.got)
      BY <1>6, <1>11
    <3> QED BY <1>11, <3>1, <3>2 DEF Has
  <2> QED BY <1>14, <2>1, <2>2
<1>15. ASSUME NEW b \in n.had \cap Available(k, n.stream), n.step = "ended" \/ n.before <= k.books[b].pub
       PROVE  Has(n.got, k.books[b].pub)
  <2> DEFINE x == k.books[b].pub
  <2>1. b \in l.had \cap Available(k, l.stream)
    BY <1>5 DEF PageStep
  <2>2. x \in Nat /\ x <= l.ceiling /\ (x < l.before => x \in S) /\ (l.before <= x => Has(s, x))
    BY <1>1, <2>1
  <2> HIDE DEF x
  <2>3. CASE l.before <= x
    BY <1>14, <2>2, <2>3 DEF x
  <2>4. CASE x < l.before
    <3>1. x \in S
      BY <2>2, <2>4
    <3>2. x \in P
      <4>1. CASE Len(u) # PageLimit
        BY <1>2, <1>4, <3>1, <4>1
      <4>2. CASE Len(u) = PageLimit
        <5>1. n.step = "page" /\ Len(u) # 0
          BY <1>5, <1>6, <4>2 DEF PageStep
        <5>2. n.before <= x /\ n.before \in P /\ n.before \in Nat
          BY <1>8, <1>15, <5>1 DEF x
        <5>3. x \notin P => x < n.before
          BY <1>3, <3>1, <5>2
        <5> QED BY <2>2, <5>2, <5>3
      <4> QED BY <4>1, <4>2
    <3> QED BY <1>4, <1>14, <3>2 DEF x
  <2> QED BY <1>1, <2>2, <2>3, <2>4
<1>16. /\ n.step \in {"page", "ended"} /\ DOMAIN n = {"step", "stream", "ceiling", "before", "got", "had"}
       /\ n.stream = l.stream /\ n.ceiling = l.ceiling /\ n.had = l.had
  BY <1>5 DEF PageStep
<1> HIDE DEF s
<1> QED BY <1>1, <1>10, <1>11, <1>12, <1>13, <1>15, <1>16 DEF ListOK

LEMMA ListPageKeepsInv ==
    ASSUME IInv, ListPage
    PROVE  IInv'
<1> DEFINE l == lister
           S == {cat.books[b].pub : b \in {i \in Available(cat, l.stream) :
                                             OnPage(cat.books[i], l.ceiling, l.before)}}
           items == NewestFirst(Newest(S))
           T == IF Len(items) = PageLimit THEN "page" ELSE "ended"
           B == IF items = <<>> THEN l.before ELSE items[Len(items)]
           G == l.got \o items
           n == [l EXCEPT !.got = G, !.step = T, !.before = B]
<1>1. /\ UNCHANGED <<cat, local, formed, tails, caller, floating, told>> /\ l.step = "page" /\ lister' = n
  BY DEF ListPage
<1>2. cat \in Cats /\ ListOK(l, cat)
  BY DEF IInv, CatOK
<1>3. DOMAIN l = {"step", "stream", "ceiling", "before", "got", "had"} /\ l.ceiling \in Nat /\ l.before \in Nat
  BY <1>1, <1>2 DEF ListOK
<1>4. ASSUME NEW b \in Available(cat, l.stream) PROVE cat.books[b].pub \in Nat
  <2>1. b \in BookIds /\ cat.books[b] # Absent
    BY DEF Available
  <2>2. cat.books[b] \in Books
    BY <1>2, <2>1, BookOf
  <2> QED BY <2>2 DEF Books
<1>5. S \in SUBSET Nat /\ \A x \in S : x <= l.ceiling /\ x < l.before
  BY <1>4 DEF OnPage
<1>6. \A b \in Available(cat, l.stream) :
         /\ cat.books[b].pub \in Nat
         /\ cat.books[b].pub <= l.ceiling /\ cat.books[b].pub < l.before => cat.books[b].pub \in S
  BY <1>4 DEF OnPage
<1> HIDE DEF S
<1>7. PageStep(l, n, S, items)
  <2>1. /\ T = IF Len(items) = PageLimit THEN "page" ELSE "ended"
        /\ B = IF items = <<>> THEN l.before ELSE items[Len(items)]
        /\ G = l.got \o items
    OBVIOUS
  <2> HIDE DEF T, B, G, items
  <2>2. /\ DOMAIN n = DOMAIN l /\ n.stream = l.stream /\ n.ceiling = l.ceiling /\ n.had = l.had
        /\ n.got = G /\ n.step = T /\ n.before = B
    BY <1>3
  <2> HIDE DEF n
  <2> QED BY <1>3, <2>1, <2>2 DEF PageStep
<1> HIDE DEF n
<1>8. ListOK(n, cat)
  BY <1>1, <1>2, <1>5, <1>6, <1>7, NextPageIsOK
<1> QED BY <1>1, <1>8 DEF IInv

-----------------------------------------------------------------------------
(* The initial state, the steps and the theorems.                          *)

LEMMA InitInv ==
    ASSUME Init
    PROVE  IInv
<1> DEFINE k == Bootstrapped
           d == [life |-> "active", name |-> DefaultName, place |-> <<1>>, ready |-> {1}, rev |-> 1]
<1>1. /\ cat = k /\ local = Lifecycles(k) /\ formed = {1} /\ lister = [step |-> "new"]
      /\ tails = [s \in StreamIds |-> [p \in 1 .. MaxParts |-> 0]]
      /\ caller = [c \in Callers |-> Idle] /\ floating = {} /\ told = {}
  BY DEF Init
<1>2. 1 \in StreamIds /\ 1 \in Groups /\ 1 \in 1 .. MaxParts
  <2>1. Cardinality(Requests) \in Nat
    BY IdsAssumption, FS_CardinalityType
  <2> QED BY <2>1, IdsAssumption, CatalogAssumption DEF StreamIds, Groups
<1>3. d \in Streams /\ GroupsOf(d) = {1} /\ d.ready = {1} /\ d.life = "active" /\ d.name = DefaultName
  <2> DEFINE pl == <<1>>
  <2>1. pl \in [1 .. 1 -> Groups] /\ DOMAIN pl = {1} /\ pl[1] = 1
    BY <1>2
  <2> HIDE DEF pl
  <2>2. pl \in Places
    BY <1>2, <2>1 DEF Places
  <2>3. /\ d = [life |-> "active", name |-> DefaultName, place |-> pl, ready |-> {1}, rev |-> 1]
    BY DEF pl
  <2>4. d \in Streams /\ d.place = pl
    BY <1>2, <2>2, <2>3, CatalogAssumption DEF Streams, Lives
  <2>5. GroupsOf(d) = {1}
    BY <2>1, <2>4 DEF GroupsOf
  <2> QED BY <2>4, <2>5
<1> HIDE DEF d
<1>4. /\ k.streams = [s \in StreamIds |-> IF s = 1 THEN d ELSE Absent]
      /\ k.names = [n \in Names |-> IF n = DefaultName THEN 1 ELSE 0]
      /\ k.intents = [r \in Requests |-> [stream |-> 0]]
      /\ k.books = [b \in BookIds |-> Absent]
  BY DEF Bootstrapped, d
<1>5. k \in Cats
  <2>1. [stream |-> 0] \in Intents
    BY DEF Intents
  <2>2. k.streams \in [StreamIds -> Streams \cup {Absent}]
    BY <1>3, <1>4
  <2>3. k.intents \in [Requests -> Intents]
    BY <1>4, <2>1
  <2>4. k.books \in [BookIds -> Books \cup {Absent}]
    BY <1>4
  <2>5. k.names \in [Names -> Nat]
    BY <1>4
  <2>6. /\ k = [streams |-> k.streams, names |-> k.names, intents |-> k.intents, cursor |-> 1, revision |-> 1,
               books |-> k.books, booknames |-> [s \in StreamIds |-> [n \in BookNames |-> 0]],
               pubs |-> [s \in StreamIds |-> 0]]
    BY DEF Bootstrapped
  <2>7. /\ [s \in StreamIds |-> [n \in BookNames |-> 0]] \in [StreamIds -> [BookNames -> BookIds \cup {0}]]
        /\ [s \in StreamIds |-> 0] \in [StreamIds -> Nat]
    OBVIOUS
  <2> HIDE DEF k
  <2> QED BY <2>2, <2>3, <2>4, <2>5, <2>6, <2>7 DEF Cats
<1> HIDE DEF k
<1>6. k.streams[1] = d /\ \A s \in StreamIds : s # 1 => k.streams[s] = Absent
  BY <1>2, <1>4
<1>7. \A s \in StreamIds : Exists(k, s) <=> s = 1
  <2>1. "active" \in Lives /\ Absent.life \notin Lives
    BY DEF Lives, Absent
  <2> QED BY <1>2, <1>3, <1>6, <2>1 DEF Exists
<1>8. IdsOK(k)
  <2>1. Existing(k) = 1 .. 1
    BY <1>2, <1>7 DEF Existing
  <2>2. Unused(k) = Requests
    BY <1>4 DEF Unused
  <2>3. 1 + Cardinality(Unused(k)) <= MaxIds
    <3>1. Cardinality(Requests) \in Nat
      BY IdsAssumption, FS_CardinalityType
    <3> QED BY <2>2, <3>1, IdsAssumption
  <2> QED BY <2>1, <2>3 DEF IdsOK
<1>9. NamesOK(k)
  <2>1. Live(k) = {1}
    BY <1>2, <1>3, <1>6, <1>7 DEF Live, Life
  <2>2. k.streams[1].name = DefaultName
    BY <1>3, <1>6
  <2> SUFFICES ASSUME NEW n \in Names
               PROVE  {s \in Live(k) : k.streams[s].name = n} = IF k.names[n] = 0 THEN {} ELSE {k.names[n]}
    BY DEF NamesOK
  <2>3. k.names[n] = IF n = DefaultName THEN 1 ELSE 0
    BY <1>4
  <2> QED BY <2>1, <2>2, <2>3
<1>10. StreamsOK(k, {1})
  BY <1>3, <1>6, <1>7 DEF StreamsOK
<1>11. tails \in Tails
  BY <1>1 DEF Tails
<1>12. TailsOK(k, tails)
  BY <1>1 DEF TailsOK
<1>13. BooksOK(k, tails) /\ PubsOK(k)
  BY <1>4 DEF BooksOK, PubsOK
<1>14. CatOK(k, {1}, tails)
  BY <1>5, <1>8, <1>9, <1>10, <1>12, <1>13 DEF CatOK
<1>15. ASSUME NEW c \in Callers PROVE CallOK(caller[c], cat, formed, tails)
  BY <1>1 DEF CallOK, Idle
<1>16. LocalOK(local, cat)
  BY <1>1, LifecyclesAreLocal
<1>17. ListOK(lister, cat) /\ ToldOK(told, cat) /\ DOMAIN caller = Callers
  BY <1>1 DEF ListOK, ToldOK
<1>18. CatOK(cat, formed, tails)
  BY <1>1, <1>14
<1> QED BY <1>1, <1>11, <1>15, <1>16, <1>17, <1>18 DEF IInv

LEMMA NextKeepsInv ==
    ASSUME IInv, [Next]_vars
    PROVE  IInv'
<1>1. ASSUME NEW c \in Callers, NEW g \in Goals, Begin(c, g) PROVE IInv'
  BY <1>1, BeginKeepsInv
<1>2. ASSUME NEW c \in Callers, CheckTail(c) PROVE IInv'
  BY <1>2, CheckTailKeepsInv
<1>3. ASSUME NEW c \in Callers, CheckMembership(c) PROVE IInv'
  BY <1>3, CheckMembershipKeepsInv
<1>4. ASSUME NEW c \in Callers, Reply(c) PROVE IInv'
  BY <1>4, ReplyKeepsInv
<1>5. ASSUME NEW c \in Callers, TimeOut(c) PROVE IInv'
  BY <1>5, TimeOutKeepsInv
<1>6. ASSUME NEW m \in floating, Late(m) PROVE IInv'
  BY <1>6, LateKeepsInv
<1>7. ASSUME NEW g \in Groups, Form(g) PROVE IInv'
  BY <1>7, FormKeepsInv
<1>8. CASE CatchUp
  BY <1>8, CatchUpKeepsInv
<1>9. ASSUME NEW s \in StreamIds, NEW p \in 1 .. MaxParts, Publish(s, p) PROVE IInv'
  BY <1>9, PublishKeepsInv
<1>10. ASSUME NEW s \in StreamIds, ListStart(s) PROVE IInv'
  BY <1>10, ListStartKeepsInv
<1>11. CASE ListPage
  BY <1>11, ListPageKeepsInv
<1>12. CASE UNCHANGED vars
  BY <1>12 DEF vars, IInv
<1> QED BY <1>1, <1>2, <1>3, <1>4, <1>5, <1>6, <1>7, <1>8, <1>9, <1>10, <1>11, <1>12 DEF Next

LEMMA SpecKeepsInv == Spec => []IInv
<1>1. Init => IInv
  BY InitInv
<1>2. IInv /\ [Next]_vars => IInv'
  BY NextKeepsInv
<1> QED BY <1>1, <1>2, PTL DEF Spec

(* However late and however often commands are applied: names lead to the  *)
(* streams that have them and are not Deleted, an Active stream has only   *)
(* formed groups, and a bookmark lies inside the partitions of its stream  *)
(* (the apply functions of the control group and the callers of            *)
(* create_stream, delete_stream and create_stream_bookmark).               *)
THEOREM CatalogIsAlwaysCoherent == Spec => []CatalogIsCoherent
<1>1. IInv => CatalogIsCoherent
  <2> SUFFICES ASSUME IInv PROVE CatalogIsCoherent
    OBVIOUS
  <2>1. NamesLeadToStreams
    BY DEF IInv, CatOK, NamesOK, NamesLeadToStreams
  <2>2. ActiveStreamsAreFormed
    BY DEF IInv, CatOK, StreamsOK, TailsOK, Settled, ActiveStreamsAreFormed
  <2>3. BookmarksInsideStreams
    BY DEF IInv, CatOK, BooksOK, Inside, BookmarksInsideStreams
  <2> QED BY <2>1, <2>2, <2>3 DEF CatalogIsCoherent
<1> QED BY <1>1, SpecKeepsInv, PTL

(* All the successful answers to one create request name one stream,       *)
(* although the caller repeats the call and the answer of an earlier       *)
(* attempt may be applied after it (create_stream).                        *)
THEOREM RequestsAlwaysNameOneStream == Spec => []OneStreamPerRequest
<1>1. IInv => OneStreamPerRequest
  BY DEF IInv, ToldOK, OneStreamPerRequest
<1> QED BY <1>1, SpecKeepsInv, PTL

(* A listing of stream bookmarks is in falling order, below its ceiling,   *)
(* and when it ends it has every bookmark that existed when it began and   *)
(* still does, for every page limit and every change between the pages     *)
(* (list_stream_bookmarks).                                                *)
THEOREM ListingsAreAlwaysStable == Spec => []ListingIsStable
<1>1. IInv => ListingIsStable
  <2> SUFFICES ASSUME IInv, lister.step \in {"page", "ended"} PROVE
        /\ \A i, j \in 1 .. Len(lister.got) : i < j => lister.got[i] > lister.got[j]
        /\ \A i \in 1 .. Len(lister.got) : lister.got[i] <= lister.ceiling
        /\ lister.step = "ended" =>
             \A b \in lister.had \cap Available(cat, lister.stream) :
                 \E i \in 1 .. Len(lister.got) : lister.got[i] = cat.books[b].pub
    BY DEF ListingIsStable
  <2>1. ListOK(lister, cat) /\ lister.step # "new"
    BY DEF IInv
  <2> QED BY <2>1 DEF ListOK, Falling, Has
<1> QED BY <1>1, SpecKeepsInv, PTL
=============================================================================
