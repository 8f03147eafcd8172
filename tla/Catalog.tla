------------------------------ MODULE Catalog ------------------------------
(***************************************************************************)
(* The stream catalog of the control group: creation, activation and       *)
(* deletion of streams, bookmarks over all partitions of a stream, their   *)
(* paginated listing, and the routes data requests are checked against     *)
(* (light-stream-storage/src/lib.rs, apply_create_stream to                *)
(* apply_delete_stream_bookmark, and the callers of runtime.rs).           *)
(*                                                                         *)
(* create_stream and delete_stream are sequences of separate commands.  A  *)
(* command whose caller timed out may be applied at any later moment, and  *)
(* the client repeats the whole call with the same request identity.  The  *)
(* control group is one sequential state machine, cat; `local' is the copy *)
(* of a node that lags, against which it checks routes.  A route revision  *)
(* changes only when a stream changes, so a supplied route matches exactly *)
(* while the local copy shows the stream Active.                           *)
(*                                                                         *)
(* Left out: the mutation fence (module ExportFence), commands sent to     *)
(* the wrong kind of group, and identifiers of another cluster.            *)
(***************************************************************************)
EXTENDS Integers, Sequences, FiniteSets, FiniteSetsExt

CONSTANTS
    NGroups,      \* data groups of the pool
    Names,        \* stream names
    DefaultName,  \* the name the bootstrap command gives to the first stream
    Requests,     \* catalog request identities
    MaxStreams,   \* KEY_MAX_STREAMS
    MaxParts,     \* KEY_MAX_PARTITIONS
    BookIds, BookNames,
    PageLimit,    \* items of a listing page
    Callers,      \* numbers of the calls in progress at a time; the lowest free one is used
    CreateSpecs,  \* create_stream inputs: [req, name, parts]
    BookSpecs,    \* create_stream_bookmark inputs: [id, name, offset], the same in all partitions
    MaxIds,       \* bound: stream identities
    MaxCalls,     \* bound: calls, publishes and listings started
    MaxTimeouts,  \* bound: calls that time out
    MaxTail       \* bound: records of a partition

ASSUME CatalogAssumption ==
    /\ NGroups \in Nat \ {0} /\ MaxStreams \in Nat \ {0} /\ MaxParts \in Nat \ {0}
    /\ DefaultName \in Names /\ PageLimit \in Nat \ {0} /\ MaxTail \in Nat
    /\ \A x \in CreateSpecs : x.req \in Requests /\ x.name \in Names /\ x.parts \in Nat \ {0}
    /\ \A x \in BookSpecs : x.id \in BookIds /\ x.name \in BookNames /\ x.offset \in Nat

\* The bound on identities is not met: the default stream and one for each request.
ASSUME IdsAssumption ==
    IsFiniteSet(Requests) /\ MaxIds \in Nat /\ Cardinality(Requests) + 1 <= MaxIds

VARIABLES
    cat,       \* the committed state of the control group
    local,     \* the lifecycles in the copy a lagging node reads
    formed,    \* data groups whose membership is exact
    tails,     \* next offset of each partition, in the data groups
    caller,    \* calls in progress
    floating,  \* commands whose callers timed out
    told,      \* history: <<request, stream>> of every successful create_stream
    lister,    \* one client that pages through stream bookmarks
    calls, timeouts

vars == <<cat, local, formed, tails, caller, floating, told, lister, calls, timeouts>>

Groups == 1 .. NGroups
StreamIds == 1 .. MaxIds
Absent == [life |-> "absent"]
Idle == [step |-> "idle"]
Lives == {"preparing", "active", "deleting", "deleted"}
Exists(k, s) == s \in StreamIds /\ k.streams[s].life \in Lives
Life(k, s) == k.streams[s].life
Lifecycles(k) == [s \in StreamIds |-> Life(k, s)]
GroupsOf(d) == {d.place[p] : p \in DOMAIN d.place}

\* apply_bootstrap_control: the default stream is Active on the first group.
Bootstrapped ==
    [streams |-> [s \in StreamIds |->
                    IF s = 1 THEN [life |-> "active", name |-> DefaultName, place |-> <<1>>,
                                   ready |-> {1}, rev |-> 1]
                    ELSE Absent],
     names |-> [n \in Names |-> IF n = DefaultName THEN 1 ELSE 0],
     intents |-> [r \in Requests |-> [stream |-> 0]],
     cursor |-> 1, revision |-> 1,
     books |-> [b \in BookIds |-> Absent],
     booknames |-> [s \in StreamIds |-> [n \in BookNames |-> 0]],
     pubs |-> [s \in StreamIds |-> 0]]

Init ==
    /\ cat = Bootstrapped /\ local = Lifecycles(Bootstrapped) /\ formed = {1}
    /\ tails = [s \in StreamIds |-> [p \in 1 .. MaxParts |-> 0]]
    /\ caller = [c \in Callers |-> Idle] /\ floating = {} /\ told = {}
    /\ lister = [step |-> "new"]
    /\ calls = 0 /\ timeouts = 0

(***************************************************************************)
(* Application of a command to a catalog k: the new catalog and the        *)
(* result, 0 for a rejection.                                              *)
(***************************************************************************)
Keep(k, r) == [k |-> k, r |-> r]
Refuse(k) == Keep(k, 0)
SetStream(k, s, d) == [k EXCEPT !.streams[s] = d, !.revision = k.revision + 1]
Move(k, s, life) ==
    SetStream(k, s, [k.streams[s] EXCEPT !.life = life, !.rev = k.revision + 1])

Live(k) == {s \in StreamIds : Exists(k, s) /\ Life(k, s) # "deleted"}

\* Round robin from the assignment cursor.
Place(k, parts) == [p \in 1 .. parts |-> 1 + ((k.cursor + p - 1) % NGroups)]

NextCursor(k, parts) == k.cursor + parts

\* Mutant: a repeated request is not recognised.
Replayed_Never(k, c) == FALSE
Replayed(k, c) == k.intents[c.req].stream # 0

\* StreamId::new_v4 draws an identity nobody has.
NewStream(k) == 1 + Cardinality({s \in StreamIds : Exists(k, s)})

CreateStream(k, c) ==
    IF Replayed(k, c)
      THEN IF k.intents[c.req].spec = c.spec THEN Keep(k, k.intents[c.req].stream)
           ELSE Refuse(k)
    ELSE IF \/ k.names[c.spec.name] # 0 \/ c.spec.parts > MaxParts
            \/ Cardinality(Live(k)) >= MaxStreams
      THEN Refuse(k)
    ELSE LET new == NewStream(k)
             d == [life |-> "preparing", name |-> c.spec.name,
                   place |-> Place(k, c.spec.parts), ready |-> {}, rev |-> k.revision + 1]
         IN  Keep([SetStream(k, new, d)
                     EXCEPT !.names[c.spec.name] = new,
                            !.intents[c.req] = [stream |-> new, spec |-> c.spec],
                            !.cursor = NextCursor(k, c.spec.parts)],
                  new)

ReplicaReady(k, c) ==
    IF ~Exists(k, c.stream) THEN Refuse(k)
    ELSE IF Life(k, c.stream) # "preparing" THEN Keep(k, c.stream)
    ELSE IF c.group \notin GroupsOf(k.streams[c.stream]) THEN Refuse(k)
    ELSE IF c.group \in k.streams[c.stream].ready THEN Keep(k, c.stream)
    ELSE LET d == k.streams[c.stream]
         IN  Keep(SetStream(k, c.stream, [d EXCEPT !.ready = d.ready \cup {c.group},
                                                   !.rev = k.revision + 1]), c.stream)

ActivateStream(k, c) ==
    IF ~Exists(k, c.stream) THEN Refuse(k)
    ELSE CASE Life(k, c.stream) = "active" -> Keep(k, c.stream)
           [] Life(k, c.stream) = "preparing"
              /\ k.streams[c.stream].ready = GroupsOf(k.streams[c.stream])
                 -> Keep(Move(k, c.stream, "active"), c.stream)
           [] OTHER -> Refuse(k)

\* Mutant: a stream that is already being deleted is refused, not accepted.
BeginDelete_Once(k, c) ==
    IF ~Exists(k, c.stream) \/ Life(k, c.stream) # "active" THEN Refuse(k)
    ELSE Keep(Move(k, c.stream, "deleting"), c.stream)
BeginDelete(k, c) ==
    IF ~Exists(k, c.stream) THEN Refuse(k)
    ELSE CASE Life(k, c.stream) \in {"deleting", "deleted"} -> Keep(k, c.stream)
           [] Life(k, c.stream) = "active" -> Keep(Move(k, c.stream, "deleting"), c.stream)
           [] OTHER -> Refuse(k)

\* Mutant: a second FinishDeleteStream removes the name row again.
FinishDelete_Again(k, c) ==
    IF ~Exists(k, c.stream) \/ Life(k, c.stream) \notin {"deleting", "deleted"} THEN Refuse(k)
    ELSE Keep([Move(k, c.stream, "deleted") EXCEPT !.names[k.streams[c.stream].name] = 0],
              c.stream)
FinishDelete(k, c) ==
    IF ~Exists(k, c.stream) THEN Refuse(k)
    ELSE CASE Life(k, c.stream) = "deleted" -> Keep(k, c.stream)
           [] Life(k, c.stream) = "deleting" ->
                Keep([Move(k, c.stream, "deleted") EXCEPT !.names[k.streams[c.stream].name] = 0],
                     c.stream)
           [] OTHER -> Refuse(k)

CreateStreamBookmark(k, c) ==
    LET s == c.stream
        b == [life |-> "available", stream |-> s, name |-> c.name, vec |-> c.vec,
              pub |-> k.pubs[s] + 1]
    IN  IF ~Exists(k, s) \/ Life(k, s) # "active" THEN Refuse(k)
        ELSE IF DOMAIN c.vec # DOMAIN k.streams[s].place THEN Refuse(k)
        ELSE IF k.books[c.id] # Absent
          THEN IF /\ k.books[c.id].name = c.name /\ k.books[c.id].stream = s
                  /\ k.books[c.id].vec = c.vec
               THEN Keep(k, c.id) ELSE Refuse(k)
        ELSE IF k.booknames[s][c.name] # 0 THEN Refuse(k)
        ELSE Keep([k EXCEPT !.books[c.id] = b, !.booknames[s][c.name] = c.id,
                            !.pubs[s] = b.pub], c.id)

DeleteStreamBookmark(k, c) ==
    LET b == k.books[c.id]
    IN  IF b = Absent \/ b.stream # c.stream THEN Refuse(k)
        ELSE IF b.life = "deleted" THEN Keep(k, c.id)
        ELSE Keep([k EXCEPT !.books[c.id].life = "deleted",
                            !.booknames[b.stream][b.name] = 0], c.id)

Apply(k, c) ==
    CASE c.op = "create" -> CreateStream(k, c)
      [] c.op = "ready" -> ReplicaReady(k, c)
      [] c.op = "activate" -> ActivateStream(k, c)
      [] c.op = "begin" -> BeginDelete(k, c)
      [] c.op = "finish" -> FinishDelete(k, c)
      [] c.op = "book" -> CreateStreamBookmark(k, c)
      [] c.op = "unbook" -> DeleteStreamBookmark(k, c)

(***************************************************************************)
(* Callers.  A call is a goal and a position in it: "wait" has submitted   *)
(* the command op, "tail" and "member" check before they submit one.       *)
(***************************************************************************)
Goals ==
    {[op |-> "create", req |-> x.req, spec |-> [name |-> x.name, parts |-> x.parts]] :
        x \in CreateSpecs}
    \cup {[op |-> "begin", stream |-> s] : s \in {i \in StreamIds : Exists(cat, i)}}
    \cup {[op |-> "book", stream |-> s, id |-> x.id, name |-> x.name,
           vec |-> [p \in DOMAIN cat.streams[s].place |-> x.offset]] :
            x \in BookSpecs, s \in {i \in StreamIds : Exists(cat, i) /\ Life(cat, i) = "active"}}
    \cup {[op |-> "unbook", stream |-> cat.books[b].stream, id |-> b] :
            b \in {i \in BookIds : cat.books[i] # Absent}}

Restart(g) ==
    [step |-> IF g.op = "book" THEN "tail" ELSE "wait", goal |-> g, op |-> g.op,
     left |-> IF g.op = "book" THEN DOMAIN g.vec ELSE {}, stream |-> 0]

Begin(c, g) ==
    /\ caller[c].step = "idle" /\ \A b \in Callers : b < c => caller[b].step # "idle"
    /\ calls < MaxCalls
    /\ calls' = calls + 1
    /\ caller' = [caller EXCEPT ![c] = Restart(g)]
    /\ UNCHANGED <<cat, local, formed, tails, floating, told, lister, timeouts>>

\* create_stream_bookmark checks each position against the partition's tail
\* before it submits; each check proves the control copy current first.
TailAdmits(s, p, x) == x <= tails[s][p]

CheckTail(c) ==
    LET w == caller[c]
        g == w.goal
        p == Min(w.left)
    IN  /\ w.step = "tail"
        /\ local' = Lifecycles(cat)
        /\ caller' = [caller EXCEPT ![c] =
             IF Life(cat, g.stream) # "active" \/ ~TailAdmits(g.stream, p, g.vec[p]) THEN Idle
             ELSE [w EXCEPT !.left = @ \ {p}, !.step = IF w.left = {p} THEN "wait" ELSE "tail"]]
        /\ UNCHANGED <<cat, formed, tails, floating, told, lister, calls, timeouts>>

MayBeReady(g) == g \in formed

\* create_stream returns ClusterForming, and is called again, when the next
\* group is not formed.
CheckMembership(c) ==
    /\ caller[c].step = "member"
    /\ caller' = [caller EXCEPT ![c] = IF MayBeReady(Min(@.left)) THEN [@ EXCEPT !.step = "wait"]
                                       ELSE Restart(@.goal)]
    /\ UNCHANGED <<cat, local, formed, tails, floating, told, lister, calls, timeouts>>

\* The command a caller has submitted with control_write.
Command(w) ==
    CASE w.op = "ready" -> [op |-> "ready", stream |-> w.stream, group |-> Min(w.left)]
      [] w.op \in {"activate", "finish"} -> [op |-> w.op, stream |-> w.stream]
      [] OTHER -> w.goal

\* What the caller does with a result.
Resume(w, k, r) ==
    LET next(op, left) == [goal |-> w.goal, op |-> op, left |-> left, stream |-> r,
                           step |-> IF op = "ready" THEN "member" ELSE "wait"]
    IN  IF r = 0 THEN Idle ELSE
        CASE w.op \in {"activate", "finish", "book", "unbook"} -> Idle
          [] w.op = "create" -> next("ready", GroupsOf(k.streams[r]))
          [] w.op = "ready" -> LET left == w.left \ {Min(w.left)}
                               IN  next(IF left = {} THEN "activate" ELSE "ready", left)
          [] w.op = "begin" -> next("finish", {})

Reply(c) ==
    LET w == caller[c]
        a == Apply(cat, Command(w))
    IN  /\ w.step = "wait"
        /\ cat' = a.k
        /\ caller' = [caller EXCEPT ![c] = Resume(w, a.k, a.r)]
        /\ told' = IF w.op = "activate" /\ a.r # 0
                   THEN told \cup {<<w.goal.req, w.stream>>} ELSE told
        /\ UNCHANGED <<local, formed, tails, floating, lister, calls, timeouts>>

\* OPERATION_TIMEOUT, a lost answer or a lost leader: the client calls again
\* and the spawned write goes on by itself.
TimeOut(c) ==
    /\ caller[c].step = "wait" /\ timeouts < MaxTimeouts
    /\ timeouts' = timeouts + 1
    /\ floating' = floating \cup {Command(caller[c])}
    /\ caller' = [caller EXCEPT ![c] = Restart(@.goal)]
    /\ UNCHANGED <<cat, local, formed, tails, told, lister, calls>>

Late(m) ==
    /\ m \in floating
    /\ floating' = floating \ {m}
    /\ cat' = Apply(cat, m).k
    /\ UNCHANGED <<local, formed, tails, caller, told, lister, calls, timeouts>>

(***************************************************************************)
(* The rest of the system.                                                 *)
(***************************************************************************)
Form(g) ==
    /\ g \notin formed
    /\ formed' = formed \cup {g}
    /\ UNCHANGED <<cat, local, tails, caller, floating, told, lister, calls, timeouts>>

CatchUp ==
    /\ local # Lifecycles(cat)
    /\ local' = Lifecycles(cat)
    /\ UNCHANGED <<cat, formed, tails, caller, floating, told, lister, calls, timeouts>>

\* A publish whose route matches the local copy (resolve_data_route).
Publish(s, p) ==
    /\ local[s] = "active" /\ p \in DOMAIN cat.streams[s].place
    /\ tails[s][p] < MaxTail /\ calls < MaxCalls
    /\ calls' = calls + 1
    /\ tails' = [tails EXCEPT ![s][p] = @ + 1]
    /\ UNCHANGED <<cat, local, formed, caller, floating, told, lister, timeouts>>

Available(k, s) == {b \in BookIds : k.books[b] # Absent /\ k.books[b].stream = s
                                    /\ k.books[b].life = "available"}

\* list_stream_bookmarks reads the publication counter for the ceiling of the
\* first page ...
ListStart(s) ==
    /\ lister.step = "new" /\ calls < MaxCalls /\ Exists(cat, s)
    /\ calls' = calls + 1
    /\ lister' = [step |-> "page", stream |-> s, ceiling |-> cat.pubs[s],
                  before |-> cat.pubs[s] + 1, got |-> <<>>, had |-> Available(cat, s)]
    /\ UNCHANGED <<cat, local, formed, tails, caller, floating, told, timeouts>>

\* Mutant: a page begins with the bookmark the last one ended with.
OnPage_Inclusive(b, ceiling, before) == b.pub <= ceiling /\ b.pub <= before
OnPage(b, ceiling, before) == b.pub <= ceiling /\ b.pub < before

\* ... and each page takes the newest entries below it, newest first; a full
\* page names the publication the next one continues from.
Newest(pubs) == {n \in pubs : Cardinality({m \in pubs : m > n}) < PageLimit}
NewestFirst(page) ==
    [i \in 1 .. Cardinality(page) |-> CHOOSE n \in page : Cardinality({m \in page : m >= n}) = i]

ListPage ==
    LET l == lister
        pubs == {cat.books[b].pub : b \in {i \in Available(cat, l.stream) :
                                              OnPage(cat.books[i], l.ceiling, l.before)}}
        items == NewestFirst(Newest(pubs))
    IN  /\ l.step = "page"
        /\ lister' = [l EXCEPT !.got = @ \o items,
                               !.step = IF Len(items) = PageLimit THEN "page" ELSE "ended",
                               !.before = IF items = <<>> THEN @ ELSE items[Len(items)]]
        /\ UNCHANGED <<cat, local, formed, tails, caller, floating, told, calls, timeouts>>

Next ==
    \/ \E c \in Callers : \/ \E g \in Goals : Begin(c, g)
                          \/ CheckTail(c) \/ CheckMembership(c) \/ Reply(c) \/ TimeOut(c)
    \/ \E m \in floating : Late(m)
    \/ \E g \in Groups : Form(g)
    \/ CatchUp
    \/ \E s \in StreamIds, p \in 1 .. MaxParts : Publish(s, p)
    \/ \E s \in StreamIds : ListStart(s)
    \/ ListPage

Spec == Init /\ [][Next]_vars

\* A client repeats its call until it has an answer, timeouts end, and a group
\* that is being formed is formed in the end.
Fairness ==
    /\ \A c \in Callers : WF_vars(CheckTail(c)) /\ WF_vars(CheckMembership(c)) /\ WF_vars(Reply(c))
    /\ \A g \in Groups : WF_vars(Form(g))

LiveSpec == Spec /\ Fairness

(***************************************************************************)
(* Properties.                                                             *)
(***************************************************************************)

\* Late and repeated commands never confuse the name index: a name row leads
\* to exactly the stream that has the name and is not Deleted, so a name is
\* free for reuse exactly when its stream is gone (apply_create_stream,
\* apply_finish_delete).
NamesLeadToStreams ==
    \A n \in Names :
        {s \in Live(cat) : cat.streams[s].name = n} =
            IF cat.names[n] = 0 THEN {} ELSE {cat.names[n]}

\* One catalog request creates one stream: every successful answer to a request,
\* also after the stream was deleted and its name reused, names the same stream
\* although each attempt draws a new identity (create_stream).
OneStreamPerRequest == \A a, b \in told : a[1] = b[1] => a[2] = b[2]

\* No stream is Active, and no partition has records, before the membership of
\* every data group it is placed on was seen exact (create_stream, ReplicaReady,
\* ActivateStream and the routes of resolve_data_route).
ActiveStreamsAreFormed ==
    \A s \in StreamIds :
        /\ Exists(cat, s) /\ Life(cat, s) # "preparing" => GroupsOf(cat.streams[s]) \subseteq formed
        /\ (\E p \in 1 .. MaxParts : tails[s][p] > 0) =>
               Exists(cat, s) /\ Life(cat, s) # "preparing"

\* A committed stream bookmark has one position for each partition and none is
\* past the partition's tail, though the tails belong to other groups and were
\* read before the command was submitted (create_stream_bookmark).
BookmarksInsideStreams ==
    \A b \in BookIds : cat.books[b] # Absent =>
        LET m == cat.books[b]
        IN  /\ DOMAIN m.vec = DOMAIN cat.streams[m.stream].place
            /\ \A p \in DOMAIN m.vec : m.vec[p] <= tails[m.stream][p]

\* The catalog agrees with itself and with the data groups, though its commands
\* come late, twice and from callers who read other groups before they submitted
\* them: names lead to streams, streams to formed groups, bookmarks to records.
CatalogIsCoherent == NamesLeadToStreams /\ ActiveStreamsAreFormed /\ BookmarksInsideStreams

\* A listing that pages below a fixed ceiling returns, newest first and without
\* repetition, every bookmark that existed when it began and still does, and none
\* that was created later (list_stream_bookmarks).
ListingIsStable ==
    lister.step \in {"page", "ended"} =>
        /\ \A i, j \in 1 .. Len(lister.got) : i < j => lister.got[i] > lister.got[j]
        /\ \A i \in 1 .. Len(lister.got) : lister.got[i] <= lister.ceiling
        /\ lister.step = "ended" =>
             \A b \in lister.had \cap Available(cat, lister.stream) :
                 \E i \in 1 .. Len(lister.got) : lister.got[i] = cat.books[b].pub

\* A call that is in progress on the stream.
Driven(s) ==
    \E c \in Callers : caller[c].step # "idle" /\
        LET g == caller[c].goal
        IN  \/ g.op = "create" /\ cat.intents[g.req] = [stream |-> s, spec |-> g.spec]
               /\ Life(cat, s) = "preparing"
            \/ g.op = "begin" /\ g.stream = s /\ Life(cat, s) = "deleting"

\* Nothing a caller works on stays half done: a stream that is Preparing or
\* Deleting becomes Active or Deleted, because a repeated call takes up the work
\* where the lost one left it (create_stream, delete_stream).
CatalogSettles ==
    \A s \in StreamIds : Driven(s) ~> Life(cat, s) \in {"active", "deleted"}

=============================================================================
