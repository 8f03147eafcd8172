----------------------------- MODULE ClientRetry -----------------------------
(***************************************************************************)
(* The retry loops of the client library (light-stream-client/src/lib.rs)  *)
(* against a cluster that elects leaders, loses answers and lets copies of *)
(* a request be applied late, and the checkpoint state machine of a data   *)
(* group, whose receipts make the retries safe.                            *)
(*                                                                         *)
(* Every public method of the client is a loop of the same shape over a    *)
(* list of endpoints; the loops differ in what they retry and in what they *)
(* report when the deadline expires.  Each loop is a policy record below.  *)
(* `may' is request_may_have_reached; `before' is ambiguity_before_attempt.*)
(*                                                                         *)
(* The control group and the data group have the same leader here.  A copy *)
(* of a request that its client no longer waits for is `loose': it may be  *)
(* applied at any later moment, or never.                                  *)
(***************************************************************************)
EXTENDS Integers, Sequences, FiniteSets, SequencesExt

CONSTANTS
    Nodes, None,
    Seeds,      \* the client's endpoints, a sequence of nodes
    Callers,    \* calls; the ones with the same identity run one after the other
    Request,    \* [Callers -> [session, seq]], request identities
    Expect, Candidate, \* [Callers -> Nat], the CAS of a caller: expected revision, offset
    Mixes,      \* [ops, left]: the loops that run together, by caller, and their fault budget
    Window,     \* receipt_window of the state machine
    TailOffset  \* committed tail of the partition

ASSUME ClientAssumption ==
    /\ None \notin Nodes /\ Seeds \in Seq(Nodes) /\ Seeds # <<>>
    /\ Window \in Nat \ {0} /\ TailOffset \in Nat

\* Sequence numbers start at 1; a session that has sent nothing is at 0.
ASSUME RequestAssumption ==
    /\ Expect \in [Callers -> Nat] /\ Candidate \in [Callers -> Nat]
    /\ \A c \in Callers : /\ Request[c].seq \in Nat \ {0}
                          /\ Request[c] = [session |-> Request[c].session, seq |-> Request[c].seq]

\* Every call runs a loop of the shape below, or is not used.
Loops ==
    [what : {"publish", "cas", "other", "read", "unused"}, route : {"no", "first", "again"},
     late : {"reset", "sticky", "ambiguous", "none"}, asleep : {"reset", "sticky", "none"},
     quorum : BOOLEAN, transport : BOOLEAN, noHint : {"next", "stay", "end"}, retry : BOOLEAN]

ASSUME MixesAssumption == \A m \in Mixes : m.ops \in [Callers -> Loops] /\ m.left \in Nat

VARIABLES
    leader,   \* the leader, or None between elections
    knows,    \* per node: the leader it would name in a NotLeader answer, or None
    down,     \* nodes that refuse connections
    cut,      \* nodes that are up and separated from the others
    op,       \* per caller: the client method it runs
    call,     \* per caller: the state of its loop
    loose,    \* per caller: number of abandoned copies
    store,    \* checkpoint state machine
    applied,  \* history: callers of which a copy was applied
    faults    \* bound: elections, crashes, cuts, lost and unwelcome answers that are left

vars == <<leader, knows, down, cut, op, call, loose, store, applied, faults>>
cluster == <<leader, knows, down, cut>>

(***************************************************************************)
(* The loops.  what: the kind of request.  route: whether the loop         *)
(* resolves the partition's route "first", or first and "again" after a    *)
(* StaleRoute answer.  late: what an expired deadline reports, from the    *)
(* flag with ("reset") or without ("sticky") its restoration after a       *)
(* definite refusal, always "ambiguous", or no outcome ("none").  asleep:  *)
(* the same for retry_sleep.  quorum, transport: whether QuorumUnavailable *)
(* and broken connections are retried.  noHint: NotLeader without a hint   *)
(* goes on to the "next" endpoint, stays, or ends the call.                *)
(***************************************************************************)
Loop(what, route, late, asleep, quorum, transport, noHint) ==
    [what |-> what, route |-> route, late |-> late, asleep |-> asleep, quorum |-> quorum,
     transport |-> transport, noHint |-> noHint, retry |-> TRUE]

publish_with_resolved_route == Loop("publish", "again", "reset", "reset", TRUE, TRUE, "next")
compare_and_set_checkpoint == Loop("cas", "again", "reset", "reset", TRUE, TRUE, "next")
advance_retention == Loop("other", "again", "sticky", "sticky", TRUE, TRUE, "next")
execute_replay_mutation == Loop("other", "again", "sticky", "sticky", TRUE, TRUE, "next")
begin_export == Loop("other", "no", "sticky", "sticky", TRUE, TRUE, "next")
complete_export == Loop("other", "no", "sticky", "sticky", TRUE, TRUE, "next")
abort_export == Loop("other", "no", "sticky", "sticky", TRUE, TRUE, "next")
create_stream == Loop("other", "no", "none", "none", FALSE, TRUE, "stay")
execute_stream_bookmark_call == Loop("other", "first", "none", "none", FALSE, FALSE, "end")
execute_bookmark_call == Loop("other", "first", "none", "none", FALSE, FALSE, "end")
administration_call == Loop("other", "no", "ambiguous", "none", FALSE, TRUE, "next")
security_policy_operation == Loop("other", "no", "sticky", "none", FALSE, TRUE, "end")
security_transition_operation == Loop("other", "no", "sticky", "sticky", FALSE, TRUE, "end")
fetch == Loop("read", "again", "none", "none", TRUE, TRUE, "next")
receipt == Loop("read", "again", "none", "none", TRUE, TRUE, "next")
checkpoint == Loop("read", "again", "none", "none", TRUE, TRUE, "next")
retention_status == Loop("read", "again", "none", "none", TRUE, TRUE, "end")
replay_lease == Loop("read", "again", "none", "none", TRUE, TRUE, "end")
fetch_protected == Loop("read", "again", "none", "none", TRUE, TRUE, "end")
list_bookmarks == Loop("read", "first", "none", "none", FALSE, FALSE, "end")
export_status == Loop("read", "no", "none", "none", TRUE, TRUE, "end")
download_export_chunk == Loop("read", "no", "none", "none", TRUE, TRUE, "end")

Writes(p) == p.what # "read"

(***************************************************************************)
(* The state of a call.  phase: "route" asks for the route (back says what *)
(* for), "try" connects to eps[ix], "sent" and "submitted" wait for the    *)
(* answer before and after the request is in the leader's log, "sleep" is  *)
(* retry_sleep, "receipt" asks for the receipt of an interrupted publish.  *)
(***************************************************************************)
Pending == [kind |-> "pending", val |-> 0]
NewCall == [phase |-> "idle", eps |-> Seeds, ix |-> 1, reps |-> Seeds, rix |-> 1, back |-> "first",
            may |-> FALSE, before |-> FALSE, ret |-> Pending]
Done(k, kind, val) == [NewCall EXCEPT !.phase = "done", !.ret = [kind |-> kind, val |-> val]]

add_hint(eps, n) == <<n>> \o SelectSeq(eps, LAMBDA e : e # n)
Next1(i, eps) == (i % Len(eps)) + 1

\* What a call reports when its deadline expires.
Late(how, may) ==
    IF how \in {"reset", "sticky"} THEN (IF may THEN "ambiguous" ELSE "definite") ELSE how

\* A definite refusal takes back the doubt that this attempt, and only this one, added.
\* Mutant: it takes back the doubt of the earlier attempts too.
Restored_Clears(p, k) == IF p.late = "reset" THEN [k EXCEPT !.may = FALSE] ELSE k
Restored(p, k) == IF p.late = "reset" THEN [k EXCEPT !.may = k.before] ELSE k

Sleep(k, eps, ix) == [k EXCEPT !.phase = "sleep", !.eps = eps, !.ix = ix]
\* Mutant: the next attempt goes to the same endpoint.
GoOn_Stays(k) == Sleep(k, k.eps, k.ix)
GoOn(k) == Sleep(k, k.eps, Next1(k.ix, k.eps))

\* finish_interrupted_publish, entered before the deadline.
Interrupted(k) ==
    IF k.may THEN [k EXCEPT !.phase = "receipt", !.eps = Seeds, !.ix = 1]
    ELSE Done(k, "definite", 0)

(***************************************************************************)
(* The match at the end of a loop: the call after answer a = [kind, hint]. *)
(* "busy" is QuorumUnavailable with definite_no_commit, "unknown" with     *)
(* ambiguous_commit; "refused" are PublishOverloaded, ShuttingDown and     *)
(* ExportInProgress, which say definite_no_commit and are passed on.       *)
(***************************************************************************)
Relay(p, k, a) == Done(k, IF a.kind \in {"refused", "busy"} /\ Writes(p) THEN "relayed"
                          ELSE IF a.kind = "unknown" THEN "ambiguous" ELSE "none", 0)

\* Whether the loop goes round again: which answers its guarded arms take.
Retries(p, a) ==
    /\ p.retry
    /\ \/ a.kind = "notleader" /\ (a.hint # None \/ p.noHint # "end")
       \/ a.kind \in {"busy", "unknown"} /\ p.quorum
       \/ a.kind = "broken" /\ p.transport
       \/ a.kind = "stale" /\ p.route = "again"

Again(p, k, a) ==
    CASE a.kind = "notleader" /\ a.hint # None -> Sleep(Restored(p, k), add_hint(k.eps, a.hint), 1)
      [] a.kind = "notleader" /\ a.hint = None /\ p.noHint = "next" -> GoOn(Restored(p, k))
      [] a.kind = "notleader" /\ a.hint = None /\ p.noHint = "stay" -> Sleep(k, k.eps, k.ix)
      [] a.kind = "busy" -> GoOn(Restored(p, k))
      [] a.kind \in {"unknown", "broken"} -> GoOn(k)
      [] a.kind = "stale" ->
            [Restored(p, k) EXCEPT !.phase = "route", !.reps = Seeds, !.rix = 1, !.back = "again"]

AfterAnswer(p, k, a) ==
    IF a.kind = "ok" THEN Done(k, "ok", a.val)
    ELSE IF Retries(p, a) THEN Again(p, k, a)
    ELSE IF a.kind \in {"unknown", "broken"} /\ p.what = "publish" /\ k.may THEN Interrupted(k)
    ELSE Relay(p, k, a)

Answer(kind) == [kind |-> kind, hint |-> None, val |-> 0]
NotLeader(n) == [kind |-> "notleader", hint |-> knows[n], val |-> 0]

(***************************************************************************)
(* The checkpoint state machine: apply_checkpoint_mutation and the         *)
(* mutation receipts.  Mutations of other kinds only leave their receipt.  *)
(***************************************************************************)
Sessions == {Request[c].session : c \in Callers}
Found(s, r) == {e \in Range(s.receipts[r.session]) : e.seq = r.seq}
Record(s, r, res) ==
    LET kept == Append(s.receipts[r.session], [seq |-> r.seq, res |-> res])
    IN [s EXCEPT !.high[r.session] = r.seq,
                 !.receipts[r.session] = IF Len(kept) > Window THEN Tail(kept) ELSE kept]
Result(kind, rev) == [kind |-> kind, rev |-> rev]

\* Mutant: a repeated mutation is decided again.
Prior_Forgotten(s, r) == {}
Prior(s, r) ==
    IF Found(s, r) # {} THEN {e.res : e \in Found(s, r)}
    ELSE IF r.seq <= s.high[r.session] THEN {Result("expired", 0)}
    ELSE {}

\* A checkpoint that does not exist has revision 0, the expectation Missing.
CompareAndSet(s, c) ==
    CASE Expect[c] # Len(s.moves) -> [s |-> s, res |-> Result("conflict", Len(s.moves))]
      [] Expect[c] = Len(s.moves) /\ Candidate[c] > TailOffset ->
            [s |-> s, res |-> Result("ahead", 0)]
      [] Expect[c] = Len(s.moves) /\ Candidate[c] <= TailOffset /\ Candidate[c] < s.offset ->
            [s |-> s, res |-> Result("regression", 0)]
      [] OTHER -> [s |-> [s EXCEPT !.moves = Append(@, Request[c]), !.offset = Candidate[c]],
                   res |-> Result("advanced", Len(s.moves) + 1)]

Apply(s, c) ==
    LET r == Request[c]
        out == IF op[c].what = "cas" THEN CompareAndSet(s, c) ELSE [s |-> s, res |-> Result("done", 0)]
    IN IF Prior(s, r) # {} THEN [s |-> s, res |-> CHOOSE x \in Prior(s, r) : TRUE]
       ELSE [s |-> Record(out.s, r, out.res), res |-> out.res]

Init ==
    /\ leader = None /\ knows = [n \in Nodes |-> None] /\ down = {} /\ cut = {}
    /\ \E m \in Mixes : op = m.ops /\ faults = m.left
    /\ call = [c \in Callers |-> NewCall] /\ loose = [c \in Callers |-> 0]
    /\ store = [moves |-> <<>>, offset |-> 0, high |-> [x \in Sessions |-> 0],
                receipts |-> [x \in Sessions |-> <<>>]]
    /\ applied = {}

(***************************************************************************)
(* The cluster.  At most a minority is down or cut off.                    *)
(***************************************************************************)
Fault == faults > 0 /\ faults' = faults - 1
Quorate(bad) == 2 * Cardinality(Nodes \ bad) > Cardinality(Nodes)
Calm == UNCHANGED <<op, call, loose, store, applied>>

Elect(n) ==
    /\ n \notin down \cup cut /\ leader # n
    /\ IF leader = None THEN UNCHANGED faults ELSE Fault
    /\ leader' = n /\ knows' = [knows EXCEPT ![n] = n]
    /\ UNCHANGED <<down, cut>> /\ Calm
Learn(n) ==
    /\ n \notin down \cup cut /\ leader # None /\ knows[n] # leader
    /\ knows' = [knows EXCEPT ![n] = leader]
    /\ UNCHANGED <<leader, down, cut, faults>> /\ Calm
Crash(n) ==
    /\ Fault /\ n \notin down /\ Quorate(down \cup cut \cup {n})
    /\ down' = down \cup {n} /\ cut' = cut \ {n}
    /\ knows' = [knows EXCEPT ![n] = None] /\ leader' = IF leader = n THEN None ELSE leader
    /\ Calm
Cut(n) ==
    /\ Fault /\ n \notin down \cup cut /\ Quorate(down \cup cut \cup {n})
    /\ cut' = cut \cup {n} /\ leader' = IF leader = n THEN None ELSE leader
    /\ knows' = [knows EXCEPT ![n] = None] /\ UNCHANGED down /\ Calm
Restart(n) == n \in down /\ down' = down \ {n} /\ UNCHANGED <<leader, knows, cut, faults>> /\ Calm
Heal(n) == n \in cut /\ cut' = cut \ {n} /\ UNCHANGED <<leader, knows, down, faults>> /\ Calm

(***************************************************************************)
(* The client.                                                             *)
(***************************************************************************)
Set(c, k) == call' = [call EXCEPT ![c] = k]
Still == UNCHANGED <<leader, knows, down, cut, op>>
Quiet == UNCHANGED <<loose, store, applied>>

Start(c) ==
    /\ call[c].phase = "idle" /\ op[c].what # "unused"
    /\ \A d \in Callers : d < c /\ Request[d] = Request[c] => call[d].phase = "done"
    /\ Set(c, [call[c] EXCEPT !.phase = IF op[c].route = "no" THEN "try" ELSE "route"])
    /\ UNCHANGED faults /\ Still /\ Quiet

\* The route arrived with the leader's hint h.
Routed(k, h) ==
    CASE k.back = "first" -> [k EXCEPT !.phase = "try", !.eps = add_hint(Seeds, h), !.ix = 1]
      [] k.back = "again" -> Sleep(k, add_hint(k.eps, h), 1)
      [] k.back = "receipt" -> [k EXCEPT !.phase = "receipt", !.eps = add_hint(k.eps, h), !.ix = 1]

\* resolve_route_until: NotLeader without a hint asks the same endpoint again.
AskRoute(c) ==
    LET k == call[c]
        n == k.reps[k.rix]
        elsewhere == [k EXCEPT !.rix = Next1(k.rix, k.reps)]
        failed == IF op[c].retry THEN elsewhere ELSE Done(k, "none", 0)
    IN /\ k.phase = "route"
       /\ \/ n \in down /\ Set(c, failed) /\ UNCHANGED faults
          \/ n \notin down /\ Fault /\ \E x \in {failed, Done(k, "none", 0)} : Set(c, x)
          \/ n \notin down /\ leader = n /\ Set(c, Routed(k, n)) /\ UNCHANGED faults
          \/ n \notin down /\ leader # n /\ UNCHANGED faults
             /\ Set(c, IF ~op[c].retry THEN Done(k, "none", 0)
                       ELSE IF knows[n] = None THEN k
                       ELSE [k EXCEPT !.reps = add_hint(k.reps, knows[n]), !.rix = 1])
       /\ Still /\ Quiet

\* publish_once and its siblings: the flag is set after the connection, before the request.
Try(c) ==
    LET k == call[c]
        n == k.eps[k.ix]
    IN /\ k.phase = "try"
       /\ Set(c, IF n \in down THEN AfterAnswer(op[c], [k EXCEPT !.before = k.may], Answer("broken"))
                 ELSE [k EXCEPT !.phase = "sent", !.before = k.may, !.may = k.may \/ Writes(op[c])])
       /\ UNCHANGED faults /\ Still /\ Quiet

\* The server answers without submitting anything.
Refuse(c) ==
    LET k == call[c]
        n == k.eps[k.ix]
    IN /\ k.phase = "sent" /\ n \notin down
       /\ \/ leader # n /\ UNCHANGED faults /\ Set(c, AfterAnswer(op[c], k, NotLeader(n)))
          \/ leader = n /\ Fault
             /\ \E x \in {"busy", "refused"} \cup (IF op[c].route = "no" THEN {} ELSE {"stale"}) :
                  Set(c, AfterAnswer(op[c], k, Answer(x)))
       /\ Still /\ Quiet

Submit(c) ==
    LET k == call[c] IN
    /\ k.phase = "sent" /\ leader = k.eps[k.ix]
    /\ Set(c, IF Writes(op[c]) THEN [k EXCEPT !.phase = "submitted"] ELSE Done(k, "ok", 0))
    /\ UNCHANGED faults /\ Still /\ Quiet

\* The entry commits, under this leader or the next, and the node that took it answers.
Commit(c) ==
    LET k == call[c]
        out == Apply(store, c)
    IN /\ k.phase = "submitted" /\ leader # None /\ k.eps[k.ix] \notin down
       /\ store' = out.s /\ applied' = applied \cup {c}
       /\ Set(c, Done(k, "ok", out.res))
       /\ UNCHANGED <<loose, faults>> /\ Still

\* A new leader overwrote the entry: ForwardToLeader for a write that is gone.
Truncate(c) ==
    LET k == call[c]
        n == k.eps[k.ix]
    IN /\ k.phase = "submitted" /\ leader \notin {n, None} /\ n \notin down
       /\ Set(c, AfterAnswer(op[c], k, NotLeader(n)))
       /\ UNCHANGED faults /\ Still /\ Quiet

\* The client stops waiting.  Its copy stays, unless it died with a node that had not submitted it.
Dropped(c) ==
    LET k == call[c]
        stays == /\ Writes(op[c])
                 /\ k.phase = "submitted" \/ (k.phase = "sent" /\ k.eps[k.ix] \notin down)
    IN IF stays THEN [loose EXCEPT ![c] = @ + 1] ELSE loose

\* The connection breaks, or the server gives up on the write after OPERATION_TIMEOUT.
Abandon(c) ==
    LET k == call[c] IN
    /\ k.phase \in {"sent", "submitted"}
    /\ IF k.eps[k.ix] \in down THEN UNCHANGED faults ELSE Fault
    /\ \E x \in {"broken"} \cup (IF k.phase = "submitted" THEN {"unknown"} ELSE {}) :
         Set(c, AfterAnswer(op[c], k, Answer(x)))
    /\ loose' = Dropped(c)
    /\ UNCHANGED <<store, applied>> /\ Still

\* An abandoned copy reaches the log after all.
LateApply(c) ==
    LET out == Apply(store, c) IN
    /\ loose[c] > 0 /\ leader # None
    /\ loose' = [loose EXCEPT ![c] = @ - 1]
    /\ store' = out.s /\ applied' = applied \cup {c}
    /\ UNCHANGED <<call, faults>> /\ Still

Wake(c) ==
    /\ call[c].phase = "sleep" /\ Set(c, [call[c] EXCEPT !.phase = "try"])
    /\ UNCHANGED faults /\ Still /\ Quiet

\* The deadline passes.
Expire(c) ==
    LET k == call[c] IN
    /\ k.phase \in {"route", "try", "sent", "submitted", "sleep", "receipt"}
    /\ Set(c, Done(k, CASE k.phase = "route" -> "none"
                        [] k.phase = "sleep" -> Late(op[c].asleep, k.may)
                        [] k.phase = "receipt" -> "ambiguous"
                        [] OTHER -> Late(op[c].late, k.may), 0))
    /\ loose' = Dropped(c)
    /\ UNCHANGED <<store, applied, faults>> /\ Still

\* A publish is cancelled: its receipt is looked up if it may have been committed.
Cancel(c) ==
    LET k == call[c] IN
    /\ op[c].what = "publish"
    /\ \/ k.phase \in {"try", "sent", "submitted", "sleep"}
       \/ k.phase = "route" /\ k.back = "first"
    /\ Set(c, Interrupted(k)) /\ loose' = Dropped(c)
    /\ UNCHANGED <<store, applied, faults>> /\ Still

\* receipt_until: asks until the receipt is found or the deadline passes.
AskReceipt(c) ==
    LET k == call[c]
        n == k.eps[k.ix]
        on == [k EXCEPT !.ix = Next1(k.ix, k.eps)]
    IN /\ k.phase = "receipt"
       /\ \/ n \in down /\ Set(c, on) /\ UNCHANGED faults
          \/ /\ n \notin down /\ leader = n /\ Found(store, Request[c]) # {}
             /\ Set(c, Done(k, "ok", Result("done", 0))) /\ UNCHANGED faults
          \/ /\ n \notin down /\ leader = n /\ Found(store, Request[c]) = {}
             /\ Set(c, on) /\ UNCHANGED faults
          \/ /\ n \notin down /\ leader = n /\ Fault
             /\ Set(c, [k EXCEPT !.phase = "route", !.reps = Seeds, !.rix = 1, !.back = "receipt"])
          \/ /\ n \notin down /\ leader # n /\ UNCHANGED faults
             /\ Set(c, IF knows[n] = None THEN on
                       ELSE [k EXCEPT !.eps = add_hint(k.eps, knows[n]), !.ix = 1])
       /\ Still /\ Quiet

Proceed(c) == \/ Start(c) \/ AskRoute(c) \/ Try(c) \/ Refuse(c) \/ Submit(c) \/ Commit(c)
              \/ Truncate(c) \/ Abandon(c) \/ Wake(c) \/ AskReceipt(c)

Next == \/ \E n \in Nodes : Elect(n) \/ Learn(n) \/ Crash(n) \/ Cut(n) \/ Restart(n) \/ Heal(n)
        \/ \E c \in Callers : Proceed(c) \/ LateApply(c) \/ Expire(c) \/ Cancel(c)

Spec == Init /\ [][Next]_vars

(***************************************************************************)
(* Fairness.  Tasks and servers make progress, an election ends, a node    *)
(* that is connected hears of the leader, a partition heals.  Nothing      *)
(* forces a deadline, except for a receipt that will never exist.          *)
(***************************************************************************)
Progress ==
    /\ \A c \in Callers : WF_vars(Proceed(c)) /\ WF_vars(call[c].phase = "receipt" /\ Expire(c))
    /\ \A n \in Nodes : WF_vars(leader = None /\ Elect(n)) /\ WF_vars(Learn(n))
LiveSpec == Spec /\ Progress /\ \A n \in Nodes : WF_vars(Heal(n))

(***************************************************************************)
(* Properties.                                                             *)
(***************************************************************************)
\* What the client itself reports as definite_no_commit is so: no attempt of the call was or can
\* still be applied (request_may_have_reached over retries, redirects, stale routes and
\* cancellation).
CertaintyIsTrue ==
    \A c \in Callers : call[c].ret.kind = "definite" => c \notin applied /\ loose[c] = 0

\* However often a compare-and-set is repeated, its answer is about one decision: "advanced to r" is
\* reported exactly by the request that made revision r, a "conflict" only by one that made none, and
\* no request moves the checkpoint twice.
AnswersMatchMoves ==
    /\ IsInjective(store.moves)
    /\ \A c \in Callers :
         op[c].what = "cas" /\ call[c].ret.kind = "ok" =>
           LET res == call[c].ret.val IN
           /\ res.kind = "advanced" => res.rev <= Len(store.moves) /\ store.moves[res.rev] = Request[c]
           /\ res.kind \in {"conflict", "ahead", "regression"} => Request[c] \notin Range(store.moves)

\* A call that retries comes to an end without its deadline once the cluster is stable: hints, the
\* endpoint list and route resolution lead it to the leader.
EveryCallReturns ==
    \A c \in Callers : call[c].phase = "route" \/ call[c].phase = "try" ~> call[c].phase = "done"
=============================================================================
