--------------------------- MODULE MCClientRetry ---------------------------
(* Three nodes of which the client knows two.  One caller runs each loop,  *)
(* with and without retries where they differ; and three compare-and-set   *)
(* calls meet, the second a repetition of the first.                       *)
EXTENDS ClientRetry

MCSeeds == <<1, 2>>
MCRequest == <<[session |-> 1, seq |-> 1], [session |-> 1, seq |-> 1], [session |-> 2, seq |-> 1]>>
MCExpect == <<0, 0, 0>>
MCCandidate == <<1, 1, 2>>
Unused == [create_stream EXCEPT !.what = "unused"]
Alone(p, n) == [ops |-> [c \in Callers |-> IF c = 1 THEN p ELSE Unused], left |-> n]
Once(p) == [p EXCEPT !.retry = FALSE]
\* Route resolution does not touch the store: the calls that meet start after it.
Direct(p) == [p EXCEPT !.route = "no"]
MCMixes ==
    {Alone(p, 2) : p \in {publish_with_resolved_route, compare_and_set_checkpoint, create_stream}}
    \cup {Alone(p, 1) : p \in {advance_retention, execute_replay_mutation, begin_export,
        complete_export, abort_export, execute_stream_bookmark_call, execute_bookmark_call,
        administration_call, security_policy_operation, security_transition_operation, fetch,
        receipt, checkpoint, retention_status, replay_lease, fetch_protected, list_bookmarks,
        export_status, download_export_chunk, Once(publish_with_resolved_route),
        Once(compare_and_set_checkpoint), Once(create_stream)}}
    \cup {[ops |-> [c \in Callers |-> IF c > 1 THEN Once(Direct(compare_and_set_checkpoint))
                                    ELSE Direct(compare_and_set_checkpoint)],
            left |-> 1]}
=============================================================================
