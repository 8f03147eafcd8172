--------------------------- MODULE MCPublishApply ---------------------------
(* A small data group: two partitions, one producer session and requests   *)
(* that retry, conflict, share a bookmark name and reach both limits.      *)
EXTENDS PublishApply, TLC

CONSTANTS c1, c2, p1, p2, s1, n1, x, y

Req(c, p, seq, records, bytes, name) ==
    [cluster |-> c, partition |-> p, session |-> s1, sequence |-> seq,
     records |-> records, bytes |-> bytes, bookmark |-> name]

MCRequests ==
    { Req(c1, p1, 1, <<x>>, 1, n1),        \* the bookmark's owner
      Req(c1, p1, 2, <<x, y>>, 3, None),   \* two records
      Req(c1, p1, 2, <<y>>, 8, n1),        \* reuses sequence and bookmark name
      Req(c1, p2, 1, <<y, y>>, 5, n1),     \* another partition
      Req(c1, p2, 2, <<x, y>>, 1, None),   \* does not fit after the previous one
      Req(c2, p1, 1, <<y>>, 1, None) }     \* another cluster

MCBookmarkIds == {<<2, 1>>}                \* collides with a publish bookmark

Create(p, offset) ==
    [type |-> "CreateBookmark", id |-> <<2, 1>>, partition |-> p, name |-> n1,
     offset |-> offset]

Delete(p, id) == [type |-> "DeleteBookmark", id |-> id, partition |-> p]

MCBookmarkCommands ==
    { Create(p1, 1), Create(p2, 0), Delete(p1, <<1, 1>>), Delete(p2, <<1, 1>>),
      Delete(p1, <<2, 1>>) }
=============================================================================
