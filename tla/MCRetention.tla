----------------------------- MODULE MCRetention -----------------------------
(* Two partitions, leases that overlap, and the commands on them.          *)
EXTENDS Retention

CONSTANTS p1, p2, s1, s2, s3

Id(s, n) == [session |-> s, sequence |-> n]

Advance(p, id, target) == [type |-> "advance", id |-> id, partition |-> p, target |-> target]

Admit(p, id, start, end, bytes, duration) ==
    [type |-> "admit", id |-> id, partition |-> p, start |-> start, end |-> end,
     bytes |-> bytes, duration |-> duration]

Renew(p, id, lease, duration) ==
    [type |-> "renew", id |-> id, partition |-> p, lease |-> lease, duration |-> duration]

Release(p, id, lease) == [type |-> "release", id |-> id, partition |-> p, lease |-> lease]

(* s1 leases a range, renews and releases it; s2 leases a range that       *)
(* overlaps, then moves the floor past both; s3 leases a range of the other*)
(* partition and moves its floor.  Leases expire under commands on the     *)
(* other partition, and the budget holds a small and a large one, but not  *)
(* two large ones.                                                         *)
TwoPartitions ==
    { Admit(p1, Id(s1, 1), 0, 2, 9, 1), Renew(p1, Id(s1, 2), Id(s1, 1), 2),
      Release(p1, Id(s1, 3), Id(s1, 1)),
      Admit(p1, Id(s2, 1), 1, 2, 9, 1), Advance(p1, Id(s2, 2), 2),
      Admit(p2, Id(s3, 1), 0, 2, 9, 1), Advance(p2, Id(s3, 2), 2) }
=============================================================================
