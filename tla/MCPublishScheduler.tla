------------------------- MODULE MCPublishScheduler -------------------------
(***************************************************************************)
(* Instances of PublishScheduler for TLC: three publish calls, the second  *)
(* as large as a whole batch, against a queue that holds two of them.      *)
(***************************************************************************)
EXTENDS PublishScheduler

MCRequests == 1 .. 3
MCRecords == <<1, 2, 1>>
=============================================================================
