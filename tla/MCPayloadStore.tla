--------------------------- MODULE MCPayloadStore ---------------------------
(* A replica over a short committed log, with one conflicting leader.      *)
EXTENDS PayloadStore

(* Entries 1 and 2 publish one record each, in both terms; entry 3 is a    *)
(* publish of term 1 or a retention maintenance of term 2.                 *)
MCPublishIds == ({1} \X (1 .. MaxIndex)) \cup {<<2, 2>>}
=============================================================================
