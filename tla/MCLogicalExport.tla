-------------------------- MODULE MCLogicalExport ---------------------------
(* Stream 1 has a partition in each of two data groups; stream 2, which is *)
(* still being prepared at the start, shares the first group with it.      *)
EXTENDS LogicalExport

MCPlacements ==
    (1 :> <<[partition |-> 0, group |-> 1], [partition |-> 1, group |-> 2]>>)
        @@ (2 :> <<[partition |-> 0, group |-> 1]>>)
=============================================================================
