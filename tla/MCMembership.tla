--------------------------- MODULE MCMembership ---------------------------
(* Three founding nodes and one spare: a replacement, which an operator    *)
(* may abort, and a transfer of the data group's lead to the incoming node.*)
EXTENDS Membership, TLC

CONSTANTS g0, g1, r1, r2

MCIntent == (r1 :> [kind |-> "replace", remove |-> 1, add |-> 4, rev |-> 1])
            @@ (r2 :> [kind |-> "transfer", group |-> g1, target |-> 4])
===========================================================================
