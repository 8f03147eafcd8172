----------------------------- MODULE MCCatalog -----------------------------
(* Inputs of the small instance: the second request wants the default name,*)
(* which a stream has already, and two bookmarks share a name.             *)
EXTENDS Catalog
CONSTANTS r1, r2, other, default, x, y

MCCreateSpecs == {[req |-> r1, name |-> other, parts |-> 2], [req |-> r2, name |-> default, parts |-> 1]}
MCBookSpecs == {[id |-> 1, name |-> x, offset |-> 0], [id |-> 2, name |-> y, offset |-> 1],
                [id |-> 3, name |-> x, offset |-> 1]}
=============================================================================
