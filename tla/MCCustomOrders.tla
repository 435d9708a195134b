---------------------------- MODULE MCCustomOrders ----------------------------
(***************************************************************************)
(* Instances of CustomOrders for TLC.                                      *)
(***************************************************************************)
EXTENDS CustomOrders, TLC

CONSTANTS u1, u2, q1, q2, q3

MCUsers == {u1, u2}
MCAdmins == {u2}
MCRequests == {q1, q2, q3}

Ring ==
    [category |-> "ring", gender |-> "unisex", metal |-> "silver", gemstone |-> "none",
     bytes |-> 0, engraving |-> 0, characters |-> 0, quantity |-> 1, address |-> "none"]
Engraved ==
    [Ring EXCEPT !.metal = "platinum", !.gemstone = "diamond", !.bytes = MaxEngraving,
                 !.engraving = MaxEngraving - 1, !.characters = MaxEngraving - 1,
                 !.address = "json"]
Accented ==
    [Ring EXCEPT !.category = "necklace", !.metal = "rose_gold", !.gemstone = "topaz",
                 !.bytes = 8, !.engraving = 7, !.characters = 5]

\* Three bodies that are fine, without a text, with a long one and with one
\* of two accented letters, one the database refuses, one for each layer's
\* check.
MCBodies ==
    {Ring, Engraved, Accented, [Ring EXCEPT !.quantity = 11], [Ring EXCEPT !.quantity = 0],
     [Engraved EXCEPT !.metal = "tin"]}

Symmetry == Permutations(MCRequests)
=============================================================================
