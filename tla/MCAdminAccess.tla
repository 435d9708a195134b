----------------------------- MODULE MCAdminAccess -----------------------------
(***************************************************************************)
(* Instances of AdminAccess for TLC.                                       *)
(***************************************************************************)
EXTENDS AdminAccess, TLC

CONSTANTS u1, b1, s1, t1, t2, t3

MCUsers == {u1}
MCBrowsers == {b1}
MCSlots == {s1}
MCTokens == {t1, t2, t3}

Symmetry == Permutations(Tokens)
=============================================================================
