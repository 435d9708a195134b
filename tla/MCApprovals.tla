------------------------------ MODULE MCApprovals ------------------------------
(***************************************************************************)
(* Instances of Approvals for TLC.                                         *)
(***************************************************************************)
EXTENDS Approvals, TLC

CONSTANTS o1, o2, a1, r1, r2, r3

MCOrders == {o1, o2}
MCOneOrder == {o1}
MCAdmins == {a1}
MCRequests == {r1, r2, r3}
MCTwoRequests == {r1, r2}
MCPhoneOrders == {o1}

Symmetry == Permutations(MCRequests)
=============================================================================
