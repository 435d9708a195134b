------------------------------- MODULE MCDelivery -------------------------------
(***************************************************************************)
(* Instances of Delivery for TLC: two orders, the customer of one of them  *)
(* has a phone number.                                                     *)
(***************************************************************************)
EXTENDS Delivery

CONSTANTS o1, o2, a1, r1, r2

MCOrders == {o1, o2}
MCPhoneOrders == {o1}
MCAdmins == {a1}
MCRequests == {r1, r2}
=============================================================================
