----------------------------- MODULE MCRateLimiter -----------------------------
(***************************************************************************)
(* Instances of RateLimiter for TLC.                                       *)
(***************************************************************************)
EXTENDS RateLimiter, TLC

CONSTANTS ip1, ip2

MCOneIP == {ip1}
MCTwoIPs == {ip1, ip2}

Symmetry == Permutations(IPs)
=============================================================================
