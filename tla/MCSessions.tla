------------------------------- MODULE MCSessions -------------------------------
(***************************************************************************)
(* Instances of Sessions, with Replays, for TLC.                           *)
(***************************************************************************)
EXTENDS Replays, TLC

CONSTANTS u1, u2, b1, b2, s1, s2, t1, t2, t3, t4

MCNobody == {}
MCOneUser == {u1}
MCTwoUsers == {u1, u2}
MCOneBrowser == {b1}
MCTwoBrowsers == {b1, b2}
MCTwoSlots == {s1, s2}
MCFourTokens == {t1, t2, t3, t4}

Symmetry ==
    Permutations(Tokens) \cup Permutations(Slots) \cup Permutations(Browsers)
        \cup Permutations(Users)

\* The bound of the run sessions, its CONSTRAINT: tokens drawn, users signed up
\* and ticks passed are MaxEvents in all.
MaxEvents == 5
MCBudget ==
    LET drawn == {t \in Tokens : owner[t] # NONE}
        known == {u \in Users : role[u] # NONE}
    IN  Cardinality(drawn) + Cardinality(known) + now <= MaxEvents
=============================================================================
