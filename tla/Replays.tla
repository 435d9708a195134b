-------------------------------- MODULE Replays --------------------------------
(***************************************************************************)
(* Sessions with a record of what may later look like the replay of a      *)
(* stolen token: RefreshAccessToken takes every second presentation of a   *)
(* token for one, and ends all the sessions of its user.                   *)
(***************************************************************************)
EXTENDS Sessions

VARIABLE
    doubtful        \* history: tokens presented by two requests at once, or by
                    \* one that failed or whose answer was lost

replayVars == <<vars, doubtful>>

\* Two requests under way present t.
Shared(t) ==
    \E s1, s2 \in Slots : s1 # s2 /\ job[s1].cookie = t /\ job[s2].cookie = t

\* The present step is a fault, and it hits a request that presents t.
Hit(t) == faults' # faults /\ \E s \in Slots : job[s].cookie = t /\ pc'[s] # pc[s]

\* Keeps doubtful true, after every step.
Record == doubtful' = doubtful \cup {t \in Tokens : Shared(t)' \/ Hit(t)}

ReplayInit == Init /\ doubtful = {}
ReplayNext == Next /\ Record
ReplaySpec == ReplayInit /\ [][ReplayNext]_replayVars

-----------------------------------------------------------------------------

\* "A second presentation is not something normal operation produces on its
\* own" (RefreshAccessToken).  Two tabs that refresh at once do produce one,
\* and so does a lost answer.  But nothing else does: whoever is logged out
\* everywhere as the victim of a theft had, himself, a token that went out
\* twice at once or whose request failed.  What other users do, answers that
\* come out of order and a login next to a refresh are not enough.
AlarmsHaveACause ==
    \A s \in Slots : pc[s] = "revokeAll" =>
        \E t \in doubtful : owner[t] = job[s].user
=============================================================================
