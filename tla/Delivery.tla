-------------------------------- MODULE Delivery --------------------------------
(***************************************************************************)
(* Approvals with the time its notifications take: the goroutine of        *)
(* dispatchNotification sends the email and then the SMS under one context *)
(* of 15 s, through HTTP clients that give up after 10 s each.             *)
(***************************************************************************)
EXTENDS Approvals

CONSTANTS
    Budget,         \* the context's 15 s
    ClientTimeout   \* http.Client.Timeout of either provider, 10 s

ASSUME DeliveryAssumption ==
    Budget \in Nat /\ ClientTimeout \in Nat /\ ClientTimeout < Budget

VARIABLES
    left,           \* left[r]: what is left of the context of r's goroutine
    spent,          \* spent[r]: how long its present send has taken
    tried           \* tried[r]: the sends of r's goroutine that came back and
                    \* began while its context was alive (a history variable)

timedVars == <<vars, left, spent, tried>>

TimersOK ==
    /\ left \in [Requests -> 0..Budget]
    /\ spent \in [Requests -> 0..Budget]
    /\ tried \in [Requests -> SUBSET {"email", "sms"}]

TimedInit ==
    /\ Init
    /\ left = [r \in Requests |-> 0]
    /\ spent = [r \in Requests |-> 0]
    /\ tried = [r \in Requests |-> {}]

\* The send over channel c came back, with or without an error: the
\* goroutine is past it and alive.
Tried(r, c) ==
    /\ notify[r] = c
    /\ notify'[r] \in {"sms", "finished"} \ {c}
    /\ left[r] + spent[r] > 0

\* The context is made when the goroutine starts; a send starts its own clock.
Timers ==
    /\ left' = [r \in Requests |->
                   IF notify[r] = "none" /\ notify'[r] = "render" THEN Budget ELSE left[r]]
    /\ spent' = [r \in Requests |-> IF notify'[r] = notify[r] THEN spent[r] ELSE 0]
    /\ tried' = [r \in Requests |-> tried[r] \cup {c \in {"email", "sms"} : Tried(r, c)}]

\* A send that starts with its context over does not reach the provider.
NothingSentLate ==
    \A r \in Requests : left[r] = 0 /\ spent[r] = 0 =>
        (r \in emails' \cup texts' => r \in emails \cup texts)

Timed(step) == step /\ Timers /\ NothingSentLate

\* mutant: an HTTP client without a timeout of its own.
OverAtLast(r) == notify[r] = "render" \/ left[r] = 0
\* r's goroutine does not wait any longer: rendering takes no time, a send
\* ends with the client's timeout or the context.
Over(r) == notify[r] = "render" \/ left[r] = 0 \/ spent[r] = ClientTimeout

Pass ==
    /\ \E r \in Requests : notify[r] \in Notifying
    /\ \A r \in Requests : notify[r] \in Notifying => ~Over(r)
    /\ left' = [r \in Requests |-> IF notify[r] \in Notifying THEN left[r] - 1 ELSE left[r]]
    /\ spent' = [r \in Requests |-> IF notify[r] \in Notifying THEN spent[r] + 1 ELSE spent[r]]
    /\ UNCHANGED <<vars, tried>>

TimedNext == Timed(Next) \/ Pass

TimedSpec == TimedInit /\ [][TimedNext]_timedVars

TimedFairSpec ==
    /\ TimedSpec
    /\ \A r \in Requests :
          WF_timedVars(Timed(RequestStep(r))) /\ WF_timedVars(Timed(NotifyStep(r)))

-----------------------------------------------------------------------------

\* However slow the email provider, the SMS starts with what the client's
\* timeout keeps of the shared context (5 s): a failed email does not take
\* the SMS with it.
SmsGetsItsTurn ==
    \A r \in Requests : notify[r] = "sms" =>
        left[r] + spent[r] >= Budget - ClientTimeout

\* Every channel by which the customer of r's order can be reached.
Channels(r) ==
    IF cmd[r] # NONE /\ cmd[r].order \in PhoneOrders THEN {"email", "sms"} ELSE {"email"}

\* A notification that ran to its end tried every channel while there was
\* time: a failed or slow email is logged and the SMS is sent all the same.
EveryChannelTried ==
    \A r \in Requests : notify[r] = "finished" => Channels(r) \subseteq tried[r]

\* Once an admin is answered 200, every channel is tried, unless the
\* goroutine gives up (the email cannot be rendered, the notifier panics) or
\* the process ends first: a crash, or a clean shutdown, which waits for
\* requests and not for this goroutine (main.go).  It is not started and
\* then forgotten, and not cut short by the failure of one channel.
OkIsFollowedUp ==
    \A r \in Requests :
        pc[r] = "ok" ~> \/ Channels(r) \subseteq tried[r]
                        \/ notify[r] \in {"aborted", "killed"}
=============================================================================
