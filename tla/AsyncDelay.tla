----------------------------- MODULE AsyncDelay -----------------------------
(***************************************************************************)
(* @esfx/async-delay: a promise that a timer fulfills, unless a cancelable *)
(* is signaled first.  The timer's callback and the signal race.           *)
(***************************************************************************)
CONSTANT Delays     \* the calls of delay(), which may share one cancelable

VARIABLES
    signaled,       \* the cancelable is signaled
    timers,         \* the delays whose timeout is set
    subscriptions,  \* the delays that are subscribed to the cancelable
    notified,       \* those it has still to call back
    promise         \* promise[d]: "none", "pending", "fulfilled" or "rejected"

delayVars == <<signaled, timers, subscriptions, notified, promise>>

Init == /\ signaled = FALSE
        /\ timers = {} /\ subscriptions = {} /\ notified = {}
        /\ promise = [d \in Delays |-> "none"]

Settle(d, outcome) == promise' = [promise EXCEPT ![d] = outcome]

\* delay(cancelable, msec, value); a signaled cancelable rejects it at once.
Delay(d) ==
    /\ promise[d] = "none"
    /\ IF signaled
       THEN Settle(d, "rejected") /\ UNCHANGED <<timers, subscriptions>>
       ELSE /\ Settle(d, "pending")
            /\ timers' = timers \cup {d}
            /\ subscriptions' = subscriptions \cup {d}
    /\ UNCHANGED <<signaled, notified>>

\* The timer's callback, a task of its own.
Fire(d) ==
    /\ d \in timers /\ notified = {}
    /\ timers' = timers \ {d}
    /\ subscriptions' = subscriptions \ {d}
    /\ Settle(d, "fulfilled")
    /\ UNCHANGED <<signaled, notified>>

\* The cancelable is signaled and calls its subscribers, one after the other.
Signal ==
    /\ ~signaled
    /\ signaled' = TRUE
    /\ notified' = subscriptions
    /\ subscriptions' = {}
    /\ UNCHANGED <<timers, promise>>

Cancel(d) ==
    /\ d \in notified
    /\ notified' = notified \ {d}
    /\ timers' = timers \ {d}
    /\ Settle(d, "rejected")
    /\ UNCHANGED <<signaled, subscriptions>>

Next == Signal \/ \E d \in Delays : Delay(d) \/ Fire(d) \/ Cancel(d)

Spec == Init /\ [][Next]_delayVars

TypeOK == promise \in [Delays -> {"none", "pending", "fulfilled", "rejected"}]

\* A delay that is over leaves neither a timer nor a subscription behind, and one that is
\* not has both: nothing is leaked and none is settled twice.
NothingLeft ==
    \A d \in Delays : /\ d \in timers <=> promise[d] = "pending"
                      /\ d \in subscriptions \cup notified <=> promise[d] = "pending"
=============================================================================
