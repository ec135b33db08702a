---------------------------- MODULE CancelToken ----------------------------
(***************************************************************************)
(* @esfx/canceltoken: sources, tokens, and tokens linked to others.        *)
(*                                                                         *)
(* Everything runs on one thread, but cancel() calls its subscribers, and  *)
(* a subscriber may call anything again.  `calls` is the call stack, the   *)
(* innermost call last: a frame holds the callbacks that a cancel() or     *)
(* subscribe() has still to call, and tells whether one of them, code of   *)
(* the program, runs right now.                                            *)
(*                                                                         *)
(* The lists of listeners are the linked lists that a WaitQueue is made    *)
(* of, with listeners as their entries.                                    *)
(***************************************************************************)
EXTENDS WaitQueue

CONSTANTS
    Roots,      \* the tokens of CancelToken.source()
    Linked,     \* the tokens of source(signals), race(signals) and all(signals)
    Kind,       \* Kind[t]: which of the three
    Signals,    \* Signals[t]: the tokens t is linked to, in order
    Callbacks   \* the program's callbacks, each for one subscribe()

Tokens == Roots \cup Linked
Links == {<<t, i>> : t \in Linked, i \in 1 .. 3}
Listeners == Callbacks \cup Links

ASSUME LinksAssumption ==
    /\ Roots \cap Linked = {}
    /\ Kind \in [Linked -> {"source", "race", "all"}]
    /\ \A t \in Linked : Signals[t] \in Seq(Tokens) /\ Len(Signals[t]) \in 1 .. 3
    /\ Callbacks \cap {<<t, i>> : t \in Tokens, i \in 1 .. 3} = {}

VARIABLES
    _state,         \* _state[t]: of its CancelState, "absent" before t is created
    _links,         \* the linked tokens that still have their CancelLinks
    _subscriptions, \* _subscriptions[t]: the listeners of t, oldest first
    arrived,        \* the <<t, i>> whose onSignaled() has run in all()
    timers,         \* the tokens with a pending cancelAfter()
    calls,          \* the call stack
    subscribed,     \* subscribed[c]: what became of the subscribe() of c
    ran,            \* ran[c]: how often c has been called
    late            \* history: the tokens that a timer signaled though they were closed

vars == <<_state, _links, _subscriptions, arrived, timers, calls, subscribed, ran, late>>

Unborn == [token |-> "none", how |-> "not yet"]

Init == /\ _state = [t \in Tokens |-> IF t \in Roots THEN "unsignaled" ELSE "absent"]
        /\ _links = {} /\ arrived = {} /\ timers = {}
        /\ _subscriptions = [t \in Tokens |-> <<>>]
        /\ calls = <<>>
        /\ subscribed = [c \in Callbacks |-> Unborn]
        /\ ran = [c \in Callbacks |-> 0]
        /\ late = {}

-----------------------------------------------------------------------------
Each(t) == {Signals[t][i] : i \in DOMAIN Signals[t]}

\* What the tokens show if their own states are `own`, and those of `linked` still have
\* their links (getLinkedState).
Shown(own, linked) ==
    LET shown[t \in Tokens] ==
            IF t \notin linked THEN own[t]
            ELSE LET signaled == {s \in Each(t) : shown[s] = "signaled"}
                     open == {s \in Each(t) : shown[s] # "closed"}
                     done == IF Kind[t] = "all" THEN signaled = Each(t) ELSE signaled # {}
                 IN IF done THEN "signaled" ELSE IF open # {} THEN "unsignaled" ELSE "closed"
    IN shown

\* CancelState.state: until a linked token is settled it shows what its links do.
state == Shown(_state, _links)

\* The innermost call goes through its listeners; else the program runs, at the top
\* level or in a callback.
Innermost == calls[Len(calls)]
Calling == calls # <<>> /\ ~Innermost.program
InProgram == ~Calling

Frame(listeners) == [todo |-> listeners, program |-> FALSE]

Enter(listeners, stack) == IF listeners = <<>> THEN stack ELSE Append(stack, Frame(listeners))

\* Mutant of Unlinked: the listeners stay with the tokens t was linked to.
StillLinked(t) == _subscriptions

\* The subscriptions after links.unlink() of t, which has at most three.  A listener that
\* a cancel() has already collected is not in a list any more and will be called all the
\* same.
Unlinked(t) ==
    [s \in Tokens |->
        Removed(Removed(Removed(_subscriptions[s], <<t, 1>>), <<t, 2>>), <<t, 3>>)]

\* Mutant of Settle: the timers go on.
SettleUntimed(t, s) ==
    /\ _state[t] = "unsignaled"
    /\ _state' = [_state EXCEPT ![t] = s]
    /\ _links' = _links \ {t}
    /\ UNCHANGED timers
    /\ _subscriptions' = [Unlinked(t) EXCEPT ![t] = <<>>]

\* Mutant of Settle: whatever the state is.
SettleAgain(t, s) ==
    /\ _state' = [_state EXCEPT ![t] = s]
    /\ _links' = _links \ {t}
    /\ timers' = timers \ {t}
    /\ _subscriptions' = [Unlinked(t) EXCEPT ![t] = <<>>]

\* What CancelState.cancel() and close() have in common.
Settle(t, s) ==
    /\ _state[t] = "unsignaled"
    /\ _state' = [_state EXCEPT ![t] = s]
    /\ _links' = _links \ {t}
    /\ timers' = timers \ {t}
    /\ _subscriptions' = [Unlinked(t) EXCEPT ![t] = <<>>]

\* CancelState.cancel() of an unsignaled t, called where `stack` is the call stack:
\* the listeners are collected now, and called one by one.
Signal(t, stack) ==
    /\ Settle(t, "signaled")
    /\ calls' = Enter(_subscriptions[t], stack)

-----------------------------------------------------------------------------
\* The tokens whose source the program has.
WithSource == Roots \cup {t \in Linked : Kind[t] = "source"}

\* CancelSource.cancel()
Cancel(t) ==
    /\ InProgram
    /\ t \in WithSource /\ state[t] = "unsignaled"
    /\ Signal(t, calls)
    /\ UNCHANGED <<arrived, subscribed, ran, late>>

\* CancelSource.cancelAfter()
CancelAfter(t) ==
    /\ InProgram
    /\ t \in WithSource /\ state[t] = "unsignaled"
    /\ timers' = timers \cup {t}
    /\ UNCHANGED <<_state, _links, _subscriptions, arrived, calls, subscribed, ran, late>>

\* The timer of cancelAfter() is due.  It does not ask what the links say.
Expire(t) ==
    /\ calls = <<>> /\ t \in timers
    /\ Signal(t, calls)
    /\ late' = IF state[t] = "closed" THEN late \cup {t} ELSE late
    /\ UNCHANGED <<arrived, subscribed, ran>>

\* CancelSource.close()
Close(t) ==
    /\ InProgram
    /\ t \in WithSource
    /\ Settle(t, "closed")
    /\ UNCHANGED <<arrived, calls, subscribed, ran, late>>

\* source(signals), race(signals), all(signals).  Signals that are already signaled
\* count at once; closed ones hand out a subscription that does nothing.
Create(t) ==
    LET n == DOMAIN Signals[t]
        on == {i \in n : state[Signals[t][i]] = "signaled"}
        settled == IF Kind[t] = "all" THEN on = n ELSE on # {}
        waits == {i \in n : state[Signals[t][i]] = "unsignaled"}
        Link(s, i) == IF i \in waits /\ Signals[t][i] = s THEN <<<<t, i>>>> ELSE <<>>
        Become(s, linked) == /\ _state' = [_state EXCEPT ![t] = s]
                             /\ _links' = IF linked THEN _links \cup {t} ELSE _links
    IN /\ InProgram
       /\ t \in Linked /\ _state[t] = "absent"
       /\ \A s \in Each(t) : _state[s] # "absent"
       /\ \/ /\ \A s \in Each(t) : state[s] = "closed"
             /\ Become(IF Kind[t] = "source" THEN "unsignaled" ELSE "closed", FALSE)
             /\ UNCHANGED <<_subscriptions, arrived>>
          \/ /\ \E s \in Each(t) : state[s] # "closed"
             /\ settled
             /\ Become("signaled", FALSE)
             /\ UNCHANGED <<_subscriptions, arrived>>
          \/ /\ \E s \in Each(t) : state[s] # "closed"
             /\ ~settled
             /\ Become("unsignaled", TRUE)
             /\ arrived' = arrived \cup {<<t, i>> : i \in on}
             /\ _subscriptions' = [s \in Tokens |->
                                    _subscriptions[s] \o Link(s, 1) \o Link(s, 2) \o Link(s, 3)]
       /\ UNCHANGED <<timers, calls, subscribed, ran, late>>

\* token.subscribe(c): a listener, or a call right away, or nothing ever.
Subscribe(c, t) ==
    /\ InProgram
    /\ subscribed[c] = Unborn /\ _state[t] # "absent"
    /\ LET How(how) == subscribed' = [subscribed EXCEPT ![c] = [token |-> t, how |-> how]]
       IN \/ /\ state[t] = "unsignaled" /\ How("listed")
             /\ _subscriptions' = [_subscriptions EXCEPT ![t] = Enqueued(@, c)]
             /\ UNCHANGED calls
          \/ /\ state[t] = "signaled" /\ How("at once")
             /\ calls' = Enter(<<c>>, calls)
             /\ UNCHANGED _subscriptions
          \/ /\ state[t] = "closed" /\ How("ignored")
             /\ UNCHANGED <<calls, _subscriptions>>
    /\ UNCHANGED <<_state, _links, arrived, timers, ran, late>>

\* subscription.unsubscribe(), which does nothing once c has been collected.
Unsubscribe(c) ==
    /\ InProgram
    /\ subscribed[c].how = "listed"
    /\ LET t == subscribed[c].token
       IN /\ c \in Waiting(_subscriptions[t])
          /\ _subscriptions' = [_subscriptions EXCEPT ![t] = Canceled(@, c)]
    /\ subscribed' = [subscribed EXCEPT ![c].how = "withdrawn"]
    /\ UNCHANGED <<_state, _links, arrived, timers, calls, ran, late>>

-----------------------------------------------------------------------------
\* The call stack when the next listener has been taken.
Rest(program) ==
    [calls EXCEPT ![Len(calls)] = [todo |-> Tail(Innermost.todo), program |-> program]]

IsNext(l) == Calling /\ Innermost.todo # <<>> /\ Head(Innermost.todo) = l

\* The innermost cancel() or subscribe() calls a callback of the program.
CallBack(c) ==
    /\ IsNext(c)
    /\ calls' = Rest(TRUE)
    /\ ran' = [ran EXCEPT ![c] = @ + 1]
    /\ UNCHANGED <<_state, _links, _subscriptions, arrived, timers, subscribed, late>>

\* Mutant of Completes: the signal that arrives is not counted.
CompletesLate(t, i) ==
    Kind[t] = "all" => \A j \in DOMAIN Signals[t] : <<t, j>> \in arrived

\* onSignaled() of the i-th signal of t: does it cancel t?
Completes(t, i) ==
    Kind[t] = "all" => \A j \in DOMAIN Signals[t] : j = i \/ <<t, j>> \in arrived

\* It calls an onSignaled() of a linked token.
CallLink(t, i) ==
    /\ IsNext(<<t, i>>)
    /\ arrived' = IF Kind[t] = "all" THEN arrived \cup {<<t, i>>} ELSE arrived
    /\ IF Completes(t, i) /\ _state[t] = "unsignaled" THEN Signal(t, Rest(FALSE))
       ELSE calls' = Rest(FALSE) /\ UNCHANGED <<_state, _links, _subscriptions, timers>>
    /\ UNCHANGED <<subscribed, ran, late>>

\* The callback returns or throws; the rest are called in any case.
CallbackEnds ==
    /\ calls # <<>> /\ Innermost.program
    /\ calls' = [calls EXCEPT ![Len(calls)] = Frame(Innermost.todo)]
    /\ UNCHANGED <<_state, _links, _subscriptions, arrived, timers, subscribed, ran, late>>

\* cancel() or subscribe() returns to its caller.
Return ==
    /\ Calling /\ Innermost.todo = <<>>
    /\ calls' = SubSeq(calls, 1, Len(calls) - 1)
    /\ UNCHANGED <<_state, _links, _subscriptions, arrived, timers, subscribed, ran, late>>

Next == \/ \E t \in Tokens : Cancel(t) \/ CancelAfter(t) \/ Expire(t) \/ Close(t)
        \/ \E t \in Linked : Create(t) \/ \E i \in DOMAIN Signals[t] : CallLink(t, i)
        \/ \E c \in Callbacks : CallBack(c) \/ Unsubscribe(c)
        \/ \E c \in Callbacks, t \in Tokens : Subscribe(c, t)
        \/ CallbackEnds \/ Return

Spec == Init /\ [][Next]_vars

-----------------------------------------------------------------------------
\* The types; a linked token has its links exactly while it listens to them.
TypeOK ==
    /\ _state \in [Tokens -> {"absent", "unsignaled", "signaled", "closed"}]
    /\ _links \subseteq {t \in Linked : _state[t] = "unsignaled"}
    /\ \A t \in Tokens : _subscriptions[t] \in Seq(Listeners)
    /\ timers \subseteq {t \in Tokens : _state[t] = "unsignaled"}
    /\ arrived \subseteq Listeners \ Callbacks
    /\ \A k \in DOMAIN calls : calls[k].todo \in Seq(Listeners) /\ calls[k].program \in BOOLEAN
    /\ ran \in [Callbacks -> 0 .. 1]

\* A callback is called once if it was in the list of a token that was signaled,
\* once if it was subscribed to a signaled one, and else never: whatever callbacks
\* cancel, close, create or subscribe in the meantime (cancel(), subscribe()).
CalledOnce ==
    \A c \in Callbacks :
       LET s == subscribed[c] IN
       /\ s.how \in {"not yet", "ignored", "withdrawn"} => ran[c] = 0
       /\ calls = <<>> /\ s.how = "at once" => ran[c] = 1
       /\ calls = <<>> /\ s.how = "listed" => (ran[c] = 1 <=> _state[s.token] = "signaled")

\* No token keeps a listener of a linked token that is settled: a long-lived root
\* does not collect the linked tokens of finished work (unlink()).
SettledAreUnlinked ==
    \A s \in Tokens : \A k \in DOMAIN _subscriptions[s] :
       LET l == _subscriptions[s][k] IN
       l \notin Callbacks => l[1] \in _links /\ _state[s] = "unsignaled"

\* The tokens that are not late, nor linked to a late one, however many links away.
Timely == UNION {D \in SUBSET (Tokens \ late) : \A t \in D \cap Linked : Each(t) \subseteq D}

\* When no callback is under way a linked token has caught up with its signals: it
\* does not only report that it is signaled, it has told its own listeners.  Unless it
\* is linked to a source that a timer signaled after its links had closed it: who asked
\* such a source for a subscription got one that does nothing (cancelAfter()).
LinksCaughtUp ==
    calls = <<>> =>
        \A t \in Tokens : (state[t] = "signaled" <=> _state[t] = "signaled") \/ t \notin Timely

\* A source that nobody canceled or closed can be canceled: "you can individually
\* cancel or close the resulting source" (remarks of CancelToken.source).
OpenSourceCanBeSignaled ==
    \A t \in Tokens : _state[t] = "unsignaled" /\ t \in WithSource => state[t] # "closed"
=============================================================================
