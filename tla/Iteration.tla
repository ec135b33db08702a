----------------------------- MODULE Iteration -----------------------------
(***************************************************************************)
(* How the generators of a chain of calls run: the consumer asks the last  *)
(* one for values, each reads the one before it, and the first one reads   *)
(* the input.  A call may read another iterable too, its right.  The       *)
(* protocol is that of for-of statements and of generator objects: a       *)
(* source is opened when it is first read, and closed when it is left      *)
(* before its end, because the body ends, throws or is told to return().   *)
(* An async generator keeps the requests that come while it runs, and      *)
(* answers them in order; a generator has one request at most.             *)
(***************************************************************************)
EXTENDS IterSteps

CONSTANTS Calls,               \* the chains of calls with their input
          Command(_, _, _),    \* what a call does: the call, its locals, an event
          ReturnsValue(_),     \* whether a call returns a value and no iterable
          CallsBack(_),        \* whether a call has a callback, which may throw
          LeavesOpen(_, _),    \* whether a call leaves its source open: the call, its locals
          OpensBoth(_),        \* whether a call opens both its sources before it reads one
          Eager(_),            \* whether a call reads its source when it is made
          MaxRequests(_),      \* bound on the requests a chain has at a time: 1 for a generator
          MaxOut               \* bound on the values the consumer asks for

VARIABLES call,       \* the chain: calls with method, args and right, and the input
          stage,      \* each call's generator object
          requests,   \* what the consumer has asked the last one for
          got,        \* the values that it got
          outcome     \* how its iteration ended

vars == <<call, stage, requests, got, outcome>>

Top == Len(call.chain)

NewStage == [state |-> "new", local |-> Local, out |-> <<>>, from |-> 0, fresh |-> FALSE,
             source |-> [s \in 1 .. 2 |-> "unread"], read |-> [s \in 1 .. 2 |-> 0]]

Init == /\ call \in Calls
        /\ stage = [k \in DOMAIN call.chain |-> NewStage]
        /\ requests = <<>>
        /\ got = <<>>
        /\ outcome = "open"

SourceStates == {"unread", "open", "ended", "closed", "threw"}

TypeOK == /\ call \in Calls
          /\ \A k \in DOMAIN stage :
                /\ stage[k].state \in {"new", "running", "waiting", "yielded", "done", "threw"}
                /\ stage[k].source \in [1 .. 2 -> SourceStates]
                /\ stage[k].from \in {Again, 0, 1, 2}
          /\ Cardinality({k \in DOMAIN stage : stage[k].state = "running"}) <= 1
          /\ \A k \in DOMAIN stage : stage[k].state = "waiting" =>
                k > 1 /\ stage[k - 1].state \in {"running", "waiting"}
          /\ Len(requests) <= MaxRequests(call)
          /\ outcome \in {"open", "done", "left", "threw"}

-----------------------------------------------------------------------------
Call(k) == call.chain[k]

Answered(k, st, e) ==
    LET c == Command(Call(k), st.local, e)
    IN [st EXCEPT !.state = "running", !.local = c.local, !.out = c.out, !.from = c.from,
                  !.fresh = e.on = "value" /\ e.src > 0]

\* The locals do not matter any more once a body has ended.
Shut(k, st, state, leftOpen) ==
    [st EXCEPT !.state = state, !.local = Local, !.out = <<>>, !.from = 0, !.fresh = FALSE,
               !.source = [s \in 1 .. 2 |->
                   IF \/ @[s] = "open" /\ ~leftOpen
                      \/ @[s] = "unread" /\ st.state # "new" /\ OpensBoth(Call(k))
                   THEN "closed" ELSE @[s]]]

KeepsOpen(k) == LeavesOpen(Call(k), stage[k].local)

\* The body of call k ends.  A source that it closes is a call below, suspended at a
\* yield: return() ends that body too.
Closing(k, state) ==
    [j \in DOMAIN stage |->
        CASE j = k -> Shut(j, stage[j], state, KeepsOpen(j))
          [] j < k /\ stage[j].state = "yielded" /\ ~(\E i \in j + 1 .. k : KeepsOpen(i)) ->
                Shut(j, stage[j], "done", KeepsOpen(j))
          [] OTHER -> stage[j]]

\* Mutant of Thrown: the body that throws does not close what it iterates.
ThrowingOpen(k) ==
    [j \in DOMAIN stage |-> IF j >= k THEN [stage[j] EXCEPT !.state = "threw"] ELSE stage[j]]

\* An error leaves call k and all above, which wait for it.
Thrown(k) ==
    [j \in DOMAIN stage |-> IF j > k THEN Shut(j, [stage[j] EXCEPT !.source[1] = "threw"], "threw",
                                               KeepsOpen(j))
                            ELSE Closing(k, "threw")[j]]

Fail(stages) == /\ stage' = stages
                /\ outcome' = "threw"
                /\ requests' = <<>>
                /\ UNCHANGED <<call, got>>

-----------------------------------------------------------------------------
Running(k) == stage[k].state = "running"
Idle == \A k \in DOMAIN stage : ~Running(k)

\* Somebody waits for what call k yields: it has not been called to be made only.
Asked(k) == IF k = Top THEN requests # <<>> ELSE stage[k + 1].state = "waiting"

Unmade == {k \in DOMAIN stage : Eager(Call(k)) /\ stage[k].state = "new"}
Making == \E k \in DOMAIN stage : stage[k].state \in {"running", "waiting"} /\ requests = <<>>

\* iterator.next() or iterator.return(); a function that returns a value is called once.
Request(what) ==
    /\ outcome = "open"
    /\ Len(requests) < MaxRequests(call)
    /\ Len(got) + Len(requests) < MaxOut
    /\ ~Contains(requests, "return")
    /\ Unmade = {} /\ ~Making
    /\ IF ReturnsValue(Call(Top)) THEN what = "next" /\ requests = <<>> ELSE TRUE
    /\ requests' = Append(requests, what)
    /\ UNCHANGED <<call, stage, got, outcome>>

\* Runs from the start, or from the yield where it stands.
Resumed(k) == IF stage[k].state = "new" THEN Answered(k, stage[k], Start)
              ELSE [stage[k] EXCEPT !.state = "running", !.fresh = FALSE]

\* The chain is built from the first call on; one that is eager reads its source.
Make(k) ==
    /\ outcome = "open" /\ ~Making
    /\ Unmade # {} /\ k = Min(Unmade)
    /\ stage' = [stage EXCEPT ![k] = Resumed(k)]
    /\ UNCHANGED <<call, requests, got, outcome>>

Made(k) ==
    /\ Running(k) /\ Eager(Call(k)) /\ stage[k].from = 0 /\ ~Asked(k)
    /\ stage' = [stage EXCEPT ![k].state = "yielded", ![k].fresh = FALSE]
    /\ UNCHANGED <<call, requests, got, outcome>>

Serve ==
    /\ outcome = "open" /\ Idle
    /\ requests # <<>> /\ requests[1] = "next"
    /\ stage' = [stage EXCEPT ![Top] = Resumed(Top)]
    /\ UNCHANGED <<call, requests, got, outcome>>

Leave ==
    /\ outcome = "open" /\ Idle
    /\ requests # <<>> /\ requests[1] = "return"
    /\ stage' = Closing(Top, "done")
    /\ requests' = <<>>
    /\ outcome' = "left"
    /\ UNCHANGED <<call, got>>

Reads(k, s) == Running(k) /\ stage[k].out = <<>> /\ stage[k].from = s

\* The right is an iterable of its own, and so is the input.
Elements(k, s) == IF s = 2 THEN call.chain[k].right ELSE call.input

Pull(k, s) ==
    /\ Reads(k, s) /\ (s = 2 \/ k = 1)
    /\ LET n == stage[k].read[s] + 1
           more == n <= Len(Elements(k, s))
           st == [stage[k] EXCEPT !.read[s] = IF more THEN n ELSE @,
                                  !.source[s] = IF more THEN "open" ELSE "ended"]
       IN stage' = [stage EXCEPT ![k] = Answered(k, st, IF more THEN Got(s, Elements(k, s)[n])
                                                         ELSE Ended(s))]
    /\ UNCHANGED <<call, requests, got, outcome>>

\* The call before is asked.
PullBefore(k) ==
    /\ Reads(k, 1) /\ k > 1
    /\ stage' = [stage EXCEPT ![k].state = "waiting", ![k].source[1] = "open",
                              ![k - 1] = Resumed(k - 1)]
    /\ UNCHANGED <<call, requests, got, outcome>>

SourceThrows(k, s) ==
    /\ Reads(k, s) /\ (s = 2 \/ k = 1)
    /\ Fail([Thrown(k) EXCEPT ![k].source[s] = "threw"])

\* A callback is called with an element that has just been read.
CallbackThrows(k) ==
    /\ Running(k) /\ stage[k].fresh /\ CallsBack(Call(k))
    /\ Fail(Thrown(k))

RunOn(k) ==
    /\ Reads(k, Again)
    /\ stage' = [stage EXCEPT ![k] = Answered(k, stage[k], Got(0, 0))]
    /\ UNCHANGED <<call, requests, got, outcome>>

\* yield: what it yields comes to the call above, or to the consumer.
Yield(k) ==
    /\ Running(k) /\ stage[k].out # <<>> /\ ~ReturnsValue(Call(k)) /\ Asked(k)
    /\ LET value == stage[k].out[1]
           below == [stage EXCEPT ![k].state = "yielded", ![k].out = Tail(@), ![k].fresh = FALSE]
       IN IF k = Top
          THEN /\ stage' = below
               /\ got' = Append(got, value)
               /\ requests' = Tail(requests)
          ELSE /\ stage' = [below EXCEPT ![k + 1] =
                               Answered(k + 1, [@ EXCEPT !.read[1] = @ + 1], Got(1, value))]
               /\ UNCHANGED <<got, requests>>
    /\ UNCHANGED <<call, outcome>>

\* The end of the body; the value of a function is there when its sources are closed.
End(k) ==
    /\ Running(k) /\ stage[k].from = 0 /\ Asked(k)
    /\ stage[k].out = <<>> \/ ReturnsValue(Call(k))
    /\ IF k = Top
       THEN /\ stage' = Closing(k, "done")
            /\ got' = got \o stage[k].out
            /\ requests' = <<>>
            /\ outcome' = "done"
       ELSE /\ stage' = [Closing(k, "done") EXCEPT ![k + 1] =
                            Answered(k + 1, [@ EXCEPT !.source[1] = "ended"], Ended(1))]
            /\ UNCHANGED <<got, requests, outcome>>
    /\ UNCHANGED call

Next == \/ \E what \in {"next", "return"} : Request(what)
        \/ Serve
        \/ Leave
        \/ \E k \in DOMAIN stage :
              \/ \E s \in 1 .. 2 : Pull(k, s) \/ SourceThrows(k, s)
              \/ Make(k) \/ Made(k)
              \/ PullBefore(k)
              \/ CallbackThrows(k)
              \/ RunOn(k)
              \/ Yield(k)
              \/ End(k)

Spec == Init /\ [][Next]_vars
=============================================================================
