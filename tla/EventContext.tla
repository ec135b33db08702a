---------------------------- MODULE EventContext ----------------------------
(***************************************************************************)
(* @esfx/events: the listeners of one event.  Listeners are client code:   *)
(* while emit() calls one, every other call may come, emit() too.          *)
(***************************************************************************)
EXTENDS SequencesExt, Integers

CONSTANTS
    Functions,      \* the functions that clients subscribe
    MaxWraps,       \* bound: listeners that subscribe() and once() wrap
    MaxEmits        \* bound: calls of emit() inside one another

VARIABLES
    form,       \* _list is "undefined", one "function" or an "array"
    list,       \* its entries
    wraps,      \* wraps[i]: the i-th wrapped listener, [fn, once, token]
    done,       \* the wrapped listeners of once() whose `done` is set
    emits,      \* the calls of emit() under way, innermost last: the listener that runs
                \* and those still to be called
    calls       \* history: calls[i]: how often wrap i has called its function

eventVars == <<form, list, wraps, done, emits, calls>>

\* An entry is a function that was added as it is, or the number of a wrap.
Wraps == 1 .. MaxWraps
Unwrapped(f) == [fn |-> f, wrap |-> 0]

Init == /\ form = "undefined" /\ list = <<>>
        /\ wraps = <<>> /\ done = {}
        /\ emits = <<>>
        /\ calls = [i \in Wraps |-> 0]

-----------------------------------------------------------------------------
\* addListener: one listener is stored by itself, more in an array.
AddListener(e) ==
    /\ form' = IF form = "undefined" THEN "function" ELSE "array"
    /\ list' = Append(list, e)

\* prependListener: the first listener is stored in an array at once.
PrependListener(e) ==
    /\ form' = "array"
    /\ list' = <<e>> \o list

Insert(e) == AddListener(e) \/ PrependListener(e)

\* A client subscribes a function once at a time.
Fresh(f) == \A n \in DOMAIN list : list[n].fn # f

\* on(f), addListener(f), prependListener(f)
On(f) == /\ Fresh(f)
         /\ Insert(Unwrapped(f))
         /\ UNCHANGED <<wraps, done, emits, calls>>

\* createListenerWrap
Wrap(f, once, token) ==
    /\ Len(wraps) < MaxWraps
    /\ wraps' = Append(wraps, [fn |-> f, once |-> once, token |-> token])
    /\ Insert([fn |-> f, wrap |-> Len(wraps) + 1])

\* subscribe(f, { once, prepend }): its subscription knows the wrap by a token.
Subscribe(f, once) == /\ Fresh(f) /\ Wrap(f, once, TRUE)
                      /\ UNCHANGED <<done, emits, calls>>

\* once(f), prependOnceListener(f)
Once(f) == /\ Fresh(f) /\ Wrap(f, TRUE, FALSE)
           /\ UNCHANGED <<done, emits, calls>>

\* _removeListener: the first entry that matches goes.
Removed(match) ==
    LET found == {n \in DOMAIN list : match[n]}
        first == CHOOSE n \in found : \A m \in found : n <= m
    IN IF found = {} THEN list ELSE RemoveAt(list, first)

\* The single function goes and leaves nothing; an array becomes a function when one
\* entry is left, but stays an array when none is.
RemoveListener(match) ==
    /\ list' = Removed(match)
    /\ form' = IF list' = list THEN form
               ELSE IF form = "function" THEN "undefined"
               ELSE IF Len(list') = 1 THEN "function" ELSE form

Off(f) == /\ RemoveListener([n \in DOMAIN list |-> list[n].fn = f])
          /\ UNCHANGED <<wraps, done, emits, calls>>

\* subscription[Disposable.dispose](), which looks for the token of wrap i.
Unsubscribe(i) ==
    /\ i \in DOMAIN wraps /\ wraps[i].token
    /\ RemoveListener([n \in DOMAIN list |-> list[n].wrap = i])
    /\ UNCHANGED <<wraps, done, emits, calls>>

RemoveAllListeners ==
    /\ form' = "undefined" /\ list' = <<>>
    /\ UNCHANGED <<wraps, done, emits, calls>>

-----------------------------------------------------------------------------
\* Mutant of CallOnce: the listener is removed and marked after it has run.
CallOnceUnmarked(e) ==
    /\ RemoveListener([n \in DOMAIN list |-> list[n].fn = e.fn])
    /\ calls' = [calls EXCEPT ![e.wrap] = @ + 1]
    /\ UNCHANGED done

\* onceListener: the first call marks it, takes a listener of the same function out of
\* the list and calls the function; later calls do nothing.
CallOnce(e) ==
    IF e.wrap \in done THEN UNCHANGED <<form, list, done, calls>>
    ELSE /\ done' = done \cup {e.wrap}
         /\ RemoveListener([n \in DOMAIN list |-> list[n].fn = e.fn])
         /\ calls' = [calls EXCEPT ![e.wrap] = @ + 1]

IsOnce(e) == e.wrap # 0 /\ wraps[e.wrap].once

Call(e) == \/ IsOnce(e) /\ CallOnce(e)
           \/ ~IsOnce(e) /\ UNCHANGED <<form, list, done, calls>>

\* emit() calls the listeners of a copy of the list, and returns form # "undefined".
Emit ==
    /\ Len(emits) < MaxEmits
    /\ \/ list = <<>> /\ UNCHANGED <<form, list, done, emits, calls>>
       \/ /\ list # <<>>
          /\ emits' = Append(emits, list)
          /\ Call(Head(list))
    /\ UNCHANGED wraps

Innermost == emits[Len(emits)]

\* The listener that runs returns, and the next one is called ...
CallNext ==
    /\ emits # <<>> /\ Len(Innermost) > 1
    /\ emits' = [emits EXCEPT ![Len(emits)] = Tail(@)]
    /\ Call(Innermost[2])
    /\ UNCHANGED wraps

\* ... or it was the last and emit() returns, or it throws and emit() with it.
EmitEnds ==
    /\ emits # <<>>
    /\ emits' = Front(emits)
    /\ UNCHANGED <<form, list, wraps, done, calls>>

-----------------------------------------------------------------------------
Next == \/ \E f \in Functions : On(f) \/ Once(f) \/ Off(f)
                                \/ \E once \in BOOLEAN : Subscribe(f, once)
        \/ \E i \in Wraps : Unsubscribe(i)
        \/ RemoveAllListeners \/ Emit \/ CallNext \/ EmitEnds

Spec == Init /\ [][Next]_eventVars

-----------------------------------------------------------------------------
TypeOK == /\ form = "undefined" => list = <<>>
          /\ form = "function" => Len(list) = 1
          /\ \A n \in DOMAIN list : list[n].fn \in Functions /\ list[n].wrap \in 0 .. Len(wraps)
          /\ done \subseteq DOMAIN wraps

\* A listener of once() runs at most once and is out of the list from then on, though
\* emit() is called out of listeners and goes through copies of older lists.
OnceIsOnce == /\ \A i \in Wraps : calls[i] <= 1
              /\ \A n \in DOMAIN list : list[n].wrap \notin done
=============================================================================
