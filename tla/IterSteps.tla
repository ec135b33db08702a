----------------------------- MODULE IterSteps -----------------------------
(***************************************************************************)
(* How a generator function of @esfx/iter-fn runs: it is given an event    *)
(* and answers with a command.  The events are the start of its body, and  *)
(* the answer of a source that it has called next() on.  A command holds   *)
(* what it yields, one value for each next() of its consumer, and the      *)
(* source that it reads after that; when it reads none, its body ends, and *)
(* leaving a for-of statement closes the source it has not read to the end.*)
(***************************************************************************)
EXTENDS SequencesExt, FiniteSetsExt, Integers

CONSTANT Values     \* the elements of sources: an initial part of the naturals

Undefined == 0      \* the element that is undefined, for operators that ask

Start == [on |-> "start", src |-> 0, value |-> 0]
Got(s, x) == [on |-> "value", src |-> s, value |-> x]
Ended(s) == [on |-> "end", src |-> s, value |-> 0]

IsGot(e, s) == e.on = "value" /\ e.src = s
IsEnded(e, s) == e.on = "end" /\ e.src = s

\* The local variables of a body: an offset, arrays, a set, a flag.
Local == [i |-> 0, list |-> <<>>, other |-> <<>>, keys |-> {}, flag |-> FALSE]

Again == -1         \* reads nothing and runs on

Give(l, values, s) == [local |-> l, out |-> values, from |-> s]
Read(l, s) == Give(l, <<>>, s)
Finish(l, values) == Give(l, values, 0)

When(condition, values) == IF condition THEN values ELSE <<>>

\* for (const element of source) each; after
ForOf(l, e, each, after) ==
    CASE e = Start -> Read(l, 1) [] IsGot(e, 1) -> each [] OTHER -> after

\* A loop that yields `values` for each element and counts them.
Each(l, e, values) ==
    ForOf(l, e, Give([l EXCEPT !.i = @ + 1], values, 1), Finish(l, <<>>))

\* toArray(source), and then `after`, where the array is l.list.
Whole(l, e, after) ==
    ForOf(l, e, Read([l EXCEPT !.list = Append(@, e.value)], 1), after)

-----------------------------------------------------------------------------
(* Arguments: a record of a predicate p on elements and offsets, a key     *)
(* selector, counts n and m, a step, a value v, whether there is a seed.   *)

Identity == [x \in Values |-> x]
ByIdentity(a) == [a EXCEPT !.key = Identity]
IsDefined(offsets) == [x \in Values, i \in offsets |-> x # Undefined]

\* An accumulator that tells every order of its arguments apart.
Accumulate(current, x, i) == (3 * current + x + i) % 7

\* A projection to an iterable.
Project(x) == [i \in 1 .. x |-> x]

Pair(x, y) == <<x, y>>
=============================================================================
