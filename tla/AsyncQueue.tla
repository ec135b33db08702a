----------------------------- MODULE AsyncQueue -----------------------------
(***************************************************************************)
(* @esfx/async-queue, and @esfx/async-stack, which differs in the end at   *)
(* which an item is taken.  Every call runs without interruption; what is  *)
(* interleaved are the calls of readers and writers.                       *)
(***************************************************************************)
EXTENDS WaitQueue

CONSTANTS
    Readers,    \* each calls get() or pop() once
    Items       \* each is put or pushed once

VARIABLES
    lifo,       \* this is an AsyncStack
    _available, \* the items nobody has taken
    _pending,   \* the readers that wait
    done,       \* the flags of _state: "reading", "writing"
    ended,      \* end() has been called
    got,        \* got[r]: what the request of r came to
    puts        \* the items that were put, oldest first

queueVars == <<lifo, _available, _pending, done, ended, got, puts>>

Init == /\ lifo \in BOOLEAN
        /\ _available = <<>> /\ _pending = <<>>
        /\ done = {} /\ ended = FALSE
        /\ got = [r \in Readers |-> "nothing"]
        /\ puts = <<>>

-----------------------------------------------------------------------------
size == IF _available # <<>> THEN Len(_available) ELSE -Len(_pending)

writable == "writing" \notin done \/ size < 0

\* Mutant of readable: whatever the state.
readableAlways == TRUE

readable == "reading" \notin done \/ size > 0

Outcome(r, o) == got' = [got EXCEPT ![r] = o]

\* The item that get() shifts or pop() pops, and the items that are left.
Taken ==
    IF lifo THEN <<_available[Len(_available)], SubSeq(_available, 1, Len(_available) - 1)>>
    ELSE <<Head(_available), Tail(_available)>>

\* get(), pop()
Get(r) ==
    /\ got[r] = "nothing"
    /\ \/ /\ _available # <<>>
          /\ Outcome(r, Taken[1])
          /\ _available' = Taken[2]
          /\ UNCHANGED _pending
       \/ /\ _available = <<>> /\ ~readable
          /\ Outcome(r, "an error")
          /\ UNCHANGED <<_available, _pending>>
       \/ /\ _available = <<>> /\ readable
          /\ Outcome(r, "pending")
          /\ _pending' = Enqueued(_pending, r)
          /\ UNCHANGED _available
    /\ UNCHANGED <<lifo, done, ended, puts>>

\* The cancelable of a waiting reader is signaled.
CancelGet(r) ==
    /\ r \in Waiting(_pending)
    /\ _pending' = Canceled(_pending, r)
    /\ Outcome(r, "canceled")
    /\ UNCHANGED <<lifo, _available, done, ended, puts>>

\* put(), push(): the reader that has waited longest gets the item.
Put(i) ==
    /\ i \notin Waiting(puts) /\ writable
    /\ puts' = Append(puts, i)
    /\ IF _pending # <<>>
       THEN /\ _pending' = Dequeued(_pending) /\ Outcome(First(_pending), i)
            /\ UNCHANGED _available
       ELSE /\ _available' = Append(_available, i)
            /\ UNCHANGED <<_pending, got>>
    /\ UNCHANGED <<lifo, done, ended>>

\* doneReading(), doneWriting()
Done(what) ==
    /\ done' = done \cup {what}
    /\ UNCHANGED <<lifo, _available, _pending, ended, got, puts>>

\* end(): both, and the waiting readers are rejected.
End ==
    /\ done' = {"reading", "writing"} /\ ended' = TRUE
    /\ _pending' = <<>>
    /\ got' = [r \in Readers |-> IF r \in Waiting(_pending) THEN "canceled" ELSE got[r]]
    /\ UNCHANGED <<lifo, _available, puts>>

Next == \/ \E r \in Readers : Get(r) \/ CancelGet(r)
        \/ \E i \in Items : Put(i)
        \/ \E what \in {"reading", "writing"} : Done(what)
        \/ End

Spec == Init /\ [][Next]_queueVars

-----------------------------------------------------------------------------
TypeOK ==
    /\ got \in [Readers -> Items \cup {"nothing", "an error", "pending", "canceled"}]
    /\ {r \in Readers : got[r] = "pending"} = Waiting(_pending) /\ Once(_pending)
    /\ done \subseteq {"reading", "writing"} /\ ended \in BOOLEAN
    /\ puts \in Seq(Items) /\ Once(puts)

\* Every item that was put is with one reader or available, and not both; readers
\* wait only while there is no item.
EachToOne ==
    /\ Waiting(puts) = Waiting(_available) \cup (Items \cap {got[r] : r \in Readers})
    /\ \A r \in Readers : got[r] \in Items =>
          /\ got[r] \notin Waiting(_available)
          /\ \A q \in Readers : got[q] = got[r] => q = r
    /\ _available = <<>> \/ _pending = <<>>

\* A queue hands items out in the order they were put: what is available are the
\* youngest items, in order.
InOrder ==
    ~lifo => \E k \in 0 .. Len(puts) : _available = SubSeq(puts, k + 1, Len(puts))

\* Nobody waits for an item that cannot come any more: after end() no reader is left
\* waiting, and none begins to wait.
EndLeavesNobody == ended => _pending = <<>>

\* What readers and writers rely on, whatever is canceled, done or ended in between.
Delivered == EachToOne /\ InOrder /\ EndLeavesNobody
=============================================================================
