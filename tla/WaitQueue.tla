------------------------------ MODULE WaitQueue ------------------------------
(***************************************************************************)
(* @esfx/async-waitqueue over @esfx/internal-linked-list: the promises     *)
(* that wait for a value, oldest first.  A queue is a sequence of entries; *)
(* what settles a promise also unsubscribes the entry from its             *)
(* cancelable, so an entry is in the queue exactly while its promise is    *)
(* pending.                                                                *)
(***************************************************************************)
EXTENDS Integers, Sequences, TLAPS

Waiting(queue) == {queue[i] : i \in 1 .. Len(queue)}

\* No entry waits twice.
Once(queue) == \A i, j \in 1 .. Len(queue) : queue[i] = queue[j] => i = j

\* wait(cancelable) of an entry whose cancelable is not signaled.
Enqueued(queue, entry) == Append(queue, entry)

\* resolveOne() and rejectOne(): the entry they settle, and the queue they leave.
First(queue) == Head(queue)
Dequeued(queue) == Tail(queue)

\* listRemove(list, node) of the i-th node: its cancelable is signaled.
Without(queue, i) == [j \in 1 .. Len(queue) - 1 |-> IF j < i THEN queue[j] ELSE queue[j + 1]]

\* The cancelable of a waiting entry is signaled.
Canceled(queue, entry) ==
    Without(queue, CHOOSE i \in 1 .. Len(queue) : queue[i] = entry)

\* Of an entry that may not be waiting any more: listRemove() of a node that is in no
\* list does nothing.
Removed(queue, entry) ==
    IF entry \in Waiting(queue) THEN Canceled(queue, entry) ELSE queue
-----------------------------------------------------------------------------
(* What the operations do to the set of the entries, for queues of any    *)
(* length.                                                                 *)

\* Nobody waits in a new queue.
LEMMA EmptyQueue == Waiting(<<>>) = {} /\ Once(<<>>)
  BY DEF Waiting, Once

\* A queue is empty exactly when nobody waits in it (size of the WaitQueue).
LEMMA QueueEntries ==
    ASSUME NEW S, NEW queue \in Seq(S)
    PROVE  /\ queue = <<>> <=> Waiting(queue) = {}
           /\ Waiting(queue) \subseteq S
<1>1. Waiting(<<>>) = {}
  BY EmptyQueue
<1>2. ASSUME queue # <<>> PROVE Waiting(queue) # {}
  <2>1. 1 \in 1 .. Len(queue)
    BY <1>2
  <2> QED BY <2>1 DEF Waiting
<1>3. Waiting(queue) \subseteq S
  BY DEF Waiting
<1> QED BY <1>1, <1>2, <1>3

\* wait() adds its entry and keeps the others (WaitQueue.wait).
LEMMA EnqueueAdds ==
    ASSUME NEW S, NEW queue \in Seq(S), NEW e \in S
    PROVE  /\ Enqueued(queue, e) \in Seq(S)
           /\ Waiting(Enqueued(queue, e)) = Waiting(queue) \cup {e}
           /\ Once(queue) /\ e \notin Waiting(queue) => Once(Enqueued(queue, e))
<1> DEFINE q == Enqueued(queue, e)
<1>1. /\ q \in Seq(S)
      /\ Len(q) = Len(queue) + 1 /\ Len(queue) \in Nat
      /\ q[Len(queue) + 1] = e
      /\ \A i \in 1 .. Len(queue) : q[i] = queue[i]
  BY DEF Enqueued
<1> HIDE DEF q
<1>2. Waiting(q) = Waiting(queue) \cup {e}
  <2>1. 1 .. Len(q) = (1 .. Len(queue)) \cup {Len(queue) + 1}
    BY <1>1
  <2> QED BY <1>1, <2>1 DEF Waiting
<1>3. Once(queue) /\ e \notin Waiting(queue) => Once(q)
  <2> SUFFICES ASSUME Once(queue), e \notin Waiting(queue),
                      NEW i \in 1 .. Len(q), NEW j \in 1 .. Len(q), q[i] = q[j]
               PROVE  i = j
    BY DEF Once
  <2>1. \A k \in 1 .. Len(queue) : queue[k] # e
    BY DEF Waiting
  <2> QED BY <1>1, <2>1 DEF Once
<1> QED BY <1>1, <1>2, <1>3 DEF q

\* What resolveOne() settles leaves the queue, and the rest stays.
LEMMA DequeueRemoves ==
    ASSUME NEW S, NEW queue \in Seq(S), queue # <<>>
    PROVE  /\ First(queue) \in S /\ Dequeued(queue) \in Seq(S)
           /\ Waiting(queue) = {First(queue)} \cup Waiting(Dequeued(queue))
           /\ Once(queue) => /\ Once(Dequeued(queue))
                             /\ First(queue) \notin Waiting(Dequeued(queue))
<1> DEFINE q == Dequeued(queue)
<1>1. /\ q \in Seq(S) /\ First(queue) \in S
      /\ Len(q) = Len(queue) - 1 /\ Len(queue) \in Nat \ {0}
      /\ queue[1] = First(queue)
      /\ \A i \in 1 .. Len(q) : q[i] = queue[i + 1]
  BY DEF Dequeued, First
<1> HIDE DEF q
<1>2. Waiting(queue) = {First(queue)} \cup Waiting(q)
  <2>1. Waiting(queue) \subseteq {First(queue)} \cup Waiting(q)
    <3>1. ASSUME NEW i \in 1 .. Len(queue), i # 1
          PROVE  queue[i] \in Waiting(q)
      <4>1. i - 1 \in 1 .. Len(q) /\ q[i - 1] = queue[i]
        BY <1>1, <3>1
      <4> QED BY <4>1 DEF Waiting
    <3>2. \A i \in 1 .. Len(queue) : queue[i] \in {First(queue)} \cup Waiting(q)
      BY <1>1, <3>1
    <3> QED BY <3>2 DEF Waiting
  <2>2. {First(queue)} \cup Waiting(q) \subseteq Waiting(queue)
    <3>1. 1 \in 1 .. Len(queue)
      BY <1>1
    <3>2. \A i \in 1 .. Len(q) : i + 1 \in 1 .. Len(queue)
      BY <1>1
    <3> QED BY <1>1, <3>1, <3>2 DEF Waiting
  <2> QED BY <2>1, <2>2
<1>3. ASSUME Once(queue) PROVE Once(q) /\ First(queue) \notin Waiting(q)
  <2>1. \A i \in 1 .. Len(q) : i + 1 \in 1 .. Len(queue) /\ i + 1 # 1
    BY <1>1
  <2>2. 1 \in 1 .. Len(queue)
    BY <1>1
  <2>3. Once(q)
    BY <1>1, <1>3, <2>1 DEF Once
  <2>4. First(queue) \notin Waiting(q)
    BY <1>1, <1>3, <2>1, <2>2 DEF Once, Waiting
  <2> QED BY <2>3, <2>4
<1> QED BY <1>1, <1>2, <1>3 DEF q

\* A canceled entry leaves the queue, and only it does.
LEMMA CancelRemoves ==
    ASSUME NEW S, NEW queue \in Seq(S), NEW e \in Waiting(queue)
    PROVE  /\ Canceled(queue, e) \in Seq(S)
           /\ Once(queue) => /\ Once(Canceled(queue, e))
                             /\ Waiting(Canceled(queue, e)) = Waiting(queue) \ {e}
<1> DEFINE k == CHOOSE i \in 1 .. Len(queue) : queue[i] = e
           q == Without(queue, k)
<1>1. k \in 1 .. Len(queue) /\ queue[k] = e
  BY DEF Waiting
<1>2. Canceled(queue, e) = q
  BY DEF Canceled
<1> HIDE DEF k
<1>3. /\ q \in Seq(S)
      /\ Len(q) = Len(queue) - 1 /\ Len(queue) \in Nat \ {0}
      /\ \A i \in 1 .. Len(q) : q[i] = IF i < k THEN queue[i] ELSE queue[i + 1]
  BY <1>1 DEF Without
<1> HIDE DEF q
<1>4. ASSUME Once(queue) PROVE Once(q)
  <2> SUFFICES ASSUME NEW i \in 1 .. Len(q), NEW j \in 1 .. Len(q), q[i] = q[j]
               PROVE  i = j
    BY DEF Once
  <2> QED BY <1>1, <1>3, <1>4 DEF Once
<1>5. ASSUME Once(queue) PROVE Waiting(q) = Waiting(queue) \ {e}
  <2>1. ASSUME NEW i \in 1 .. Len(q) PROVE q[i] \in Waiting(queue) \ {e}
    BY <1>1, <1>3, <1>5, <2>1 DEF Once, Waiting
  <2>2. ASSUME NEW i \in 1 .. Len(queue), queue[i] # e PROVE queue[i] \in Waiting(q)
    <3>1. CASE i < k
      <4>1. i \in 1 .. Len(q) /\ q[i] = queue[i]
        BY <1>1, <1>3, <3>1
      <4> QED BY <4>1 DEF Waiting
    <3>2. CASE i > k
      <4>1. i - 1 \in 1 .. Len(q) /\ q[i - 1] = queue[i]
        BY <1>1, <1>3, <3>2
      <4> QED BY <4>1 DEF Waiting
    <3> QED BY <1>1, <2>2, <3>1, <3>2
  <2>3. Waiting(q) \subseteq Waiting(queue) \ {e}
    BY <2>1 DEF Waiting
  <2>4. Waiting(queue) \ {e} \subseteq Waiting(q)
    BY <2>2 DEF Waiting
  <2> QED BY <2>3, <2>4
<1> QED BY <1>2, <1>3, <1>4, <1>5

\* Removing an entry that may be gone (listRemove).
LEMMA RemovedRemoves ==
    ASSUME NEW S, NEW queue \in Seq(S), Once(queue), NEW e
    PROVE  /\ Removed(queue, e) \in Seq(S) /\ Once(Removed(queue, e))
           /\ Waiting(Removed(queue, e)) = Waiting(queue) \ {e}
<1>1. CASE e \in Waiting(queue)
  BY <1>1, CancelRemoves DEF Removed
<1>2. CASE e \notin Waiting(queue)
  BY <1>2 DEF Removed
<1> QED BY <1>1, <1>2

\* Resolved entries join those already due (resolveAll).
LEMMA JoinQueues ==
    ASSUME NEW S, NEW p \in Seq(S), NEW q \in Seq(S)
    PROVE  /\ p \o q \in Seq(S)
           /\ Waiting(p \o q) = Waiting(p) \cup Waiting(q)
           /\ Once(p) /\ Once(q) /\ Waiting(p) \cap Waiting(q) = {} => Once(p \o q)
<1> DEFINE r == p \o q
<1>1. /\ r \in Seq(S)
      /\ Len(p) \in Nat /\ Len(q) \in Nat
      /\ Len(r) = Len(p) + Len(q)
      /\ \A i \in 1 .. Len(r) : r[i] = IF i <= Len(p) THEN p[i] ELSE q[i - Len(p)]
  OBVIOUS
<1> HIDE DEF r
<1>2. Waiting(r) \subseteq Waiting(p) \cup Waiting(q)
  BY <1>1 DEF Waiting
<1>3. Waiting(p) \subseteq Waiting(r)
  <2>1. \A i \in 1 .. Len(p) : i \in 1 .. Len(r) /\ r[i] = p[i]
    BY <1>1
  <2> QED BY <2>1 DEF Waiting
<1>4. Waiting(q) \subseteq Waiting(r)
  <2>1. \A i \in 1 .. Len(q) : i + Len(p) \in 1 .. Len(r) /\ r[i + Len(p)] = q[i]
    <3> TAKE i \in 1 .. Len(q)
    <3>1. i + Len(p) \in 1 .. Len(r) /\ ~(i + Len(p) <= Len(p)) /\ (i + Len(p)) - Len(p) = i
      BY <1>1
    <3> QED BY <1>1, <3>1, Zenon
  <2> QED BY <2>1 DEF Waiting
<1>5. ASSUME Once(p), Once(q), Waiting(p) \cap Waiting(q) = {} PROVE Once(r)
  <2> SUFFICES ASSUME NEW i \in 1 .. Len(r), NEW j \in 1 .. Len(r), r[i] = r[j]
               PROVE  i = j
    BY DEF Once
  <2>1. \A m \in 1 .. Len(p), n \in 1 .. Len(q) : p[m] # q[n]
    BY <1>5 DEF Waiting
  <2>2. CASE i <= Len(p)
    BY <1>1, <1>5, <2>1, <2>2 DEF Once
  <2>3. CASE i > Len(p)
    BY <1>1, <1>5, <2>1, <2>3 DEF Once
  <2> QED BY <1>1, <2>2, <2>3
<1> QED BY <1>1, <1>2, <1>3, <1>4, <1>5 DEF r

\* resolveOne() for the n oldest entries: they and the rest make up the queue.
LEMMA SplitQueue ==
    ASSUME NEW S, NEW queue \in Seq(S), NEW n \in 0 .. Len(queue)
    PROVE  LET p == SubSeq(queue, 1, n)
               q == SubSeq(queue, n + 1, Len(queue))
           IN /\ p \in Seq(S) /\ q \in Seq(S)
              /\ Len(p) = n
              /\ Waiting(queue) = Waiting(p) \cup Waiting(q)
              /\ Once(queue) => Once(p) /\ Once(q) /\ Waiting(p) \cap Waiting(q) = {}
<1> DEFINE p == SubSeq(queue, 1, n)
           q == SubSeq(queue, n + 1, Len(queue))
<1>1. /\ p \in Seq(S) /\ q \in Seq(S)
      /\ Len(queue) \in Nat /\ n \in Nat /\ n <= Len(queue)
      /\ Len(p) = n /\ Len(q) = Len(queue) - n
      /\ \A i \in 1 .. n : p[i] = queue[i]
      /\ \A i \in 1 .. Len(queue) - n : q[i] = queue[n + i]
  OBVIOUS
<1> HIDE DEF p, q
<1>2. Waiting(queue) \subseteq Waiting(p) \cup Waiting(q)
  <2> SUFFICES ASSUME NEW i \in 1 .. Len(queue) PROVE queue[i] \in Waiting(p) \cup Waiting(q)
    BY DEF Waiting
  <2>1. CASE i <= n
    BY <1>1, <2>1 DEF Waiting
  <2>2. CASE i > n
    <3>1. i - n \in 1 .. Len(q) /\ q[i - n] = queue[i]
      BY <1>1, <2>2
    <3> QED BY <3>1 DEF Waiting
  <2> QED BY <1>1, <2>1, <2>2
<1>3. Waiting(p) \subseteq Waiting(queue)
  <2>1. \A i \in 1 .. Len(p) : i \in 1 .. Len(queue) /\ p[i] = queue[i]
    BY <1>1
  <2> QED BY <2>1 DEF Waiting
<1>4. Waiting(q) \subseteq Waiting(queue)
  <2>1. \A i \in 1 .. Len(q) : n + i \in 1 .. Len(queue) /\ q[i] = queue[n + i]
    BY <1>1
  <2> QED BY <2>1 DEF Waiting
<1>5. ASSUME Once(queue) PROVE Once(p) /\ Once(q) /\ Waiting(p) \cap Waiting(q) = {}
  <2>1. Once(p)
    BY <1>1, <1>5 DEF Once
  <2>2. Once(q)
    <3> SUFFICES ASSUME NEW i \in 1 .. Len(q), NEW j \in 1 .. Len(q), q[i] = q[j]
                 PROVE  i = j
      BY DEF Once
    <3>1. n + i \in 1 .. Len(queue) /\ n + j \in 1 .. Len(queue) /\ queue[n + i] = queue[n + j]
      BY <1>1
    <3> QED BY <1>1, <1>5, <3>1 DEF Once
  <2>3. ASSUME NEW i \in 1 .. Len(p), NEW j \in 1 .. Len(q) PROVE p[i] # q[j]
    <3>1. i \in 1 .. Len(queue) /\ n + j \in 1 .. Len(queue) /\ i # n + j
      BY <1>1
    <3> QED BY <1>1, <1>5, <3>1 DEF Once
  <2> QED BY <2>1, <2>2, <2>3 DEF Waiting
<1> QED BY <1>1, <1>2, <1>3, <1>4, <1>5 DEF p, q
=============================================================================
