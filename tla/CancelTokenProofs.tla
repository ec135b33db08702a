------------------------- MODULE CancelTokenProofs -------------------------
(***************************************************************************)
(* Proofs about CancelToken, for any tokens, callbacks and links.          *)
(***************************************************************************)
EXTENDS CancelToken

Frames == [todo : Seq(Listeners), program : BOOLEAN]

\* The listeners that the calls of a stack have still to call.
PendingIn(stack) == {l \in Listeners : \E k \in DOMAIN stack : l \in Waiting(stack[k].todo)}
Pending == PendingIn(calls)

\* No listener is to be called twice.
OnceIn(stack) ==
    /\ \A k \in DOMAIN stack : Once(stack[k].todo)
    /\ \A j, k \in DOMAIN stack :
          j # k => Waiting(stack[j].todo) \cap Waiting(stack[k].todo) = {}

\* The listeners of s.
Sub(s) == Waiting(_subscriptions[s])

Types == /\ TypeOK
         /\ calls \in Seq(Frames)
         /\ _subscriptions \in [Tokens -> Seq(Listeners)]
         /\ subscribed \in [Callbacks -> [token : Tokens \cup {"none"},
                               how : {"not yet", "ignored", "withdrawn", "at once", "listed"}]]
         /\ arrived \subseteq Links

\* A listener is in the list of one unsignaled token or to be called, once and not both.
ListenersOnce == /\ \A s \in Tokens : Once(_subscriptions[s])
                 /\ OnceIn(calls)

\* Where a callback is on its way from subscribe() to its call.
CallbackKept(c) ==
    /\ \A s \in Tokens : c \in Sub(s) =>
          /\ subscribed[c].how = "listed" /\ subscribed[c].token = s
          /\ _state[s] = "unsignaled"
          /\ ran[c] = 0 /\ c \notin Pending
    /\ c \in Pending => ran[c] = 0
    /\ c \in Pending \/ ran[c] = 1 =>
          \/ subscribed[c].how = "at once"
          \/ subscribed[c].how = "listed" /\ _state[subscribed[c].token] = "signaled"
    /\ subscribed[c].how = "at once" => c \in Pending \/ ran[c] = 1
    /\ subscribed[c].how = "listed" =>
          /\ subscribed[c].token \in Tokens /\ _state[subscribed[c].token] # "absent"
          /\ _state[subscribed[c].token] = "unsignaled" => c \in Sub(subscribed[c].token)
          /\ _state[subscribed[c].token] = "signaled" => c \in Pending \/ ran[c] = 1

CallbacksKept == \A c \in Callbacks : CallbackKept(c)

\* Where the i-th onSignaled() of a linked token is on its way.
LinkKept(t, i) ==
    /\ \A s \in Tokens : <<t, i>> \in Sub(s) =>
          /\ t \in _links /\ i \in DOMAIN Signals[t] /\ Signals[t][i] = s
          /\ _state[s] = "unsignaled"
          /\ <<t, i>> \notin Pending /\ <<t, i>> \notin arrived
    /\ <<t, i>> \in Pending =>
          /\ i \in DOMAIN Signals[t] /\ _state[Signals[t][i]] = "signaled"
          /\ <<t, i>> \notin arrived
    /\ <<t, i>> \in arrived => Kind[t] = "all"
    /\ _state[t] = "absent" => <<t, i>> \notin Pending /\ <<t, i>> \notin arrived

LinksKept == \A t \in Linked : \A i \in 1 .. 3 : LinkKept(t, i)

\* A linked token listens to each of its signals, or has heard of it, or is about to, or
\* the signal is closed for good.
LinkHeard(t) ==
    /\ \A i \in DOMAIN Signals[t] :
          /\ _state[Signals[t][i]] # "absent"
          /\ \/ <<t, i>> \in Sub(Signals[t][i])
             \/ <<t, i>> \in Pending \/ <<t, i>> \in arrived
             \/ Signals[t][i] \in Timely => state[Signals[t][i]] = "closed"
    /\ Kind[t] = "all" => \E i \in DOMAIN Signals[t] : <<t, i>> \notin arrived

LinksHeard == \A t \in _links : LinkHeard(t)

\* Tokens are linked to older ones only.
WellFounded ==
    \A D \in SUBSET Tokens :
       D # {} => \E t \in D : t \notin _links \/ Each(t) \cap D = {}

IInv == Types /\ ListenersOnce /\ CallbacksKept /\ LinksKept /\ LinksHeard /\ WellFounded

-----------------------------------------------------------------------------
(* What tokens show.  The equations of getLinkedState have a solution whatever *)
(* tokens are linked to what, so that what `state` shows satisfies them.       *)

\* A monotone function on sets has a least fixed point.
LEMMA LeastFixedPoint ==
    ASSUME NEW U, NEW F \in [SUBSET U -> SUBSET U],
           \A A, B \in SUBSET U : A \subseteq B => F[A] \subseteq F[B]
    PROVE  \E L \in SUBSET U :
              F[L] = L /\ \A A \in SUBSET U : F[A] \subseteq A => L \subseteq A
<1> DEFINE L == {x \in U : \A A \in SUBSET U : F[A] \subseteq A => x \in A}
<1>1. L \in SUBSET U /\ \A A \in SUBSET U : F[A] \subseteq A => L \subseteq A
  OBVIOUS
<1>2. F[L] \in SUBSET U
  BY <1>1
<1> HIDE DEF L
<1>3. ASSUME NEW A \in SUBSET U, F[A] \subseteq A PROVE F[L] \subseteq A
  <2>1. L \subseteq A
    BY <1>1, <1>3
  <2> QED BY <1>1, <1>3, <2>1
<1>4. F[L] \subseteq L
  BY <1>2, <1>3 DEF L
<1>5. F[F[L]] \subseteq F[L]
  BY <1>1, <1>2, <1>4, ZenonT(30)
<1>6. L \subseteq F[L]
  BY <1>1, <1>2, <1>5, ZenonT(30)
<1>7. F[L] = L
  BY <1>4, <1>6
<1> QED BY <1>1, <1>7

\* What t shows when its signals show f (getLinkedState).
Shows(f, own, linked, t) ==
    IF t \notin linked THEN own[t]
    ELSE IF (Kind[t] = "all" /\ \A s \in Each(t) : f[s] = "signaled")
            \/ (Kind[t] # "all" /\ \E s \in Each(t) : f[s] = "signaled") THEN "signaled"
    ELSE IF \E s \in Each(t) : f[s] # "closed" THEN "unsignaled" ELSE "closed"

LEMMA SignalsOf ==
    ASSUME NEW t \in Linked
    PROVE  /\ Each(t) \subseteq Tokens /\ Each(t) # {} /\ t \in Tokens
           /\ DOMAIN Signals[t] \subseteq 1 .. 3
           /\ \A i \in DOMAIN Signals[t] : Signals[t][i] \in Each(t)
<1>1. t \in Tokens /\ Signals[t] \in Seq(Tokens) /\ Len(Signals[t]) \in 1 .. 3
  BY LinksAssumption DEF Tokens
<1>2. /\ 1 \in DOMAIN Signals[t] /\ DOMAIN Signals[t] \subseteq 1 .. 3
      /\ \A i \in DOMAIN Signals[t] : Signals[t][i] \in Tokens
  BY <1>1
<1> QED BY <1>1, <1>2 DEF Each

\* A listener is a callback or a link.
LEMMA NoCallbackIsALink ==
    /\ \A c \in Callbacks, t \in Tokens, i \in 1 .. 3 : c # <<t, i>>
    /\ Links \cap Callbacks = {}
    /\ \A t \in Linked, i \in 1 .. 3 : <<t, i>> \in Links
<1>1. Linked \subseteq Tokens
  BY DEF Tokens
<1>2. \A t \in Linked, i \in 1 .. 3 : <<t, i>> \in Links
  BY DEF Links
<1> QED BY <1>1, <1>2, LinksAssumption DEF Links

LEMMA ShownExists ==
    ASSUME NEW own, NEW linked \in SUBSET Linked
    PROVE  \E f : f = [t \in Tokens |-> Shows(f, own, linked, t)]
<1> DEFINE Sig(A) == {t \in Tokens :
                        \/ t \notin linked /\ own[t] = "signaled"
                        \/ t \in linked /\ Kind[t] = "all" /\ Each(t) \subseteq A
                        \/ t \in linked /\ Kind[t] # "all" /\ Each(t) \cap A # {}}
           Clo(A) == {t \in Tokens :
                        \/ t \notin linked /\ own[t] = "closed"
                        \/ t \in linked /\ Each(t) \subseteq A}
           SigF == [A \in SUBSET Tokens |-> Sig(A)]
           CloF == [A \in SUBSET Tokens |-> Clo(A)]
<1>1. PICK S \in SUBSET Tokens :
         SigF[S] = S /\ \A A \in SUBSET Tokens : SigF[A] \subseteq A => S \subseteq A
  <2>1. SigF \in [SUBSET Tokens -> SUBSET Tokens]
    OBVIOUS
  <2>2. ASSUME NEW A \in SUBSET Tokens, NEW B \in SUBSET Tokens, A \subseteq B
        PROVE  SigF[A] \subseteq SigF[B]
    BY <2>2
  <2> HIDE DEF SigF
  <2> QED BY <2>1, <2>2, LeastFixedPoint
<1>2. PICK C \in SUBSET Tokens :
         CloF[C] = C /\ \A A \in SUBSET Tokens : CloF[A] \subseteq A => C \subseteq A
  <2>1. CloF \in [SUBSET Tokens -> SUBSET Tokens]
    OBVIOUS
  <2>2. ASSUME NEW A \in SUBSET Tokens, NEW B \in SUBSET Tokens, A \subseteq B
        PROVE  CloF[A] \subseteq CloF[B]
    BY <2>2
  <2> HIDE DEF CloF
  <2> QED BY <2>1, <2>2, LeastFixedPoint
<1>3. Sig(S) = S /\ Clo(C) = C
  BY <1>1, <1>2
<1>4. S \cap C = {}
  <2>1. Sig(Tokens \ C) \subseteq Tokens \ C
    BY <1>3, SignalsOf
  <2>2. SigF[Tokens \ C] = Sig(Tokens \ C)
    OBVIOUS
  <2> HIDE DEF Sig, SigF
  <2>3. S \subseteq Tokens \ C
    BY <1>1, <2>1, <2>2
  <2> QED BY <2>3
<1> DEFINE f == [t \in Tokens |-> IF t \notin linked THEN own[t]
                                  ELSE IF t \in S THEN "signaled"
                                  ELSE IF t \in C THEN "closed" ELSE "unsignaled"]
<1>5. \A t \in Tokens : (f[t] = "signaled" <=> t \in S) /\ (f[t] = "closed" <=> t \in C)
  BY <1>3, <1>4
<1>6. ASSUME NEW t \in Tokens PROVE f[t] = Shows(f, own, linked, t)
  <2>1. CASE t \notin linked
    BY <2>1 DEF Shows
  <2>2. CASE t \in linked
    <3>1. Each(t) \subseteq Tokens /\ Each(t) # {}
      BY <2>2, SignalsOf
    <3>2. f[t] = IF t \in S THEN "signaled" ELSE IF t \in C THEN "closed" ELSE "unsignaled"
      BY <2>2
    <3> HIDE DEF f
    <3>3. t \in S <=> (Kind[t] = "all" /\ \A s \in Each(t) : f[s] = "signaled")
                      \/ (Kind[t] # "all" /\ \E s \in Each(t) : f[s] = "signaled")
      BY <1>3, <1>5, <2>2, <3>1
    <3>4. t \in C <=> ~ \E s \in Each(t) : f[s] # "closed"
      BY <1>3, <1>5, <2>2, <3>1
    <3> QED BY <1>4, <2>2, <3>2, <3>3, <3>4 DEF Shows
  <2> QED BY <2>1, <2>2
<1>7. f = [t \in Tokens |-> Shows(f, own, linked, t)]
  BY <1>6
<1> QED BY <1>7

LEMMA ShownShows ==
    ASSUME NEW own, NEW linked \in SUBSET Linked
    PROVE  Shown(own, linked)
              = [t \in Tokens |-> Shows(Shown(own, linked), own, linked, t)]
<1> DEFINE E(f) == [t \in Tokens |->
              IF t \notin linked THEN own[t]
              ELSE LET signaled == {s \in Each(t) : f[s] = "signaled"}
                       open == {s \in Each(t) : f[s] # "closed"}
                       done == IF Kind[t] = "all" THEN signaled = Each(t) ELSE signaled # {}
                   IN IF done THEN "signaled" ELSE IF open # {} THEN "unsignaled" ELSE "closed"]
<1>1. Shown(own, linked) = CHOOSE f : f = E(f)
  BY Zenon DEF Shown
<1>2. ASSUME NEW f PROVE E(f) = [t \in Tokens |-> Shows(f, own, linked, t)]
  <2>1. ASSUME NEW t \in Tokens PROVE E(f)[t] = Shows(f, own, linked, t)
    BY DEF Shows
  <2> QED BY <2>1
<1> HIDE DEF E
<1>3. \E f : f = E(f)
  BY <1>2, ShownExists
<1>4. Shown(own, linked) = E(Shown(own, linked))
  BY <1>1, <1>3
<1> QED BY <1>2, <1>4

\* The equations of getLinkedState, before and after a step.
LEMMA StateFacts ==
    ASSUME Types
    PROVE  /\ \A t \in Tokens : t \notin _links => state[t] = _state[t]
           /\ \A t \in Tokens : state[t] = "unsignaled" => _state[t] = "unsignaled"
           /\ \A t \in _links : state[t] \in {"unsignaled", "signaled", "closed"}
           /\ \A t \in _links : state[t] = "closed" <=> \A s \in Each(t) : state[s] = "closed"
           /\ \A t \in _links : state[t] = "signaled" =>
                 IF Kind[t] = "all" THEN \A s \in Each(t) : state[s] = "signaled"
                 ELSE \E s \in Each(t) : state[s] = "signaled"
<1>1. _links \subseteq Linked /\ \A t \in _links : _state[t] = "unsignaled"
  BY DEF Types, TypeOK
<1>2. state = [t \in Tokens |-> Shows(state, _state, _links, t)]
  BY <1>1, ShownShows DEF state
<1>3. \A t \in Tokens : state[t] = Shows(state, _state, _links, t)
  BY <1>2
<1>4. \A t \in _links : t \in Tokens /\ Each(t) # {}
  BY <1>1, SignalsOf
<1> QED BY <1>1, <1>3, <1>4 DEF Shows

LEMMA StateFactsNext ==
    ASSUME _links' \subseteq Linked
    PROVE  /\ \A t \in Tokens : t \notin _links' => state'[t] = _state'[t]
           /\ \A t \in _links' : state'[t] = "closed" <=> \A s \in Each(t) : state'[s] = "closed"
<1>1. state' = [t \in Tokens |-> Shows(state', _state', _links', t)]
  BY ShownShows DEF state
<1>2. \A t \in Tokens : state'[t] = Shows(state', _state', _links', t)
  BY <1>1
<1>3. \A t \in _links' : t \in Tokens /\ Each(t) # {}
  BY SignalsOf
<1> QED BY <1>2, <1>3 DEF Shows

\* What is timely is linked to what is, and what is late stays late.
LEMMA TimelyFacts ==
    /\ Timely \subseteq Tokens /\ Timely \cap late = {}
    /\ \A t \in Timely \cap Linked : Each(t) \subseteq Timely
    /\ late \subseteq late' => Timely' \subseteq Timely
<1>1. ASSUME NEW t \in Timely
      PROVE  \E D \in SUBSET (Tokens \ late) :
                t \in D /\ \A u \in D \cap Linked : Each(u) \subseteq D
  BY <1>1 DEF Timely
<1>2. ASSUME NEW D \in SUBSET (Tokens \ late), \A u \in D \cap Linked : Each(u) \subseteq D
      PROVE  D \subseteq Timely
  BY <1>2 DEF Timely
<1>3. ASSUME late \subseteq late', NEW t \in Timely' PROVE t \in Timely
  <2>1. PICK D \in SUBSET (Tokens \ late') : t \in D /\ \A u \in D \cap Linked : Each(u) \subseteq D
    BY <1>3 DEF Timely
  <2>2. D \in SUBSET (Tokens \ late)
    BY <1>3
  <2> QED BY <1>2, <2>1, <2>2
<1> QED BY <1>1, <1>2, <1>3

LEMMA TimelyFactsNext ==
    /\ Timely' \subseteq Tokens /\ Timely' \cap late' = {}
    /\ \A t \in Timely' \cap Linked : Each(t) \subseteq Timely'
<1>1. ASSUME NEW t \in Timely'
      PROVE  \E D \in SUBSET (Tokens \ late') :
                t \in D /\ \A u \in D \cap Linked : Each(u) \subseteq D
  BY <1>1 DEF Timely
<1>2. ASSUME NEW D \in SUBSET (Tokens \ late'), \A u \in D \cap Linked : Each(u) \subseteq D
      PROVE  D \subseteq Timely'
  BY <1>2 DEF Timely
<1> QED BY <1>1, <1>2

-----------------------------------------------------------------------------
(* The lists and the call stack. *)

\* links.unlink() takes the listeners of t out of all lists.
LEMMA UnlinkedRemoves ==
    ASSUME Types, ListenersOnce, NEW t
    PROVE  /\ Unlinked(t) \in [Tokens -> Seq(Listeners)]
           /\ \A s \in Tokens :
                 /\ Once(Unlinked(t)[s])
                 /\ Waiting(Unlinked(t)[s]) = Sub(s) \ {<<t, 1>>, <<t, 2>>, <<t, 3>>}
<1>1. ASSUME NEW s \in Tokens
      PROVE  /\ Unlinked(t)[s] \in Seq(Listeners) /\ Once(Unlinked(t)[s])
             /\ Waiting(Unlinked(t)[s]) = Sub(s) \ {<<t, 1>>, <<t, 2>>, <<t, 3>>}
  <2> DEFINE q == Removed(_subscriptions[s], <<t, 1>>)
             r == Removed(q, <<t, 2>>)
  <2>1. _subscriptions[s] \in Seq(Listeners) /\ Once(_subscriptions[s])
    BY DEF Types, ListenersOnce
  <2>2. /\ q \in Seq(Listeners) /\ Once(q)
        /\ Waiting(q) = Waiting(_subscriptions[s]) \ {<<t, 1>>}
    BY <2>1, RemovedRemoves
  <2> HIDE DEF q
  <2>3. r \in Seq(Listeners) /\ Once(r) /\ Waiting(r) = Waiting(q) \ {<<t, 2>>}
    BY <2>2, RemovedRemoves
  <2> HIDE DEF r
  <2>4. /\ Removed(r, <<t, 3>>) \in Seq(Listeners) /\ Once(Removed(r, <<t, 3>>))
        /\ Waiting(Removed(r, <<t, 3>>)) = Waiting(r) \ {<<t, 3>>}
    BY <2>3, RemovedRemoves
  <2>5. Unlinked(t)[s] = Removed(r, <<t, 3>>)
    BY DEF Unlinked, q, r
  <2> QED BY <2>2, <2>3, <2>4, <2>5 DEF Sub
<1> QED BY <1>1 DEF Unlinked

\* What cancel() and close() do to the lists.
LEMMA SettleRemoves ==
    ASSUME Types, ListenersOnce, NEW t \in Tokens, NEW s, Settle(t, s)
    PROVE  /\ _subscriptions' \in [Tokens -> Seq(Listeners)]
           /\ Sub(t)' = {}
           /\ \A u \in Tokens :
                 /\ Once(_subscriptions'[u])
                 /\ u # t => Waiting(_subscriptions'[u]) = Sub(u) \ {<<t, 1>>, <<t, 2>>, <<t, 3>>}
<1>1. <<>> \in Seq(Listeners) /\ Waiting(<<>>) = {} /\ Once(<<>>)
  BY EmptyQueue
<1>2. _subscriptions' = [Unlinked(t) EXCEPT ![t] = <<>>]
  BY DEF Settle
<1>3. Unlinked(t) \in [Tokens -> Seq(Listeners)]
  BY UnlinkedRemoves
<1>4. /\ _subscriptions' \in [Tokens -> Seq(Listeners)]
      /\ _subscriptions'[t] = <<>>
      /\ \A u \in Tokens : u # t => _subscriptions'[u] = Unlinked(t)[u]
  BY <1>1, <1>2, <1>3
<1> QED BY <1>1, <1>4, UnlinkedRemoves DEF Sub

LEMMA FrameIsFrame ==
    ASSUME NEW list \in Seq(Listeners)
    PROVE  Frame(list) \in Frames /\ Frame(list).todo = list
  BY DEF Frame, Frames

LEMMA FrameTodo ==
    ASSUME NEW frame \in Frames
    PROVE  frame.todo \in Seq(Listeners)
  BY DEF Frames

LEMMA FramesAre ==
    ASSUME NEW stack \in Seq(Frames)
    PROVE  \A k \in DOMAIN stack :
              stack[k].todo \in Seq(Listeners) /\ stack[k].program \in BOOLEAN
<1>1. \A k \in DOMAIN stack : stack[k] \in Frames
  OBVIOUS
<1> QED BY <1>1 DEF Frames

\* cancel() and subscribe() enter their calls.
LEMMA EnterCalls ==
    ASSUME NEW stack \in Seq(Frames), OnceIn(stack),
           NEW list \in Seq(Listeners), Once(list), Waiting(list) \cap PendingIn(stack) = {}
    PROVE  /\ Enter(list, stack) \in Seq(Frames) /\ OnceIn(Enter(list, stack))
           /\ PendingIn(Enter(list, stack)) = PendingIn(stack) \cup Waiting(list)
<1> DEFINE n == Len(stack)
           new == Append(stack, Frame(list))
<1>1. CASE list = <<>>
  BY <1>1, EmptyQueue DEF Enter
<1>2. CASE list # <<>>
  <2>1. /\ new \in Seq(Frames) /\ n \in Nat /\ DOMAIN stack = 1 .. n /\ DOMAIN new = 1 .. n + 1
        /\ new[n + 1].todo = list
        /\ \A k \in 1 .. n : new[k] = stack[k]
    BY FrameIsFrame
  <2>2. DOMAIN new = DOMAIN stack \cup {n + 1} /\ n + 1 \notin DOMAIN stack
    BY <2>1
  <2>3. \A k \in DOMAIN stack : Waiting(stack[k].todo) \subseteq PendingIn(stack)
    <3>1. \A k \in DOMAIN stack : stack[k] \in Frames
      OBVIOUS
    <3> QED BY <3>1, FrameTodo, QueueEntries DEF PendingIn
  <2>4. Waiting(list) \subseteq Listeners
    BY QueueEntries
  <2> HIDE DEF new, n
  <2>5. OnceIn(new)
    BY <2>1, <2>2, <2>3 DEF OnceIn
  <2>6. PendingIn(new) = PendingIn(stack) \cup Waiting(list)
    BY <2>1, <2>2, <2>4 DEF PendingIn
  <2> QED BY <1>2, <2>1, <2>5, <2>6 DEF Enter, new
<1> QED BY <1>1, <1>2

\* The innermost call takes its next listener.
LEMMA RestCalls ==
    ASSUME Types, OnceIn(calls), NEW l, IsNext(l), NEW program \in BOOLEAN
    PROVE  /\ l \in Pending
           /\ Rest(program) \in Seq(Frames) /\ OnceIn(Rest(program))
           /\ PendingIn(Rest(program)) = Pending \ {l}
<1> DEFINE n == Len(calls)
           list == calls[n].todo
           new == Rest(program)
<1>1. calls \in Seq(Frames) /\ calls # <<>> /\ list # <<>> /\ l = Head(list)
  BY DEF Types, IsNext, Calling, Innermost
<1>2. n \in DOMAIN calls /\ \A k \in DOMAIN calls : calls[k] \in Frames
  BY <1>1
<1>3. \A k \in DOMAIN calls : calls[k].todo \in Seq(Listeners)
  BY <1>2, FrameTodo
<1>4. list \in Seq(Listeners) /\ Once(list)
  BY <1>2, <1>3 DEF OnceIn
<1>5. /\ l \in Listeners /\ Tail(list) \in Seq(Listeners) /\ Once(Tail(list))
      /\ Waiting(list) = {l} \cup Waiting(Tail(list)) /\ l \notin Waiting(Tail(list))
  BY <1>1, <1>4, DequeueRemoves DEF First, Dequeued
<1>6. new = [calls EXCEPT ![n] = [todo |-> Tail(list), program |-> program]]
  BY DEF Rest, Innermost
<1> HIDE DEF new, list, n
<1>7. [todo |-> Tail(list), program |-> program] \in Frames
  BY <1>5 DEF Frames
<1>8. /\ new \in Seq(Frames) /\ DOMAIN new = DOMAIN calls
      /\ new[n].todo = Tail(list)
      /\ \A k \in DOMAIN calls : k # n => new[k] = calls[k]
  BY <1>1, <1>2, <1>6, <1>7
<1>9. calls[n].todo = list
  BY DEF list
<1>10. \A k \in DOMAIN calls : k # n => l \notin Waiting(calls[k].todo)
  BY <1>2, <1>5, <1>9 DEF OnceIn
<1>11. OnceIn(new)
  BY <1>2, <1>5, <1>8, <1>9 DEF OnceIn
<1>12. PendingIn(new) = PendingIn(calls) \ {l}
  BY <1>2, <1>5, <1>8, <1>9, <1>10 DEF PendingIn
<1>13. l \in PendingIn(calls)
  BY <1>2, <1>5, <1>9 DEF PendingIn
<1> QED BY <1>8, <1>11, <1>12, <1>13 DEF new, Pending

\* A callback or a call that ends leaves the listeners that are still to be called.
LEMMA CallbackEndsCalls ==
    ASSUME Types, OnceIn(calls), CallbackEnds
    PROVE  calls' \in Seq(Frames) /\ OnceIn(calls') /\ PendingIn(calls') = Pending
<1> DEFINE n == Len(calls)
<1>1. calls \in Seq(Frames) /\ calls # <<>>
  BY DEF Types, CallbackEnds
<1>2. n \in DOMAIN calls /\ \A k \in DOMAIN calls : calls[k] \in Frames
  BY <1>1
<1>3. calls[n].todo \in Seq(Listeners)
  BY <1>2, FrameTodo
<1>4. calls' = [calls EXCEPT ![n] = Frame(calls[n].todo)]
  BY DEF CallbackEnds, Innermost
<1>5. Frame(calls[n].todo) \in Frames /\ Frame(calls[n].todo).todo = calls[n].todo
  BY <1>3, FrameIsFrame
<1> HIDE DEF n
<1>6. /\ calls' \in Seq(Frames) /\ DOMAIN calls' = DOMAIN calls
      /\ \A k \in DOMAIN calls : calls'[k].todo = calls[k].todo
  BY <1>1, <1>2, <1>4, <1>5
<1> QED BY <1>6 DEF OnceIn, PendingIn, Pending

LEMMA ReturnCalls ==
    ASSUME Types, OnceIn(calls), Return
    PROVE  calls' \in Seq(Frames) /\ OnceIn(calls') /\ PendingIn(calls') = Pending
<1> DEFINE n == Len(calls)
<1>1. calls \in Seq(Frames) /\ calls # <<>> /\ calls[n].todo = <<>>
  BY DEF Types, Return, Calling, Innermost
<1>2. calls' = SubSeq(calls, 1, n - 1)
  BY DEF Return
<1>3. /\ calls' \in Seq(Frames)
      /\ n \in Nat /\ DOMAIN calls' = 1 .. n - 1 /\ DOMAIN calls = 1 .. n
      /\ \A k \in 1 .. n - 1 : calls'[k] = calls[k]
  BY <1>1, <1>2
<1>4. DOMAIN calls' \subseteq DOMAIN calls /\ DOMAIN calls = DOMAIN calls' \cup {n}
  BY <1>1, <1>3
<1>5. Waiting(calls[n].todo) = {}
  BY <1>1, EmptyQueue
<1> HIDE DEF n
<1> QED BY <1>3, <1>4, <1>5 DEF OnceIn, PendingIn, Pending

-----------------------------------------------------------------------------
(* The steps. *)

\* What is closed stays closed, unless a timer signals it or what it is linked to.
LEMMA ClosedStays ==
    ASSUME Types, WellFounded, _links' \subseteq Linked,
           \A t \in Timely' : t \notin _links /\ _state[t] = "closed" =>
               t \notin _links' /\ _state'[t] = "closed",
           \A t \in _links \cap Timely' : state[t] = "closed" => t \in _links' \/ _state'[t] = "closed"
    PROVE  \A t \in Timely' : state[t] = "closed" => state'[t] = "closed"
<1> DEFINE D == {t \in Timely' : state[t] = "closed" /\ state'[t] # "closed"}
<1> SUFFICES ASSUME D # {} PROVE FALSE
  OBVIOUS
<1>0. D \in SUBSET Tokens
  BY TimelyFactsNext
<1>1. PICK t \in D : t \notin _links \/ Each(t) \cap D = {}
  BY <1>0 DEF WellFounded
<1>2. CASE t \notin _links
  BY <1>0, <1>2, StateFacts, StateFactsNext
<1>3. CASE t \in _links /\ Each(t) \cap D = {}
  <2>1. t \in Linked
    BY <1>3 DEF Types, TypeOK
  <2>2. \A s \in Each(t) : s \in Timely' /\ state[s] = "closed"
    BY <1>3, <2>1, StateFacts, TimelyFactsNext
  <2>3. \A s \in Each(t) : state'[s] = "closed"
    BY <1>3, <2>2
  <2>4. CASE t \in _links'
    BY <1>0, <2>3, <2>4, StateFactsNext
  <2>5. CASE t \notin _links'
    BY <1>0, <1>3, <2>5, StateFactsNext
  <2> QED BY <2>4, <2>5
<1> QED BY <1>1, <1>2, <1>3

\* cancel() and close() of t, called where the listeners X of t have just been taken from
\* those still to be called.
LEMMA SettleIInv ==
    ASSUME IInv, NEW t \in Tokens, NEW s \in {"signaled", "closed"}, Settle(t, s),
           NEW X \in SUBSET {<<t, 1>>, <<t, 2>>, <<t, 3>>}, X \subseteq Pending,
           calls' \in Seq(Frames), OnceIn(calls'),
           Pending' = (Pending \ X) \cup (IF s = "signaled" THEN Sub(t) ELSE {}),
           arrived \subseteq arrived', arrived' \subseteq arrived \cup X,
           \A l \in arrived' : l \in X => Kind[t] = "all",
           UNCHANGED <<subscribed, ran>>,
           late \subseteq late', s = "signaled" /\ state[t] = "closed" => t \in late'
    PROVE  IInv'
<1> USE DEF IInv
<1>1. /\ _state[t] = "unsignaled"
      /\ _state' = [_state EXCEPT ![t] = s]
      /\ _links' = _links \ {t} /\ timers' = timers \ {t}
  BY DEF Settle
<1>2. _state \in [Tokens -> {"absent", "unsignaled", "signaled", "closed"}]
  BY DEF Types, TypeOK
<1>3. /\ _state' \in [Tokens -> {"absent", "unsignaled", "signaled", "closed"}]
      /\ _state'[t] = s /\ \A u \in Tokens : u # t => _state'[u] = _state[u]
  BY <1>1, <1>2
<1>4. /\ _subscriptions' \in [Tokens -> Seq(Listeners)]
      /\ Waiting(_subscriptions'[t]) = {}
      /\ \A u \in Tokens :
            /\ Once(_subscriptions'[u])
            /\ u # t => Waiting(_subscriptions'[u]) = Sub(u) \ {<<t, 1>>, <<t, 2>>, <<t, 3>>}
  BY SettleRemoves DEF Sub
<1>5. X \subseteq Links
  <2>1. X \subseteq Listeners
    BY DEF Pending, PendingIn
  <2>2. X \cap Callbacks = {}
    BY NoCallbackIsALink
  <2> QED BY <2>1, <2>2 DEF Listeners
<1>6. Types'
  <2>1. arrived' \subseteq Links
    BY <1>5 DEF Types
  <2>2. _links' \subseteq {u \in Linked : _state'[u] = "unsignaled"}
    BY <1>1, <1>3 DEF Types, TypeOK, Tokens
  <2>3. timers' \subseteq {u \in Tokens : _state'[u] = "unsignaled"}
    BY <1>1, <1>3 DEF Types, TypeOK
  <2>4. /\ subscribed' \in [Callbacks -> [token : Tokens \cup {"none"},
                  how : {"not yet", "ignored", "withdrawn", "at once", "listed"}]]
        /\ ran' \in [Callbacks -> 0 .. 1]
    BY DEF Types, TypeOK
  <2>5. \A k \in DOMAIN calls' : calls'[k].todo \in Seq(Listeners) /\ calls'[k].program \in BOOLEAN
    BY FramesAre
  <2>6. arrived' \subseteq Listeners \ Callbacks
    BY <2>1, NoCallbackIsALink DEF Listeners
  <2>7. TypeOK'
    BY <1>3, <1>4, <2>2, <2>3, <2>4, <2>5, <2>6 DEF TypeOK
  <2> QED BY <1>4, <2>1, <2>4, <2>7 DEF Types
<1>7. ListenersOnce'
  BY <1>4 DEF ListenersOnce
<1>8. CallbacksKept'
  <2> SUFFICES ASSUME NEW c \in Callbacks PROVE CallbackKept(c)'
    BY DEF CallbacksKept
  <2>1. \A u \in Tokens : c \in Waiting(_subscriptions'[u]) <=> u # t /\ c \in Sub(u)
    BY <1>4, NoCallbackIsALink
  <2>2. c \in Pending' <=> c \in Pending \/ (s = "signaled" /\ c \in Sub(t))
    BY <1>5, NoCallbackIsALink
  <2>3. CallbackKept(c)
    BY DEF CallbacksKept
  <2>4. subscribed'[c] = subscribed[c] /\ ran'[c] = ran[c]
    OBVIOUS
  <2>5. ASSUME NEW u \in Tokens, c \in Waiting(_subscriptions'[u])
        PROVE  /\ subscribed'[c].how = "listed" /\ subscribed'[c].token = u
               /\ _state'[u] = "unsignaled"
               /\ ran'[c] = 0 /\ c \notin Pending'
    <3>1. u # t /\ c \in Sub(u)
      BY <2>1, <2>5
    <3>2. subscribed[c].how = "listed" /\ subscribed[c].token = u /\ c \notin Sub(t)
      BY <2>3, <3>1 DEF CallbackKept
    <3> QED BY <1>3, <2>2, <2>3, <2>4, <3>1, <3>2 DEF CallbackKept
  <2>6. c \in Sub(t) => subscribed[c].how = "listed" /\ subscribed[c].token = t /\ ran[c] = 0
    BY <2>3 DEF CallbackKept
  <2>7. subscribed[c].how = "listed" => subscribed[c].token \in Tokens
    BY <2>3 DEF CallbackKept
  <2>8. c \in Pending' => ran'[c] = 0
    <3>1. c \in Pending => ran[c] = 0
      BY <2>3 DEF CallbackKept
    <3> QED BY <2>2, <2>4, <2>6, <3>1, Zenon
  <2>9. c \in Pending' \/ ran'[c] = 1 =>
          \/ subscribed'[c].how = "at once"
          \/ subscribed'[c].how = "listed" /\ _state'[subscribed'[c].token] = "signaled"
    BY <1>1, <1>3, <2>2, <2>3, <2>4, <2>6, <2>7 DEF CallbackKept
  <2>10. subscribed'[c].how = "at once" => c \in Pending' \/ ran'[c] = 1
    BY <2>2, <2>3, <2>4 DEF CallbackKept
  <2>11. ASSUME subscribed'[c].how = "listed"
         PROVE  /\ subscribed'[c].token \in Tokens /\ _state'[subscribed'[c].token] # "absent"
                /\ _state'[subscribed'[c].token] = "unsignaled" =>
                     c \in Waiting(_subscriptions'[subscribed'[c].token])
                /\ _state'[subscribed'[c].token] = "signaled" => c \in Pending' \/ ran'[c] = 1
    <3>1. CASE subscribed[c].token = t
      BY <1>1, <1>3, <2>2, <2>3, <2>4, <2>11, <3>1 DEF CallbackKept
    <3>2. CASE subscribed[c].token # t
      BY <1>1, <1>3, <2>1, <2>2, <2>3, <2>4, <2>7, <2>11, <3>2 DEF CallbackKept
    <3> QED BY <3>1, <3>2
  <2> QED BY <2>5, <2>8, <2>9, <2>10, <2>11 DEF CallbackKept, Sub
<1>9. LinksKept'
  <2> SUFFICES ASSUME NEW u \in Linked, NEW i \in 1 .. 3 PROVE LinkKept(u, i)'
    BY DEF LinksKept
  <2>1. \A v \in Tokens :
           <<u, i>> \in Waiting(_subscriptions'[v]) <=> v # t /\ u # t /\ <<u, i>> \in Sub(v)
    BY <1>4
  <2>2. <<u, i>> \in Pending' <=> \/ <<u, i>> \in Pending /\ <<u, i>> \notin X
                                  \/ s = "signaled" /\ <<u, i>> \in Sub(t)
    OBVIOUS
  <2>3. <<u, i>> \in arrived' => <<u, i>> \in arrived \/ <<u, i>> \in X
    OBVIOUS
  <2>4. <<u, i>> \in X => u = t /\ <<u, i>> \in Pending
    OBVIOUS
  <2>5. LinkKept(u, i)
    BY DEF LinksKept
  <2>6. u \in Tokens /\ (u \in _links => _state[u] = "unsignaled")
    BY DEF Types, TypeOK, Tokens
  <2>7. i \in DOMAIN Signals[u] => Signals[u][i] \in Tokens
    BY SignalsOf
  <2> QED BY <1>1, <1>3, <2>1, <2>2, <2>3, <2>4, <2>5, <2>6, <2>7 DEF LinkKept, Sub
<1>10. LinksHeard'
  <2> SUFFICES ASSUME NEW u \in _links' PROVE LinkHeard(u)'
    BY DEF LinksHeard
  <2>1. u # t /\ u \in _links /\ u \in Linked
    BY <1>1 DEF Types, TypeOK
  <2>2. \A i \in DOMAIN Signals[u] :
           /\ <<u, i>> \notin {<<t, 1>>, <<t, 2>>, <<t, 3>>} /\ <<u, i>> \notin X
           /\ Signals[u][i] \in Tokens
    BY <2>1, SignalsOf
  <2>3. \A v \in Timely' : v \in Timely /\ (state[v] = "closed" => state'[v] = "closed")
    <3>1. _links' \subseteq Linked
      BY <1>1 DEF Types, TypeOK
    <3>2. \A v \in Timely' : v \in Tokens \ late' /\ v \in Timely
      BY TimelyFacts, TimelyFactsNext
    <3>3. \A v \in Timely' : v \notin _links /\ _state[v] = "closed" =>
               v \notin _links' /\ _state'[v] = "closed"
      BY <1>1, <1>3, <3>2
    <3>4. \A v \in _links \cap Timely' : state[v] = "closed" => v \in _links' \/ _state'[v] = "closed"
      BY <1>1, <1>3, <3>2
    <3> QED BY <3>1, <3>2, <3>3, <3>4, ClosedStays
  <2>4. s = "closed" => state'[t] = "closed"
    <3>1. t \notin _links' /\ _links' \subseteq Linked
      BY <1>1 DEF Types, TypeOK
    <3> QED BY <1>3, <3>1, StateFactsNext
  <2>5. LinkHeard(u)
    BY <2>1 DEF LinksHeard
  <2>6. ASSUME NEW i \in DOMAIN Signals[u]
        PROVE  /\ _state'[Signals[u][i]] # "absent"
               /\ \/ <<u, i>> \in Waiting(_subscriptions'[Signals[u][i]])
                  \/ <<u, i>> \in Pending' \/ <<u, i>> \in arrived'
                  \/ Signals[u][i] \in Timely' => state'[Signals[u][i]] = "closed"
    <3>1. CASE <<u, i>> \in Sub(Signals[u][i])
      BY <1>1, <1>3, <1>4, <2>2, <2>4, <2>5, <3>1 DEF LinkHeard
    <3>2. CASE <<u, i>> \notin Sub(Signals[u][i])
      BY <1>1, <1>3, <2>2, <2>3, <2>5, <3>2 DEF LinkHeard
    <3> QED BY <3>1, <3>2
  <2>7. Kind[u] = "all" => \E i \in DOMAIN Signals[u] : <<u, i>> \notin arrived'
    BY <2>2, <2>5 DEF LinkHeard
  <2> QED BY <2>6, <2>7 DEF LinkHeard, Sub
<1>11. WellFounded'
  BY <1>1 DEF WellFounded
<1> QED BY <1>6, <1>7, <1>8, <1>9, <1>10, <1>11

\* What is to be called is in no list.
LEMMA PendingIsUnlisted ==
    ASSUME IInv, NEW t \in Tokens
    PROVE  Sub(t) \cap Pending = {} /\ _subscriptions[t] \in Seq(Listeners) /\ Once(_subscriptions[t])
<1>1. _subscriptions[t] \in Seq(Listeners) /\ Once(_subscriptions[t])
  BY DEF IInv, Types, ListenersOnce
<1>2. ASSUME NEW l \in Sub(t) PROVE l \notin Pending
  <2>1. l \in Listeners
    BY <1>1, QueueEntries DEF Sub
  <2>2. CASE l \in Callbacks
    BY <2>2 DEF IInv, CallbacksKept, CallbackKept
  <2>3. CASE l \in Links
    <3>1. PICK u \in Linked, i \in 1 .. 3 : l = <<u, i>>
      BY <2>3 DEF Links
    <3> QED BY <3>1 DEF IInv, LinksKept, LinkKept
  <2> QED BY <2>1, <2>2, <2>3 DEF Listeners
<1> QED BY <1>1, <1>2

\* cancel() of t where only calls that go on are under way.
LEMMA SignalIInv ==
    ASSUME IInv, NEW t \in Tokens, Signal(t, calls), UNCHANGED <<arrived, subscribed, ran>>,
           late \subseteq late', state[t] = "closed" => t \in late'
    PROVE  IInv'
<1>1. Settle(t, "signaled") /\ calls' = Enter(_subscriptions[t], calls)
  BY DEF Signal
<1>2. calls \in Seq(Frames) /\ OnceIn(calls)
  BY DEF IInv, Types, ListenersOnce
<1>3. /\ calls' \in Seq(Frames) /\ OnceIn(calls')
      /\ Pending' = Pending \cup Sub(t)
  BY <1>1, <1>2, PendingIsUnlisted, EnterCalls DEF Pending, Sub
<1>4. Pending' = (Pending \ {}) \cup (IF "signaled" = "signaled" THEN Sub(t) ELSE {})
  BY <1>3
<1>5. {} \in SUBSET {<<t, 1>>, <<t, 2>>, <<t, 3>>} /\ {} \subseteq Pending
  OBVIOUS
<1>6. arrived \subseteq arrived' /\ arrived' \subseteq arrived \cup {}
  OBVIOUS
<1>7. \A l \in arrived' : l \in {} => Kind[t] = "all"
  OBVIOUS
<1> QED BY <1>1, <1>3, <1>4, <1>5, <1>6, <1>7, SettleIInv

LEMMA CloseIInv ==
    ASSUME IInv, NEW t \in Tokens, Close(t)
    PROVE  IInv'
<1>1. Settle(t, "closed") /\ UNCHANGED <<arrived, calls, subscribed, ran, late>>
  BY DEF Close
<1>2. calls' \in Seq(Frames) /\ OnceIn(calls')
  BY <1>1 DEF IInv, Types, ListenersOnce
<1>3. Pending' = (Pending \ {}) \cup (IF "closed" = "signaled" THEN Sub(t) ELSE {})
  BY <1>1 DEF Pending
<1>4. {} \in SUBSET {<<t, 1>>, <<t, 2>>, <<t, 3>>} /\ {} \subseteq Pending
  OBVIOUS
<1>5. arrived \subseteq arrived' /\ arrived' \subseteq arrived \cup {}
  BY <1>1
<1>6. \A l \in arrived' : l \in {} => Kind[t] = "all"
  OBVIOUS
<1>7. late \subseteq late' /\ ("closed" = "signaled" /\ state[t] = "closed" => t \in late')
  BY <1>1
<1> QED BY <1>1, <1>2, <1>3, <1>4, <1>5, <1>6, <1>7, SettleIInv

\* Steps that leave the tokens and their lists alone, and take the links X, if any, from
\* the listeners still to be called.
LEMMA TakeIInv ==
    ASSUME IInv, NEW X \in SUBSET Links, X \subseteq Pending,
           calls' \in Seq(Frames), OnceIn(calls'), Pending' = Pending \ X,
           timers' \subseteq {t \in Tokens : _state[t] = "unsignaled"},
           arrived \subseteq arrived', arrived' \subseteq arrived \cup X,
           \A t \in Linked, i \in 1 .. 3 : <<t, i>> \in X =>
              /\ <<t, i>> \in arrived' => Kind[t] = "all"
              /\ t \in _links => <<t, i>> \in arrived',
           \A t \in _links : Kind[t] = "all" =>
              \E i \in DOMAIN Signals[t] : <<t, i>> \notin arrived',
           UNCHANGED <<_state, _links, _subscriptions, subscribed, ran, late>>
    PROVE  IInv'
<1> USE DEF IInv
<1>1. state' = state
  BY DEF state
<1>2. X \cap Callbacks = {}
  BY NoCallbackIsALink
<1>3. Types'
  <2>1. \A k \in DOMAIN calls' : calls'[k].todo \in Seq(Listeners) /\ calls'[k].program \in BOOLEAN
    BY FramesAre
  <2>2. arrived' \subseteq Links
    BY DEF Types
  <2>3. arrived' \subseteq Listeners \ Callbacks
    BY <2>2, NoCallbackIsALink DEF Listeners
  <2>4. TypeOK'
    BY <2>1, <2>3 DEF Types, TypeOK
  <2> QED BY <2>2, <2>4 DEF Types
<1>4. ListenersOnce'
  BY DEF ListenersOnce
<1>5. CallbacksKept'
  <2> SUFFICES ASSUME NEW c \in Callbacks PROVE CallbackKept(c)'
    BY DEF CallbacksKept
  <2>1. c \in Pending' <=> c \in Pending
    BY <1>2
  <2>2. CallbackKept(c)
    BY DEF CallbacksKept
  <2> QED BY <2>1, <2>2 DEF CallbackKept, Sub
<1>6. LinksKept'
  <2> SUFFICES ASSUME NEW u \in Linked, NEW i \in 1 .. 3 PROVE LinkKept(u, i)'
    BY DEF LinksKept
  <2>1. LinkKept(u, i)
    BY DEF LinksKept
  <2> QED BY <2>1 DEF LinkKept, Sub
<1>7. LinksHeard'
  <2> SUFFICES ASSUME NEW u \in _links PROVE LinkHeard(u)'
    BY DEF LinksHeard
  <2>1. LinkHeard(u)
    BY DEF LinksHeard
  <2>2. u \in Linked /\ DOMAIN Signals[u] \subseteq 1 .. 3
    BY SignalsOf DEF Types, TypeOK
  <2>3. Timely' \subseteq Timely
    BY TimelyFacts
  <2> QED BY <1>1, <2>1, <2>2, <2>3 DEF LinkHeard, Sub
<1>8. WellFounded'
  BY DEF WellFounded
<1> QED BY <1>3, <1>4, <1>5, <1>6, <1>7, <1>8

\* Steps that take nothing.
LEMMA KeepIInv ==
    ASSUME IInv, calls' \in Seq(Frames), OnceIn(calls'), Pending' = Pending,
           timers' \subseteq {t \in Tokens : _state[t] = "unsignaled"},
           UNCHANGED <<_state, _links, _subscriptions, arrived, subscribed, ran, late>>
    PROVE  IInv'
<1>1. {} \in SUBSET Links /\ {} \subseteq Pending /\ Pending' = Pending \ {}
  OBVIOUS
<1>2. arrived \subseteq arrived' /\ arrived' \subseteq arrived \cup {}
  OBVIOUS
<1>3. \A t \in Linked, i \in 1 .. 3 : <<t, i>> \in {} =>
              /\ <<t, i>> \in arrived' => Kind[t] = "all"
              /\ t \in _links => <<t, i>> \in arrived'
  OBVIOUS
<1>4. \A t \in _links : Kind[t] = "all" =>
              \E i \in DOMAIN Signals[t] : <<t, i>> \notin arrived'
  BY DEF IInv, LinksHeard, LinkHeard
<1> QED BY <1>1, <1>2, <1>3, <1>4, TakeIInv

LEMMA CallLinkIInv ==
    ASSUME IInv, NEW t \in Linked, NEW i \in DOMAIN Signals[t], CallLink(t, i)
    PROVE  IInv'
<1> DEFINE l == <<t, i>>
<1>1. t \in Tokens /\ i \in 1 .. 3 /\ Signals[t][i] \in Each(t) /\ Each(t) \subseteq Tokens
  BY SignalsOf
<1>2. l \in Links
  BY <1>1 DEF Links
<1>3. calls \in Seq(Frames) /\ OnceIn(calls) /\ Types
  BY DEF IInv, Types, ListenersOnce
<1>4. /\ l \in Pending
      /\ Rest(FALSE) \in Seq(Frames) /\ OnceIn(Rest(FALSE))
      /\ PendingIn(Rest(FALSE)) = Pending \ {l}
  BY <1>3, RestCalls DEF CallLink
<1>5. LinkKept(t, i)
  BY <1>1 DEF IInv, LinksKept
<1>6. _state[Signals[t][i]] = "signaled" /\ l \notin arrived
  BY <1>4, <1>5 DEF LinkKept
<1>7. /\ arrived' = IF Kind[t] = "all" THEN arrived \cup {l} ELSE arrived
      /\ UNCHANGED <<subscribed, ran, late>>
  BY DEF CallLink
<1> HIDE DEF l
<1>8. CASE Completes(t, i) /\ _state[t] = "unsignaled"
  <2>1. Settle(t, "signaled") /\ calls' = Enter(_subscriptions[t], Rest(FALSE))
    BY <1>8 DEF CallLink, Signal
  <2>2. /\ calls' \in Seq(Frames) /\ OnceIn(calls')
        /\ PendingIn(calls') = (Pending \ {l}) \cup Sub(t)
    <3>1. Waiting(_subscriptions[t]) \cap (Pending \ {l}) = {}
      BY <1>1, PendingIsUnlisted DEF Sub
    <3> QED BY <1>1, <1>4, <2>1, <3>1, PendingIsUnlisted, EnterCalls DEF Sub
  <2>3. Pending' = (Pending \ {l}) \cup (IF "signaled" = "signaled" THEN Sub(t) ELSE {})
    BY <2>2 DEF Pending
  <2>4. state[t] # "closed"
    <3>1. Signals[t][i] \notin _links
      BY <1>3, <1>6 DEF Types, TypeOK
    <3>2. state[Signals[t][i]] = "signaled"
      BY <1>1, <1>3, <1>6, <3>1, StateFacts
    <3> QED BY <1>1, <1>3, <1>8, <3>2, StateFacts
  <2>5. {l} \in SUBSET {<<t, 1>>, <<t, 2>>, <<t, 3>>} /\ {l} \subseteq Pending
    BY <1>1, <1>4 DEF l
  <2>6. /\ arrived \subseteq arrived' /\ arrived' \subseteq arrived \cup {l}
        /\ \A m \in arrived' : m \in {l} => Kind[t] = "all"
    BY <1>6, <1>7
  <2>7. late \subseteq late' /\ ("signaled" = "signaled" /\ state[t] = "closed" => t \in late')
    BY <1>7, <2>4
  <2> QED BY <1>1, <1>7, <2>1, <2>2, <2>3, <2>5, <2>6, <2>7, SettleIInv
<1>9. CASE ~(Completes(t, i) /\ _state[t] = "unsignaled")
  <2>1. calls' = Rest(FALSE) /\ UNCHANGED <<_state, _links, _subscriptions, timers>>
    BY <1>9 DEF CallLink
  <2>2. calls' \in Seq(Frames) /\ OnceIn(calls') /\ Pending' = Pending \ {l}
    BY <1>4, <2>1 DEF Pending
  <2>3. t \in _links => Kind[t] = "all" /\ l \in arrived'
    BY <1>3, <1>7, <1>9 DEF Completes, Types, TypeOK
  <2>4. \A u \in Linked, j \in 1 .. 3 : <<u, j>> \in {l} =>
              /\ <<u, j>> \in arrived' => Kind[u] = "all"
              /\ u \in _links => <<u, j>> \in arrived'
    BY <1>6, <1>7, <2>3 DEF l
  <2>5. ASSUME NEW u \in _links, Kind[u] = "all"
        PROVE  \E j \in DOMAIN Signals[u] : <<u, j>> \notin arrived'
    <3>1. CASE u = t
      <4>1. PICK j \in DOMAIN Signals[t] : j # i /\ <<t, j>> \notin arrived
        BY <1>3, <1>9, <2>5, <3>1 DEF Completes, Types, TypeOK
      <4> QED BY <1>7, <3>1, <4>1 DEF l
    <3>2. CASE u # t
      BY <1>7, <2>5, <3>2 DEF IInv, LinksHeard, LinkHeard, l
    <3> QED BY <3>1, <3>2
  <2>6. timers' \subseteq {u \in Tokens : _state[u] = "unsignaled"}
    BY <1>3, <2>1 DEF Types, TypeOK
  <2>7. {l} \in SUBSET Links /\ {l} \subseteq Pending
    BY <1>2, <1>4
  <2>8. arrived \subseteq arrived' /\ arrived' \subseteq arrived \cup {l}
    BY <1>7
  <2> QED BY <1>7, <2>1, <2>2, <2>4, <2>5, <2>6, <2>7, <2>8, TakeIInv
<1> QED BY <1>8, <1>9

LEMMA CallBackIInv ==
    ASSUME IInv, NEW c \in Callbacks, CallBack(c)
    PROVE  IInv'
<1> USE DEF IInv
<1>1. /\ IsNext(c) /\ calls' = Rest(TRUE) /\ ran' = [ran EXCEPT ![c] = @ + 1]
      /\ UNCHANGED <<_state, _links, _subscriptions, arrived, timers, subscribed, late>>
  BY DEF CallBack
<1>2. OnceIn(calls)
  BY DEF ListenersOnce
<1>3. /\ c \in Pending
      /\ calls' \in Seq(Frames) /\ OnceIn(calls') /\ Pending' = Pending \ {c}
  BY <1>1, <1>2, RestCalls DEF Pending
<1>4. CallbackKept(c)
  BY DEF CallbacksKept
<1>5. ran \in [Callbacks -> 0 .. 1] /\ ran[c] = 0
  BY <1>3, <1>4 DEF CallbackKept, Types, TypeOK
<1>6. /\ ran' \in [Callbacks -> 0 .. 1] /\ ran'[c] = 1
      /\ \A d \in Callbacks : d # c => ran'[d] = ran[d]
  BY <1>1, <1>5
<1>7. state' = state
  BY <1>1 DEF state
<1>8. Types'
  <2>1. \A k \in DOMAIN calls' : calls'[k].todo \in Seq(Listeners) /\ calls'[k].program \in BOOLEAN
    BY <1>3, FramesAre
  <2>2. TypeOK'
    BY <1>1, <1>6, <2>1 DEF Types, TypeOK
  <2> QED BY <1>1, <1>3, <2>2 DEF Types
<1>9. ListenersOnce'
  BY <1>1, <1>3 DEF ListenersOnce
<1>10. CallbacksKept'
  <2> SUFFICES ASSUME NEW d \in Callbacks PROVE CallbackKept(d)'
    BY DEF CallbacksKept
  <2>1. CallbackKept(d)
    BY DEF CallbacksKept
  <2>2. CASE d # c
    <3>1. d \in Pending' <=> d \in Pending
      BY <1>3, <2>2
    <3> QED BY <1>1, <1>6, <2>1, <2>2, <3>1 DEF CallbackKept, Sub
  <2>3. CASE d = c
    <3>1. \A u \in Tokens : c \notin Sub(u)
      BY <1>3, <1>4 DEF CallbackKept
    <3>2. c \notin Pending'
      BY <1>3
    <3>3. \/ subscribed[c].how = "at once"
          \/ subscribed[c].how = "listed" /\ _state[subscribed[c].token] = "signaled"
      BY <1>3, <1>4 DEF CallbackKept
    <3> QED BY <1>1, <1>4, <1>6, <2>3, <3>1, <3>2, <3>3 DEF CallbackKept, Sub
  <2> QED BY <2>2, <2>3
<1>11. LinksKept'
  <2> SUFFICES ASSUME NEW u \in Linked, NEW i \in 1 .. 3 PROVE LinkKept(u, i)'
    BY DEF LinksKept
  <2>1. LinkKept(u, i)
    BY DEF LinksKept
  <2>2. <<u, i>> \in Pending' <=> <<u, i>> \in Pending
    BY <1>3, NoCallbackIsALink DEF Tokens
  <2> QED BY <1>1, <2>1, <2>2 DEF LinkKept, Sub
<1>12. LinksHeard'
  <2> SUFFICES ASSUME NEW u \in _links PROVE LinkHeard(u)'
    BY <1>1 DEF LinksHeard
  <2>1. LinkHeard(u)
    BY DEF LinksHeard
  <2>2. u \in Tokens /\ DOMAIN Signals[u] \subseteq 1 .. 3
    BY SignalsOf DEF Types, TypeOK
  <2>3. \A i \in DOMAIN Signals[u] : <<u, i>> \in Pending' <=> <<u, i>> \in Pending
    BY <1>3, <2>2, NoCallbackIsALink
  <2>4. Timely' \subseteq Timely
    BY <1>1, TimelyFacts
  <2> QED BY <1>1, <1>7, <2>1, <2>3, <2>4 DEF LinkHeard, Sub
<1>13. WellFounded'
  BY <1>1 DEF WellFounded
<1> QED BY <1>8, <1>9, <1>10, <1>11, <1>12, <1>13

\* Steps on the subscription of a callback c, whatever way it is done: the other listeners
\* stay where they are.
LEMMA SubscriptionIInv ==
    ASSUME IInv, NEW c \in Callbacks,
           _subscriptions' \in [Tokens -> Seq(Listeners)],
           \A s \in Tokens : /\ Once(_subscriptions'[s])
                             /\ Waiting(_subscriptions'[s]) \ {c} = Sub(s) \ {c},
           calls' \in Seq(Frames), OnceIn(calls'), Pending' \ {c} = Pending \ {c},
           subscribed' \in [Callbacks -> [token : Tokens \cup {"none"},
                               how : {"not yet", "ignored", "withdrawn", "at once", "listed"}]],
           \A d \in Callbacks : d # c => subscribed'[d] = subscribed[d],
           CallbackKept(c)',
           UNCHANGED <<_state, _links, arrived, timers, ran, late>>
    PROVE  IInv'
<1> USE DEF IInv
<1>1. state' = state
  BY DEF state
<1>2. \A l \in Listeners : l # c => /\ \A s \in Tokens : l \in Waiting(_subscriptions'[s]) <=> l \in Sub(s)
                                    /\ l \in Pending' <=> l \in Pending
  OBVIOUS
<1>3. \A u \in Linked, i \in 1 .. 3 : <<u, i>> \in Listeners /\ <<u, i>> # c
  <2> TAKE u \in Linked, i \in 1 .. 3
  <2>1. u \in Tokens
    BY DEF Tokens
  <2> QED BY <2>1, NoCallbackIsALink DEF Listeners
<1>4. Types'
  <2>1. \A k \in DOMAIN calls' : calls'[k].todo \in Seq(Listeners) /\ calls'[k].program \in BOOLEAN
    BY FramesAre
  <2>2. TypeOK'
    BY <2>1 DEF Types, TypeOK
  <2> QED BY <2>2 DEF Types
<1>5. ListenersOnce'
  BY DEF ListenersOnce
<1>6. CallbacksKept'
  <2> SUFFICES ASSUME NEW d \in Callbacks, d # c PROVE CallbackKept(d)'
    BY DEF CallbacksKept
  <2>1. CallbackKept(d)
    BY DEF CallbacksKept
  <2>2. d \in Listeners
    BY DEF Listeners
  <2>3. /\ \A s \in Tokens : d \in Sub(s)' <=> d \in Sub(s)
        /\ d \in Pending' <=> d \in Pending
        /\ subscribed'[d] = subscribed[d]
    BY <1>2, <2>2 DEF Sub
  <2> QED BY <2>1, <2>3 DEF CallbackKept
<1>7. LinksKept'
  <2> SUFFICES ASSUME NEW u \in Linked, NEW i \in 1 .. 3 PROVE LinkKept(u, i)'
    BY DEF LinksKept
  <2>1. LinkKept(u, i)
    BY DEF LinksKept
  <2> QED BY <1>2, <1>3, <2>1 DEF LinkKept, Sub
<1>8. LinksHeard'
  <2> SUFFICES ASSUME NEW u \in _links PROVE LinkHeard(u)'
    BY DEF LinksHeard
  <2>1. LinkHeard(u)
    BY DEF LinksHeard
  <2>2. u \in Linked /\ DOMAIN Signals[u] \subseteq 1 .. 3
    BY SignalsOf DEF Types, TypeOK
  <2>3. \A i \in DOMAIN Signals[u] : Signals[u][i] \in Tokens
    BY <2>2, SignalsOf
  <2>4. Timely' \subseteq Timely
    BY TimelyFacts
  <2> QED BY <1>1, <1>2, <1>3, <2>1, <2>2, <2>3, <2>4 DEF LinkHeard, Sub
<1>9. WellFounded'
  BY DEF WellFounded
<1> QED BY <1>4, <1>5, <1>6, <1>7, <1>8, <1>9

LEMMA SubscribeIInv ==
    ASSUME IInv, NEW c \in Callbacks, NEW t \in Tokens, Subscribe(c, t)
    PROVE  IInv'
<1> DEFINE Old == [Callbacks -> [token : Tokens \cup {"none"},
                         how : {"not yet", "ignored", "withdrawn", "at once", "listed"}]]
<1>1. /\ subscribed \in Old /\ _subscriptions \in [Tokens -> Seq(Listeners)]
      /\ calls \in Seq(Frames) /\ OnceIn(calls)
      /\ \A s \in Tokens : Once(_subscriptions[s])
  BY DEF IInv, Types, ListenersOnce
<1>2. /\ subscribed[c].how = "not yet" /\ _state[t] # "absent"
      /\ UNCHANGED <<_state, _links, arrived, timers, ran, late>>
  <2>1. subscribed[c] = Unborn /\ Unborn.how = "not yet"
    BY DEF Subscribe, Unborn
  <2> QED BY <2>1 DEF Subscribe
<1>3. ran[c] # 1 /\ c \notin Pending /\ \A s \in Tokens : c \notin Sub(s)
  <2>1. CallbackKept(c)
    BY DEF IInv, CallbacksKept
  <2>2. subscribed[c].how # "at once" /\ subscribed[c].how # "listed"
    BY <1>2
  <2> QED BY <2>1, <2>2, Zenon DEF CallbackKept
<1>4. ran[c] = 0 /\ ran'[c] = 0 /\ ran'[c] # 1
  <2>1. ran[c] \in 0 .. 1
    BY DEF IInv, Types, TypeOK
  <2>2. ran' = ran
    BY <1>2
  <2>3. ran[c] # 1
    BY <1>3
  <2> QED BY <2>1, <2>2, <2>3
<1>5. ASSUME NEW how \in {"ignored", "at once", "listed"},
             subscribed' = [subscribed EXCEPT ![c] = [token |-> t, how |-> how]]
      PROVE  /\ subscribed' \in Old
             /\ subscribed'[c].token = t /\ subscribed'[c].how = how
             /\ \A d \in Callbacks : d # c => subscribed'[d] = subscribed[d]
  BY <1>1, <1>5
<1> HIDE DEF Old
<1>6. CASE /\ state[t] = "unsignaled"
           /\ subscribed' = [subscribed EXCEPT ![c] = [token |-> t, how |-> "listed"]]
           /\ _subscriptions' = [_subscriptions EXCEPT ![t] = Enqueued(@, c)]
           /\ UNCHANGED calls
  <2>1. c \in Listeners
    BY DEF Listeners
  <2>2. /\ Enqueued(_subscriptions[t], c) \in Seq(Listeners)
        /\ Once(Enqueued(_subscriptions[t], c))
        /\ Waiting(Enqueued(_subscriptions[t], c)) = Sub(t) \cup {c}
    BY <1>1, <1>3, <2>1, EnqueueAdds DEF Sub
  <2>3. /\ _subscriptions' \in [Tokens -> Seq(Listeners)]
        /\ Waiting(_subscriptions'[t]) = Sub(t) \cup {c}
        /\ Once(_subscriptions'[t])
        /\ \A s \in Tokens : s # t => _subscriptions'[s] = _subscriptions[s]
    BY <1>1, <1>6, <2>2
  <2>4. /\ subscribed'[c].how = "listed" /\ subscribed'[c].token = t /\ subscribed' \in Old
        /\ \A d \in Callbacks : d # c => subscribed'[d] = subscribed[d]
    BY <1>5, <1>6
  <2>5. _state'[t] = "unsignaled" /\ Pending' = Pending
    BY <1>2, <1>6, StateFacts DEF IInv, Pending
  <2>6. \A s \in Tokens : /\ Once(_subscriptions'[s])
                          /\ Waiting(_subscriptions'[s]) \ {c} = Sub(s) \ {c}
    BY <1>1, <2>3 DEF Sub
  <2>7. \A s \in Tokens : c \in Waiting(_subscriptions'[s]) <=> s = t
    BY <1>3, <2>3 DEF Sub
  <2>8. CallbackKept(c)'
    BY <1>3, <1>4, <2>4, <2>5, <2>7 DEF CallbackKept, Sub
  <2> QED BY <1>1, <1>2, <1>6, <2>3, <2>4, <2>5, <2>6, <2>8, SubscriptionIInv DEF Old
<1>7. CASE /\ state[t] = "signaled"
           /\ subscribed' = [subscribed EXCEPT ![c] = [token |-> t, how |-> "at once"]]
           /\ calls' = Enter(<<c>>, calls)
           /\ UNCHANGED _subscriptions
  <2>1. <<c>> \in Seq(Listeners) /\ Waiting(<<c>>) = {c} /\ Once(<<c>>)
    BY DEF Listeners, Waiting, Once
  <2>2. /\ calls' \in Seq(Frames) /\ OnceIn(calls')
        /\ Pending' = Pending \cup {c}
    <3>1. Waiting(<<c>>) \cap PendingIn(calls) = {}
      BY <1>3, <2>1 DEF Pending
    <3> QED BY <1>1, <1>7, <2>1, <3>1, EnterCalls DEF Pending
  <2>3. /\ subscribed'[c].how = "at once" /\ subscribed' \in Old
        /\ \A d \in Callbacks : d # c => subscribed'[d] = subscribed[d]
    BY <1>5, <1>7
  <2>4. \A s \in Tokens : /\ Once(_subscriptions'[s])
                          /\ Waiting(_subscriptions'[s]) \ {c} = Sub(s) \ {c}
                          /\ c \notin Waiting(_subscriptions'[s])
    BY <1>1, <1>3, <1>7 DEF Sub
  <2>5. CallbackKept(c)'
    BY <1>4, <2>2, <2>3, <2>4 DEF CallbackKept, Sub
  <2> QED BY <1>1, <1>2, <1>7, <2>2, <2>3, <2>4, <2>5, SubscriptionIInv DEF Old
<1>8. CASE /\ state[t] = "closed"
           /\ subscribed' = [subscribed EXCEPT ![c] = [token |-> t, how |-> "ignored"]]
           /\ UNCHANGED <<calls, _subscriptions>>
  <2>1. /\ subscribed'[c].how = "ignored" /\ subscribed' \in Old
        /\ \A d \in Callbacks : d # c => subscribed'[d] = subscribed[d]
    BY <1>5, <1>8
  <2>2. Pending' = Pending
    BY <1>8 DEF Pending
  <2>3. \A s \in Tokens : /\ Once(_subscriptions'[s])
                          /\ Waiting(_subscriptions'[s]) \ {c} = Sub(s) \ {c}
                          /\ c \notin Waiting(_subscriptions'[s])
    BY <1>1, <1>3, <1>8 DEF Sub
  <2>4. CallbackKept(c)'
    BY <1>3, <1>4, <2>1, <2>2, <2>3 DEF CallbackKept, Sub
  <2> QED BY <1>1, <1>2, <1>8, <2>1, <2>2, <2>3, <2>4, SubscriptionIInv DEF Old
<1> QED BY <1>6, <1>7, <1>8 DEF Subscribe

LEMMA UnsubscribeIInv ==
    ASSUME IInv, NEW c \in Callbacks, Unsubscribe(c)
    PROVE  IInv'
<1> DEFINE t == subscribed[c].token
<1>1. /\ _subscriptions \in [Tokens -> Seq(Listeners)]
      /\ calls \in Seq(Frames) /\ OnceIn(calls)
      /\ \A s \in Tokens : Once(_subscriptions[s])
  BY DEF IInv, Types, ListenersOnce
<1>2. CallbackKept(c)
  BY DEF IInv, CallbacksKept
<1>3. /\ subscribed[c].how = "listed" /\ c \in Sub(t)
      /\ _subscriptions' = [_subscriptions EXCEPT ![t] = Canceled(@, c)]
      /\ subscribed' = [subscribed EXCEPT ![c].how = "withdrawn"]
      /\ UNCHANGED <<_state, _links, arrived, timers, calls, ran, late>>
  BY DEF Unsubscribe, Sub
<1>4. t \in Tokens /\ c \notin Pending /\ ran[c] = 0 /\ ran'[c] # 1 /\ Pending' = Pending
  BY <1>2, <1>3 DEF CallbackKept, Pending
<1>5. /\ subscribed' \in [Callbacks -> [token : Tokens \cup {"none"},
                             how : {"not yet", "ignored", "withdrawn", "at once", "listed"}]]
      /\ subscribed'[c].how = "withdrawn"
      /\ \A d \in Callbacks : d # c => subscribed'[d] = subscribed[d]
  BY <1>3 DEF IInv, Types
<1>6. \A s \in Tokens : c \in Sub(s) => s = t
  BY <1>2 DEF CallbackKept
<1> HIDE DEF t
<1>7. /\ Canceled(_subscriptions[t], c) \in Seq(Listeners)
      /\ Once(Canceled(_subscriptions[t], c))
      /\ Waiting(Canceled(_subscriptions[t], c)) = Sub(t) \ {c}
  BY <1>1, <1>3, <1>4, CancelRemoves DEF Sub
<1>8. /\ _subscriptions' \in [Tokens -> Seq(Listeners)]
      /\ Waiting(_subscriptions'[t]) = Sub(t) \ {c}
      /\ Once(_subscriptions'[t])
      /\ \A s \in Tokens : s # t => _subscriptions'[s] = _subscriptions[s]
  BY <1>1, <1>3, <1>4, <1>7
<1>9. \A s \in Tokens : /\ Once(_subscriptions'[s])
                        /\ Waiting(_subscriptions'[s]) \ {c} = Sub(s) \ {c}
                        /\ c \notin Waiting(_subscriptions'[s])
  BY <1>1, <1>6, <1>8 DEF Sub
<1>10. CallbackKept(c)'
  BY <1>3, <1>4, <1>5, <1>9 DEF CallbackKept, Sub
<1> QED BY <1>1, <1>3, <1>4, <1>5, <1>8, <1>9, <1>10, SubscriptionIInv

\* source(), race() and all(): t listens to the signals in W, and H of them have been
\* signaled already.  Without links W and H are empty.
LEMMA NewTokenIInv ==
    ASSUME IInv, NEW t \in Linked, _state[t] = "absent",
           \A s \in Each(t) : _state[s] # "absent",
           NEW s \in {"unsignaled", "signaled", "closed"}, NEW linked \in BOOLEAN,
           _state' = [_state EXCEPT ![t] = s],
           _links' = IF linked THEN _links \cup {t} ELSE _links,
           NEW W \in SUBSET (DOMAIN Signals[t]), NEW H \in SUBSET (DOMAIN Signals[t]),
           W \cap H = {},
           \A i \in W : _state[Signals[t][i]] = "unsignaled",
           linked => /\ s = "unsignaled"
                     /\ \A i \in DOMAIN Signals[t] :
                           i \in W \/ i \in H \/ state[Signals[t][i]] = "closed"
                     /\ Kind[t] = "all" => H # DOMAIN Signals[t],
           ~linked => W = {},
           H # {} => Kind[t] = "all",
           arrived' = arrived \cup {<<t, i>> : i \in H},
           _subscriptions' \in [Tokens -> Seq(Listeners)],
           \A v \in Tokens :
              /\ Once(_subscriptions'[v])
              /\ Waiting(_subscriptions'[v])
                    = Sub(v) \cup {<<t, i>> : i \in {j \in W : Signals[t][j] = v}},
           UNCHANGED <<timers, calls, subscribed, ran, late>>
    PROVE  IInv'
<1> USE DEF IInv
<1>1. /\ t \in Tokens /\ Each(t) \subseteq Tokens /\ DOMAIN Signals[t] \subseteq 1 .. 3
      /\ \A i \in DOMAIN Signals[t] : Signals[t][i] \in Each(t)
  BY SignalsOf
<1>2. /\ _state \in [Tokens -> {"absent", "unsignaled", "signaled", "closed"}]
      /\ _links \subseteq {u \in Linked : _state[u] = "unsignaled"}
      /\ arrived \subseteq Links
  BY DEF Types, TypeOK
<1>3. /\ _state' \in [Tokens -> {"absent", "unsignaled", "signaled", "closed"}]
      /\ _state'[t] = s /\ \A u \in Tokens : u # t => _state'[u] = _state[u]
  BY <1>1, <1>2
<1>4. /\ t \notin Each(t) /\ t \notin _links
      /\ \A u \in _links : t \notin Each(u)
  <2>1. \A u \in _links : \A v \in Each(u) : _state[v] # "absent"
    BY DEF LinksHeard, LinkHeard, Each
  <2> QED BY <1>2, <2>1
<1>5. /\ _links' \subseteq {u \in Linked : _state'[u] = "unsignaled"}
      /\ \A u \in _links' : (u = t /\ linked) \/ (u # t /\ u \in _links)
      /\ \A u \in _links : u \in _links'
      /\ linked => t \in _links'
  BY <1>1, <1>2, <1>3, <1>4 DEF Tokens
<1>6. Pending' = Pending
  BY DEF Pending
<1>7. \A i \in 1 .. 3 : /\ <<t, i>> \notin Pending /\ <<t, i>> \notin arrived
                        /\ \A v \in Tokens : <<t, i>> \notin Sub(v)
  BY <1>4 DEF LinksKept, LinkKept
<1>8. \A v \in Timely' : v \in Timely /\ (state[v] = "closed" => state'[v] = "closed")
  <2>0. \A v \in Timely' : v \in Tokens /\ v \in Timely
    BY TimelyFacts, TimelyFactsNext
  <2>1. _links' \subseteq Linked
    BY <1>5
  <2>2. \A v \in Timely' : v \notin _links /\ _state[v] = "closed" =>
               v \notin _links' /\ _state'[v] = "closed"
    BY <1>3, <1>5, <2>0
  <2>3. \A v \in _links \cap Timely' : state[v] = "closed" => v \in _links' \/ _state'[v] = "closed"
    BY <1>5
  <2> QED BY <2>0, <2>1, <2>2, <2>3, ClosedStays
<1>9. Types'
  <2>1. {<<t, i>> : i \in H} \subseteq Links
    BY <1>1, NoCallbackIsALink
  <2>2. arrived' \subseteq Links
    BY <1>2, <2>1
  <2>3. arrived' \subseteq Listeners \ Callbacks
    BY <2>2, NoCallbackIsALink DEF Listeners
  <2>4. timers' \subseteq {u \in Tokens : _state'[u] = "unsignaled"}
    BY <1>3 DEF Types, TypeOK
  <2>5. TypeOK'
    BY <1>3, <1>5, <2>3, <2>4 DEF Types, TypeOK
  <2> QED BY <2>2, <2>5 DEF Types
<1>10. ListenersOnce'
  BY DEF ListenersOnce
<1>11. CallbacksKept'
  <2> SUFFICES ASSUME NEW c \in Callbacks PROVE CallbackKept(c)'
    BY DEF CallbacksKept
  <2>1. CallbackKept(c)
    BY DEF CallbacksKept
  <2>2. \A v \in Tokens : c \in Waiting(_subscriptions'[v]) <=> c \in Sub(v)
    BY <1>1, NoCallbackIsALink
  <2>3. \A v \in Tokens : _state[v] # "absent" => _state'[v] = _state[v]
    BY <1>3
  <2> QED BY <1>6, <2>1, <2>2, <2>3 DEF CallbackKept, Sub
<1>12. LinksKept'
  <2> SUFFICES ASSUME NEW u \in Linked, NEW i \in 1 .. 3 PROVE LinkKept(u, i)'
    BY DEF LinksKept
  <2>1. LinkKept(u, i)
    BY DEF LinksKept
  <2>2. i \in DOMAIN Signals[u] => Signals[u][i] \in Tokens
    BY SignalsOf
  <2>3. CASE u # t
    <3>1. \A v \in Tokens : <<u, i>> \in Waiting(_subscriptions'[v]) <=> <<u, i>> \in Sub(v)
      BY <2>3
    <3>2. <<u, i>> \in arrived' <=> <<u, i>> \in arrived
      BY <2>3
    <3>3. \A v \in Tokens : _state[v] # "absent" => _state'[v] = _state[v]
      BY <1>3
    <3>4. u \in Tokens /\ _state'[u] = _state[u]
      BY <1>3, <2>3 DEF Tokens
    <3>5. \A v \in Tokens : <<u, i>> \in Waiting(_subscriptions'[v]) =>
             /\ u \in _links' /\ i \in DOMAIN Signals[u] /\ Signals[u][i] = v
             /\ _state'[v] = "unsignaled"
             /\ <<u, i>> \notin Pending' /\ <<u, i>> \notin arrived'
      <4> SUFFICES ASSUME NEW v \in Tokens, <<u, i>> \in Sub(v)
                   PROVE  /\ u \in _links' /\ i \in DOMAIN Signals[u] /\ Signals[u][i] = v
                          /\ _state'[v] = "unsignaled"
                          /\ <<u, i>> \notin Pending' /\ <<u, i>> \notin arrived'
        BY <3>1
      <4>1. /\ u \in _links /\ i \in DOMAIN Signals[u] /\ Signals[u][i] = v
            /\ _state[v] = "unsignaled"
            /\ <<u, i>> \notin Pending /\ <<u, i>> \notin arrived
        BY <2>1 DEF LinkKept
      <4> QED BY <1>5, <1>6, <3>2, <3>3, <4>1
    <3>6. <<u, i>> \in Pending' =>
             /\ i \in DOMAIN Signals[u] /\ _state'[Signals[u][i]] = "signaled"
             /\ <<u, i>> \notin arrived'
      BY <1>6, <2>1, <2>2, <3>2, <3>3 DEF LinkKept
    <3> QED BY <1>6, <2>1, <3>2, <3>4, <3>5, <3>6 DEF LinkKept, Sub
  <2>4. CASE u = t
    <3>1. \A v \in Tokens : <<t, i>> \in Waiting(_subscriptions'[v]) =>
             i \in W /\ Signals[t][i] = v
      <4> SUFFICES ASSUME NEW v \in Tokens, <<t, i>> \in Waiting(_subscriptions'[v])
                   PROVE  i \in W /\ Signals[t][i] = v
        OBVIOUS
      <4>1. <<t, i>> \in {<<t, k>> : k \in {j \in W : Signals[t][j] = v}}
        BY <1>7
      <4> QED BY <4>1
    <3>2. <<t, i>> \in arrived' <=> i \in H
      BY <1>7
    <3>3. \A j \in W : _state'[Signals[t][j]] = "unsignaled"
      BY <1>1, <1>3, <1>4
    <3>4. i \in W => t \in _links' /\ i \notin H
      BY <1>5
    <3>5. <<t, i>> \notin Pending'
      BY <1>6, <1>7
    <3>6. _state'[t] # "absent"
      BY <1>3
    <3> QED BY <2>4, <3>1, <3>2, <3>3, <3>4, <3>5, <3>6 DEF LinkKept, Sub
  <2> QED BY <2>3, <2>4
<1>13. LinksHeard'
  <2> SUFFICES ASSUME NEW u \in _links' PROVE LinkHeard(u)'
    BY DEF LinksHeard
  <2>1. CASE u = t
    <3>1. linked
      BY <1>4, <1>5, <2>1
    <3>2. \A i \in DOMAIN Signals[t] : _state'[Signals[t][i]] # "absent"
      BY <1>1, <1>3
    <3>3. ASSUME NEW i \in DOMAIN Signals[t]
          PROVE  \/ <<t, i>> \in Waiting(_subscriptions'[Signals[t][i]])
                 \/ <<t, i>> \in arrived'
                 \/ Signals[t][i] \in Timely' => state'[Signals[t][i]] = "closed"
      <4>1. CASE i \in W
        BY <1>1, <4>1
      <4>2. CASE i \in H
        BY <4>2
      <4>3. CASE state[Signals[t][i]] = "closed"
        BY <1>1, <1>8, <4>3
      <4> QED BY <3>1, <4>1, <4>2, <4>3
    <3>4. Kind[t] = "all" => \E i \in DOMAIN Signals[t] : <<t, i>> \notin arrived'
      <4> SUFFICES ASSUME Kind[t] = "all"
                   PROVE  \E i \in DOMAIN Signals[t] : <<t, i>> \notin arrived'
        OBVIOUS
      <4>1. PICK i \in DOMAIN Signals[t] : i \notin H
        BY <3>1
      <4>2. <<t, i>> \notin arrived /\ <<t, i>> \notin {<<t, j>> : j \in H}
        BY <1>1, <1>7, <4>1
      <4> QED BY <4>2
    <3> QED BY <2>1, <3>2, <3>3, <3>4 DEF LinkHeard, Sub
  <2>2. CASE u # t
    <3>1. u \in _links /\ LinkHeard(u)
      BY <1>5, <2>2 DEF LinksHeard
    <3>2. \A i \in DOMAIN Signals[u] : Signals[u][i] \in Tokens
      BY <1>2, <3>1, SignalsOf
    <3>3. \A i \in DOMAIN Signals[u] : <<u, i>> \in arrived' <=> <<u, i>> \in arrived
      BY <2>2
    <3>4. \A i \in DOMAIN Signals[u] : _state'[Signals[u][i]] = _state[Signals[u][i]]
      BY <1>3, <1>4, <3>1, <3>2 DEF LinkHeard
    <3> QED BY <1>6, <1>8, <3>1, <3>2, <3>3, <3>4 DEF LinkHeard, Sub
  <2> QED BY <2>1, <2>2
<1>14. WellFounded'
  <2> SUFFICES ASSUME NEW D \in SUBSET Tokens, D # {}
               PROVE  \E u \in D : u \notin _links' \/ Each(u) \cap D = {}
    BY DEF WellFounded
  <2>1. CASE D \ {t} = {}
    BY <1>4, <2>1
  <2>2. CASE D \ {t} # {}
    <3>1. PICK u \in D \ {t} : u \notin _links \/ Each(u) \cap (D \ {t}) = {}
      BY <2>2 DEF WellFounded
    <3> QED BY <1>4, <1>5, <3>1
  <2> QED BY <2>1, <2>2
<1> QED BY <1>9, <1>10, <1>11, <1>12, <1>13, <1>14

LEMMA CreateIInv ==
    ASSUME IInv, NEW t \in Linked, Create(t)
    PROVE  IInv'
<1> DEFINE n == DOMAIN Signals[t]
           on == {i \in n : state[Signals[t][i]] = "signaled"}
           settled == IF Kind[t] = "all" THEN on = n ELSE on # {}
           waits == {i \in n : state[Signals[t][i]] = "unsignaled"}
           Link(v, i) == IF i \in waits /\ Signals[t][i] = v THEN <<<<t, i>>>> ELSE <<>>
<1>1. /\ _state[t] = "absent" /\ \A s \in Each(t) : _state[s] # "absent"
      /\ UNCHANGED <<timers, calls, subscribed, ran, late>>
  BY DEF Create
<1>2. \/ \E s \in {"unsignaled", "signaled", "closed"} :
            /\ _state' = [_state EXCEPT ![t] = s] /\ _links' = _links
            /\ UNCHANGED <<_subscriptions, arrived>>
      \/ /\ ~settled
         /\ _state' = [_state EXCEPT ![t] = "unsignaled"] /\ _links' = _links \cup {t}
         /\ arrived' = arrived \cup {<<t, i>> : i \in on}
         /\ _subscriptions' = [v \in Tokens |->
               _subscriptions[v] \o Link(v, 1) \o Link(v, 2) \o Link(v, 3)]
  BY DEF Create
<1>3. /\ t \in Tokens /\ Each(t) \subseteq Tokens /\ n \subseteq 1 .. 3
      /\ \A i \in n : Signals[t][i] \in Each(t)
  BY SignalsOf
<1>4. /\ _subscriptions \in [Tokens -> Seq(Listeners)]
      /\ \A v \in Tokens : Once(_subscriptions[v])
      /\ _state \in [Tokens -> {"absent", "unsignaled", "signaled", "closed"}]
  BY DEF IInv, Types, TypeOK, ListenersOnce
<1>5. on \cap waits = {} /\ on \in SUBSET n /\ waits \in SUBSET n
  OBVIOUS
<1>6. /\ \A i \in waits : _state[Signals[t][i]] = "unsignaled"
      /\ \A i \in n : i \in waits \/ i \in on \/ state[Signals[t][i]] = "closed"
  <2>1. \A s \in Each(t) : state[s] \in {"unsignaled", "signaled", "closed"}
    BY <1>1, <1>3, <1>4, StateFacts DEF IInv
  <2> QED BY <1>3, <2>1, StateFacts DEF IInv
<1>7. ~settled => /\ on # {} => Kind[t] = "all"
                  /\ Kind[t] = "all" => on # n
  OBVIOUS
<1>8. \A i \in 1 .. 3 : /\ <<t, i>> \in Listeners
                        /\ \A v \in Tokens : <<t, i>> \notin Sub(v)
  <2>1. t \notin _links
    BY <1>1 DEF IInv, Types, TypeOK
  <2> QED BY <2>1, NoCallbackIsALink DEF Listeners, IInv, LinksKept, LinkKept
<1>9. ASSUME NEW v \in Tokens, NEW i \in 1 .. 3
      PROVE  /\ Link(v, i) \in Seq(Listeners) /\ Once(Link(v, i))
             /\ Waiting(Link(v, i)) = IF i \in waits /\ Signals[t][i] = v THEN {<<t, i>>} ELSE {}
  <2>1. <<<<t, i>>>> \in Seq(Listeners) /\ Once(<<<<t, i>>>>) /\ Waiting(<<<<t, i>>>>) = {<<t, i>>}
    BY <1>8 DEF Once, Waiting
  <2>2. CASE i \in waits /\ Signals[t][i] = v
    BY <2>1, <2>2
  <2>3. CASE ~(i \in waits /\ Signals[t][i] = v)
    <3>1. Link(v, i) = <<>>
      BY <2>3
    <3>2. <<>> \in Seq(Listeners)
      OBVIOUS
    <3> QED BY <2>3, <3>1, <3>2, EmptyQueue
  <2> QED BY <2>2, <2>3
<1> HIDE DEF n, on, settled, waits, Link
<1>10. CASE \E s \in {"unsignaled", "signaled", "closed"} :
              /\ _state' = [_state EXCEPT ![t] = s] /\ _links' = _links
              /\ UNCHANGED <<_subscriptions, arrived>>
  <2>1. PICK s \in {"unsignaled", "signaled", "closed"} :
              /\ _state' = [_state EXCEPT ![t] = s] /\ _links' = _links
              /\ UNCHANGED <<_subscriptions, arrived>>
    BY <1>10
  <2>2. /\ {} \in SUBSET (DOMAIN Signals[t]) /\ {} \cap {} = {}
        /\ \A i \in {} : _state[Signals[t][i]] = "unsignaled"
        /\ arrived' = arrived \cup {<<t, i>> : i \in {}}
        /\ _links' = IF FALSE THEN _links \cup {t} ELSE _links
    BY <2>1
  <2>3. \A v \in Tokens :
              /\ Once(_subscriptions'[v])
              /\ Waiting(_subscriptions'[v])
                    = Sub(v) \cup {<<t, i>> : i \in {j \in {} : Signals[t][j] = v}}
    BY <1>4, <2>1 DEF Sub
  <2> QED BY <1>1, <1>4, <2>1, <2>2, <2>3, NewTokenIInv
<1>11. CASE /\ ~settled
            /\ _state' = [_state EXCEPT ![t] = "unsignaled"] /\ _links' = _links \cup {t}
            /\ arrived' = arrived \cup {<<t, i>> : i \in on}
            /\ _subscriptions' = [v \in Tokens |->
                  _subscriptions[v] \o Link(v, 1) \o Link(v, 2) \o Link(v, 3)]
  <2>1. ASSUME NEW v \in Tokens
        PROVE  /\ _subscriptions'[v] \in Seq(Listeners) /\ Once(_subscriptions'[v])
               /\ Waiting(_subscriptions'[v])
                     = Sub(v) \cup {<<t, i>> : i \in {j \in waits : Signals[t][j] = v}}
    <3> DEFINE p == _subscriptions[v] \o Link(v, 1)
               q == p \o Link(v, 2)
               r == q \o Link(v, 3)
               In(i) == IF i \in waits /\ Signals[t][i] = v THEN {<<t, i>>} ELSE {}
    <3>1. _subscriptions'[v] = r
      BY <1>11
    <3>2. /\ Link(v, 1) \in Seq(Listeners) /\ Once(Link(v, 1)) /\ Waiting(Link(v, 1)) = In(1)
          /\ Link(v, 2) \in Seq(Listeners) /\ Once(Link(v, 2)) /\ Waiting(Link(v, 2)) = In(2)
          /\ Link(v, 3) \in Seq(Listeners) /\ Once(Link(v, 3)) /\ Waiting(Link(v, 3)) = In(3)
      BY <1>9
    <3>3. /\ Sub(v) \cap In(1) = {} /\ Sub(v) \cap In(2) = {} /\ Sub(v) \cap In(3) = {}
          /\ In(1) \cap In(2) = {} /\ In(1) \cap In(3) = {} /\ In(2) \cap In(3) = {}
      BY <1>8
    <3>4. _subscriptions[v] \in Seq(Listeners) /\ Once(_subscriptions[v])
      BY <1>4
    <3>5. In(1) \cup In(2) \cup In(3) = {<<t, i>> : i \in {j \in waits : Signals[t][j] = v}}
      <4>1. waits \subseteq {1, 2, 3}
        BY <1>3, <1>5
      <4> QED BY <4>1
    <3> HIDE DEF In, p
    <3>6. p \in Seq(Listeners) /\ Once(p) /\ Waiting(p) = Sub(v) \cup In(1)
      BY <3>2, <3>3, <3>4, JoinQueues DEF Sub, p
    <3> HIDE DEF q
    <3>7. q \in Seq(Listeners) /\ Once(q) /\ Waiting(q) = Sub(v) \cup In(1) \cup In(2)
      <4>1. Waiting(p) \cap Waiting(Link(v, 2)) = {}
        BY <3>2, <3>3, <3>6
      <4> QED BY <3>2, <3>6, <4>1, JoinQueues DEF q
    <3> HIDE DEF r
    <3>8. r \in Seq(Listeners) /\ Once(r) /\ Waiting(r) = Sub(v) \cup In(1) \cup In(2) \cup In(3)
      <4>1. Waiting(q) \cap Waiting(Link(v, 3)) = {}
        BY <3>2, <3>3, <3>7
      <4> QED BY <3>2, <3>7, <4>1, JoinQueues DEF r
    <3> QED BY <3>1, <3>5, <3>8
  <2>2. _subscriptions' \in [Tokens -> Seq(Listeners)]
    BY <1>11, <2>1
  <2>3. /\ on \in SUBSET (DOMAIN Signals[t]) /\ waits \in SUBSET (DOMAIN Signals[t])
        /\ waits \cap on = {}
        /\ \A i \in DOMAIN Signals[t] :
              i \in waits \/ i \in on \/ state[Signals[t][i]] = "closed"
        /\ Kind[t] = "all" => on # DOMAIN Signals[t]
        /\ on # {} => Kind[t] = "all"
    BY <1>5, <1>6, <1>7, <1>11 DEF n
  <2>4. _links' = IF TRUE THEN _links \cup {t} ELSE _links
    BY <1>11
  <2>5. \A v \in Tokens :
              /\ Once(_subscriptions'[v])
              /\ Waiting(_subscriptions'[v])
                    = Sub(v) \cup {<<t, i>> : i \in {j \in waits : Signals[t][j] = v}}
    BY <2>1
  <2>6. arrived' = arrived \cup {<<t, i>> : i \in on}
    BY <1>11
  <2>7. _state' = [_state EXCEPT ![t] = "unsignaled"]
    BY <1>11
  <2> QED BY <1>1, <1>6, <2>2, <2>3, <2>4, <2>5, <2>6, <2>7, NewTokenIInv
<1> QED BY <1>2, <1>10, <1>11

-----------------------------------------------------------------------------
(* The invariant, and what it says. *)

LEMMA InitIInv == Init => IInv
<1> SUFFICES ASSUME Init PROVE IInv
  OBVIOUS
<1> USE DEF Init
<1>1. /\ <<>> \in Seq(Frames) /\ <<>> \in Seq(Listeners)
      /\ DOMAIN calls = {} /\ Pending = {}
  BY DEF Pending, PendingIn
<1>2. /\ _state \in [Tokens -> {"absent", "unsignaled", "signaled", "closed"}]
      /\ _subscriptions \in [Tokens -> Seq(Listeners)]
      /\ ran \in [Callbacks -> 0 .. 1] /\ \A c \in Callbacks : ran[c] # 1
  BY <1>1
<1>3. subscribed \in [Callbacks -> [token : Tokens \cup {"none"},
                         how : {"not yet", "ignored", "withdrawn", "at once", "listed"}]]
  BY DEF Unborn
<1>4. Types
  BY <1>1, <1>2, <1>3 DEF Types, TypeOK
<1>5. \A s \in Tokens : Sub(s) = {} /\ Once(_subscriptions[s])
  BY EmptyQueue DEF Sub
<1>6. ListenersOnce
  BY <1>1, <1>5 DEF ListenersOnce, OnceIn
<1>7. CallbacksKept
  <2>1. \A c \in Callbacks : subscribed[c].how = "not yet"
    BY DEF Unborn
  <2> QED BY <1>1, <1>2, <1>5, <2>1 DEF CallbacksKept, CallbackKept
<1>8. LinksKept
  BY <1>1, <1>5 DEF LinksKept, LinkKept
<1>9. LinksHeard /\ WellFounded
  BY DEF LinksHeard, WellFounded
<1> QED BY <1>4, <1>6, <1>7, <1>8, <1>9 DEF IInv

LEMMA NextIInv == IInv /\ [Next]_vars => IInv'
<1> SUFFICES ASSUME IInv, [Next]_vars PROVE IInv'
  OBVIOUS
<1>1. /\ calls \in Seq(Frames) /\ OnceIn(calls)
      /\ timers \subseteq {u \in Tokens : _state[u] = "unsignaled"}
  BY DEF IInv, Types, TypeOK, ListenersOnce
<1>2. ASSUME NEW t \in Tokens, Cancel(t) PROVE IInv'
  <2>1. /\ Signal(t, calls) /\ UNCHANGED <<arrived, subscribed, ran, late>>
        /\ state[t] = "unsignaled"
    BY <1>2 DEF Cancel
  <2> QED BY <2>1, SignalIInv
<1>3. ASSUME NEW t \in Tokens, CancelAfter(t) PROVE IInv'
  <2>1. /\ UNCHANGED <<_state, _links, _subscriptions, arrived, calls, subscribed, ran, late>>
        /\ timers' = timers \cup {t} /\ state[t] = "unsignaled"
    BY <1>3 DEF CancelAfter
  <2>2. _state[t] = "unsignaled"
    BY <2>1, StateFacts DEF IInv
  <2>3. Pending' = Pending
    BY <2>1 DEF Pending
  <2> QED BY <1>1, <2>1, <2>2, <2>3, KeepIInv
<1>4. ASSUME NEW t \in Tokens, Expire(t) PROVE IInv'
  <2>1. Signal(t, calls) /\ UNCHANGED <<arrived, subscribed, ran>>
    BY <1>4 DEF Expire
  <2>2. late \subseteq late' /\ (state[t] = "closed" => t \in late')
    BY <1>4 DEF Expire
  <2> QED BY <2>1, <2>2, SignalIInv
<1>5. ASSUME CallbackEnds PROVE IInv'
  <2>1. UNCHANGED <<_state, _links, _subscriptions, arrived, timers, subscribed, ran, late>>
    BY <1>5 DEF CallbackEnds
  <2>2. calls' \in Seq(Frames) /\ OnceIn(calls') /\ Pending' = Pending
    BY <1>1, <1>5, CallbackEndsCalls DEF IInv, Pending
  <2> QED BY <1>1, <2>1, <2>2, KeepIInv
<1>6. ASSUME Return PROVE IInv'
  <2>1. UNCHANGED <<_state, _links, _subscriptions, arrived, timers, subscribed, ran, late>>
    BY <1>6 DEF Return
  <2>2. calls' \in Seq(Frames) /\ OnceIn(calls') /\ Pending' = Pending
    BY <1>1, <1>6, ReturnCalls DEF IInv, Pending
  <2> QED BY <1>1, <2>1, <2>2, KeepIInv
<1>7. ASSUME UNCHANGED vars PROVE IInv'
  <2>1. /\ UNCHANGED <<_state, _links, _subscriptions, arrived, subscribed, ran, late>>
        /\ UNCHANGED <<timers, calls>>
    BY <1>7 DEF vars
  <2>2. Pending' = Pending
    BY <2>1 DEF Pending
  <2> QED BY <1>1, <2>1, <2>2, KeepIInv
<1> QED BY <1>2, <1>3, <1>4, <1>5, <1>6, <1>7, CloseIInv, CreateIInv, CallLinkIInv,
           CallBackIInv, UnsubscribeIInv, SubscribeIInv DEF Next

LEMMA Invariance == Spec => []IInv
  BY InitIInv, NextIInv, PTL DEF Spec

\* Every token, listener and call is of its type, and a linked token has its links
\* exactly while nothing has settled it (CancelState).
THEOREM TokensAreTyped == Spec => []TypeOK
<1>1. IInv => TypeOK
  BY DEF IInv, Types
<1> QED BY <1>1, Invariance, PTL

\* A callback is called once if its token is signaled, or was when it subscribed, and
\* never otherwise, whatever the callbacks do that are called before it (cancel(),
\* subscribe()).
THEOREM CallbacksAreCalledOnce == Spec => []CalledOnce
<1>1. IInv => CalledOnce
  <2> SUFFICES ASSUME IInv, NEW c \in Callbacks
               PROVE  LET s == subscribed[c] IN
                      /\ s.how \in {"not yet", "ignored", "withdrawn"} => ran[c] = 0
                      /\ calls = <<>> /\ s.how = "at once" => ran[c] = 1
                      /\ calls = <<>> /\ s.how = "listed" =>
                            (ran[c] = 1 <=> _state[s.token] = "signaled")
    BY DEF CalledOnce
  <2>1. CallbackKept(c)
    BY DEF IInv, CallbacksKept
  <2>2. ran[c] = 0 \/ ran[c] = 1
    <3>1. ran[c] \in 0 .. 1
      BY DEF IInv, Types, TypeOK
    <3> QED BY <3>1
  <2>3. calls = <<>> => c \notin Pending
    BY DEF Pending, PendingIn
  <2>4. subscribed[c].how \in {"not yet", "ignored", "withdrawn"} => ran[c] = 0
    BY <2>1, <2>2 DEF CallbackKept
  <2>5. calls = <<>> /\ subscribed[c].how = "at once" => ran[c] = 1
    BY <2>1, <2>3, Zenon DEF CallbackKept
  <2>6. calls = <<>> /\ subscribed[c].how = "listed" =>
           (ran[c] = 1 <=> _state[subscribed[c].token] = "signaled")
    BY <2>1, <2>3 DEF CallbackKept
  <2> QED BY <2>4, <2>5, <2>6
<1> QED BY <1>1, Invariance, PTL

\* A linked token that has been settled listens to nobody any more, and what has been
\* settled has no listeners (CancelState.cancel(), close(), unlink()).
THEOREM SettledLetGo == Spec => []SettledAreUnlinked
<1>1. IInv => SettledAreUnlinked
  <2> SUFFICES ASSUME IInv, NEW s \in Tokens, NEW k \in DOMAIN _subscriptions[s],
                      _subscriptions[s][k] \notin Callbacks
               PROVE  _subscriptions[s][k][1] \in _links /\ _state[s] = "unsignaled"
    BY DEF SettledAreUnlinked
  <2>1. _subscriptions[s] \in Seq(Listeners)
    BY DEF IInv, Types
  <2>2. _subscriptions[s][k] \in Sub(s) /\ _subscriptions[s][k] \in Listeners
    BY <2>1 DEF Sub, Waiting
  <2>3. PICK t \in Linked, i \in 1 .. 3 : _subscriptions[s][k] = <<t, i>>
    BY <2>2 DEF Listeners, Links
  <2>4. LinkKept(t, i)
    BY DEF IInv, LinksKept
  <2> QED BY <2>2, <2>3, <2>4 DEF LinkKept
<1> QED BY <1>1, Invariance, PTL

\* When no callback is under way, every token that shows that it is signaled has told its
\* own listeners so, however many links away the signal was (getLinkedState).
THEOREM LinkedTokensCatchUp == Spec => []LinksCaughtUp
<1>1. IInv => LinksCaughtUp
  <2> SUFFICES ASSUME IInv, calls = <<>>
               PROVE  \A t \in Timely : state[t] = "signaled" <=> _state[t] = "signaled"
    BY DEF LinksCaughtUp
  <2>0. Timely \subseteq Tokens /\ \A t \in Timely \cap Linked : Each(t) \subseteq Timely
    BY TimelyFacts
  <2>1. Pending = {}
    BY DEF Pending, PendingIn
  <2>2. \A t \in Timely : t \notin _links => state[t] = _state[t]
    BY <2>0, StateFacts DEF IInv
  <2>3. \A t \in _links : _state[t] = "unsignaled" /\ t \in Linked
    BY DEF IInv, Types, TypeOK
  <2> DEFINE D == {t \in Timely : state[t] = "signaled" /\ _state[t] # "signaled"}
  <2>4. D = {}
    <3> SUFFICES ASSUME D # {} PROVE FALSE
      OBVIOUS
    <3>0. D \in SUBSET Tokens
      BY <2>0
    <3>1. PICK t \in D : t \notin _links \/ Each(t) \cap D = {}
      BY <3>0 DEF IInv, WellFounded
    <3>2. t \in _links /\ t \in Linked /\ t \in Timely /\ Each(t) \cap D = {} /\ state[t] = "signaled"
      BY <2>2, <2>3, <3>1
    <3>3. Each(t) \subseteq Timely /\ \A s \in Each(t) : state[s] = "signaled" => _state[s] = "signaled"
      BY <2>0, <3>2
    <3>4. \A i \in DOMAIN Signals[t] : i \in 1 .. 3 /\ Signals[t][i] \in Each(t)
      BY <3>2, SignalsOf
    <3>5. LinkHeard(t)
      BY <3>2 DEF IInv, LinksHeard
    <3>6. \A i \in DOMAIN Signals[t] : state[Signals[t][i]] = "signaled" => <<t, i>> \in arrived
      <4> SUFFICES ASSUME NEW i \in DOMAIN Signals[t], state[Signals[t][i]] = "signaled"
                   PROVE  <<t, i>> \in arrived
        OBVIOUS
      <4>1. LinkKept(t, i)
        BY <3>2, <3>4 DEF IInv, LinksKept
      <4>2. _state[Signals[t][i]] = "signaled" /\ Signals[t][i] \in Tokens
        BY <2>0, <3>3, <3>4
      <4>3. <<t, i>> \notin Sub(Signals[t][i])
        BY <4>1, <4>2 DEF LinkKept
      <4> QED BY <2>1, <3>3, <3>4, <3>5, <4>3 DEF LinkHeard
    <3>7. CASE Kind[t] = "all"
      <4>1. \A s \in Each(t) : state[s] = "signaled"
        BY <3>2, <3>7, StateFacts DEF IInv
      <4> QED BY <3>4, <3>5, <3>6, <3>7, <4>1 DEF LinkHeard
    <3>8. CASE Kind[t] # "all"
      <4>1. PICK s \in Each(t) : state[s] = "signaled"
        BY <3>2, <3>8, StateFacts DEF IInv
      <4>2. PICK i \in DOMAIN Signals[t] : Signals[t][i] = s
        BY DEF Each
      <4>3. <<t, i>> \in arrived /\ LinkKept(t, i)
        BY <3>2, <3>4, <3>6, <4>1, <4>2 DEF IInv, LinksKept
      <4> QED BY <3>8, <4>3 DEF LinkKept
    <3> QED BY <3>7, <3>8
  <2> QED BY <2>2, <2>3, <2>4
<1> QED BY <1>1, Invariance, PTL

=============================================================================
