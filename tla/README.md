# Specifications of esfx

esfx is a family of small TypeScript packages: locks and events for threads that
share memory, the same for the async functions of one event loop, cancelation,
disposal and events, collections, and query operators over iterables. This
directory specifies the parts of it that keep state, and the operators over
iterables with them. TLC checks every specification on a small instance; the safety
properties of the locks and events of both families, of cancel tokens, of disposal, and of
what must run once are also proved with TLAPS, for every set of agents.

1. [The system](#1-the-system): parts, state, interactions, what is hard
2. [Plan](#2-plan): modules, their order, abstract specifications
3. [Modules](#3-modules): how state and actions correspond to the code
4. [Runs](#4-runs): what each one shows, its bounds
5. [Fairness](#5-fairness)
6. [Proofs](#6-proofs): what is proved, from what, and how
7. [Where code and documentation disagree](#7-where-code-and-documentation-disagree)
8. [Not modelled](#8-not-modelled)

## 1. The system

### Threads (`packages/threading-*`)

Objects of several workers are views of one `SharedArrayBuffer`. Their state is
a few 32-bit words, and every operation is a sequence of `Atomics` calls; between
any two of them any other agent may run. Sleeping is `Atomics.wait` on a word
that must still have an expected value, waking is `Atomics.notify`.

| part | state | operations | makes it correct |
|---|---|---|---|
| Mutex | one word: unlocked, locked, in contention; per object a flag *owns* | lock(ms), tryLock, unlock, close | at most one owner, the flag agrees with the word, no sleeper is forgotten |
| ConditionVariable | one constant word to sleep on | waitFor(mutex, ms, condition), notifyOne, notifyAll | returns with the lock, *true* means the condition holds, a notification reaches who waits |
| AutoResetEvent | one word: non-signaled, notifying, signaled | set, reset, waitOne(ms) | a set releases one thread, and one only |
| ManualResetEvent | one word | set, reset, waitOne(ms) | nobody sleeps on a signaled event |
| CountdownEvent | state, initial and remaining count | tryAdd, signal, reset, wait | signaled exactly at zero, one caller is the last |
| Semaphore | lock word, count, waiters, maximum | wait(ms), release(n) | release and wait end; permits are conserved |
| SpinWait, sleep, Lockable | none shared | spinOnce, sleep, the lock protocol | |

The condition variable calls the mutex through `Lockable`; everything else stands
alone. Hard: each window between two Atomics calls, time-outs that race
notifications, late comers that overtake a woken sleeper.

### One event loop (`packages/async-*`)

Here a call runs to its first `await` without interruption. What waits is a
promise in a `WaitQueue`, a linked list, and what continues it is a microtask,
which runs later: everything between `resolve` and the microtask is a window, in
which other calls and cancelations happen.

| part | state | operations | makes it correct |
|---|---|---|---|
| WaitQueue, linked list | list of pending promises | wait, resolveOne/All, rejectOne/All, cancel | in the list exactly while pending, oldest first |
| AsyncMutex | current handle, waiters | lock, tryLock, unlock, handles, disposal | exclusion, first come first served, nobody forgotten |
| AsyncReaderWriterLock | readers, writer, upgradeable reader, two queues | read, upgradeableRead, write, upgrade, unlock | a writer is alone, no lost wakeup |
| AsyncBarrier | participants, remaining, phase, waiters | add, remove, signalAndWait | a phase ends once, when all have arrived |
| AsyncSemaphore, AsyncAutoResetEvent, AsyncManualResetEvent, AsyncCountdownEvent | count or signal, waiters | wait, release, set, reset, signal, add | permits and signals are conserved |
| AsyncConditionVariable | waiters with their locks | wait, notifyOne, notifyAll | returns with the lock or rejects |
| AsyncQueue, AsyncStack | items or pending gets, done flags | get, put, doneReading, doneWriting, end | each item is delivered once, in order |
| AsyncLazy, Lazy | factory, resolving, value or error | value | the factory runs once |
| AsyncDelay, AsyncDeferred | a timer, a promise | delay, resolve, reject | |

They call each other through `AsyncLockable` and `Cancelable`; the countdown owns
a manual-reset event.

### Cancelation, disposal, events

`CancelToken` keeps a state, a reason, a list of callbacks and links to the tokens
it races; `cancel` and `close` run user callbacks that may call back into it.
`DisposableStack` and `AsyncDisposableStack` keep resources in a list and dispose
them in reverse order, collecting errors; the scopes of `using` statements do the
same. `EventContext` keeps a list of listeners that change it while it is emitted,
in one of three forms (none, one function, an array). Hard: reentrancy, order, and
what happens when one step throws. What makes them correct: each callback,
disposal and listener runs once, in its order, whatever the others do.

### Collections

`HashMap` and `HashSet` share `internal/collections-hash`: buckets, entries, a free
list, and a list in order of insertion that iterators walk while the map changes.
`LinkedList` is circular, with iterators of the same kind. MultiMap is a map of sets
with a count beside it; SortedMap and SortedSet keep arrays sorted by binary search.
`memoize` of fn keeps its results in a tree of maps. Equalers and comparers tell all
of them what a key is. Correct: they are maps, sets and sequences, an iteration gives
what stays in the collection, and equal values have equal hashes.

### Iteration

`iter-fn` has some hundred functions over iterables, most of them generators with at
most a buffer of state: subqueries, joins, groupings, orderings, scalars, and those
that follow the axes of a hierarchy (`iter-hierarchy`). `async-iter-fn` has them again
with an await wherever something is asked. `iter-query` and `async-iter-query` give
each of them as a method of four classes of queries (plain, ordered, hierarchical,
both). The client's callbacks and sources may throw, and its loop may leave early.
Hard: what is read ahead, what is closed when, and which class comes out of what.
Correct: the elements that the documentation promises, no source left open, nothing
read in vain, every query of the class that its type says.

### The rest

struct-type (byte layouts), metadata, decorators, ref, indexed-object: pure functions
and tables without a protocol. `interval` has one generator.

## 2. Plan

In this order, most coordination first; all six steps are done but for what is said.

1. **Threads**: `Mutex` and `AbstractLock`, `ConditionVariable` over the abstract lock,
   `AutoResetEvent`, `ManualResetEvent`, `CountdownEvent`, `Semaphore`; `MCThreading`
   extends `Mutex` and runs all but the semaphore.
2. **Async locks**: `WaitQueue`, `AsyncMutex` against `AbstractLock`,
   `AsyncReaderWriterLock` against `AbstractReadersWriter`.
3. **Rest of the async family**: `AsyncBarrier`, `AsyncQueue` (which is `AsyncStack` too),
   `AsyncSemaphore`, `AsyncEvents` (auto, manual, countdown), `AsyncConditionVariable`
   composed with `AsyncMutex`; `MCAsync` extends `AsyncMutex` and runs them.
4. **Cancel tokens, disposal, events, lazy values, delays**: `CancelToken`, `Disposables`,
   `EventContext`, `Lazy`, `AsyncDelay`. Left: the AbortSignal side of cancel tokens and the
   reasons a token gives.
5. **Collections**: `HashMap` (and the set, with the hash table that both share) and `SortedMap` (and the set)
   against the abstract map `Dictionary`; `LinkedList`, `MultiMap`, `Memoize`, `Equaler`.
   `MCResources` extends `CancelToken` and runs the modules of steps 4 and 5.
6. **Iteration**: `IterSteps`, `IterFn`, `AsyncIterFn`, `IterQuery`, `AsyncIterQuery`
   as the code; `Iteration` as the language it runs in; `IterMeaning` as what is
   documented; `MCIteration` compares them.

Theorems worth proving: exclusion, conservation of permits and signals, "no lost
wakeup", the refinements, exactly-once delivery of cancelation, the order of disposal,
each for every set of agents, that every collection is the abstract one. All of these are in
section 6. Left: the trees of merged hierarchies.

## 3. Modules

### Threads

An action is one `Atomics` call together with the local code up to the next one,
so that every interleaving the language allows is a behaviour. `pc[a]` names the
call that agent `a` executes next. Calls that fail before they touch shared state
(wrong types, closed objects) are not actions. A millisecond limit is abstracted
to *zero*, *finite* or *infinite*, with what is left of a finite one chosen
nondeterministically whenever the code computes it. `Atomics.notify` wakes any
sleeper: the language promises the oldest, and no property needs that.

- `AbstractLock`: what `Lockable` and `AsyncLockable` promise. A client is *out*,
  *asking* or *holding*.
- `Mutex` (`threading-mutex/src/index.ts`): `state` is the word, `owns[a]` and
  `open[a]` the fields of a's object. `Lock` is the first compareExchange; `Mark`,
  `Wait`, `TimeOut`, `Take` are the four places the loop of `lock` can be in;
  `Unlock`, `Store`, `Notify` the three steps of a contended unlock. `phase`, in the
  refinement, is computed from `owns` and `pc`.
- `ConditionVariable` composes with `AbstractLock` instead of `Mutex`: it may use any
  `Lockable`. `WaitFor` to `Relock` are the steps of `waitFor`; `ready` stands for the
  data that the condition reads and clients change under the lock; `due` remembers
  that a client that changed it still has to notify, as in the package's README.
- `AutoResetEvent`: `Set`, `Notify`, `Store` are the three steps of `set`; `credit` is
  history, the signals that were set and not yet used.
- `ManualResetEvent`, `CountdownEvent`: alike. `wins` counts the `signal` calls that
  were told to be the last. `Reset` of the countdown is three stores; clients are
  assumed to call it while nobody is inside `add`, `signal` or `reset`, see section 7.
- `MCThreading` EXTENDS `Mutex` and runs the mutex, the events and the condition variable:
  a behaviour picks one `object`. With the condition variable one agent (`Notifier`) only
  changes the condition and notifies.
- `Semaphore`: the inner futex lock in full, the locked sections as one action each.

### Async

An action is one synchronous call, or one job of the microtask queue. `jobs` is
the queue of the continuations that matter, in order. A cancelable is signaled by
an action of the environment, at any time.

- `WaitQueue` gives the operators that everything with waiters uses. A queue is a
  sequence of handles, tasks or listeners; the linked list removes a node in the middle
  (`Without`, `Canceled`), or does nothing for one that is in no list (`Removed`).
- `AsyncMutex`: `_handle` and `_waiters` are the fields of the class. `Release` shows
  the hand-over: the next owner is dequeued, `_handle` stays, and `Resume` stores the
  new one when the microtask runs. `UsingBlocks` lets clients dispose a handle that
  they unlocked before, as leaving a `using` block does.
- `AsyncReaderWriterLock`: the five fields of the class. `Loop` is one round of
  `_lockReader` or `_lockWriter`, from the call or the microtask to the next `await`;
  `ProcessLockRequests` is what every unlock ends with. `signaled` are the handles
  whose cancelable was signaled after their wait was resolved: that is only noticed
  if they have to wait again. `CallsUpgrade` allows `upgrade()`.
- `AbstractReadersWriter`: who may hold the lock together. Its variable `phase` is
  the variable of the same name in the lock, as in `AsyncMutex`.

- `AsyncConditionVariable` EXTENDS `AsyncMutex`, with the same handles: a client waits
  with the handle of its lock. `CvWait` is `_waitOne`, `Relock` is `_notifyOne` for one or
  all entries, `returning` are the clients whose `lock()` is on its way.
- `AsyncBarrier`: `finishes` counts the `_finishPhase` whose job has not run; `NextPhase` is
  that job, after the post-phase action if there is one; `arrived` is history.
- `AsyncQueue`: `_available`, `_pending` and the flags; where the variable `lifo`,
  which never changes, is true it is the stack, which differs in `Taken`. `puts`, `ended` and `got` are history.
- `AsyncSemaphore`; `AsyncEvents`, where `which` tells which of the three classes it is:
  a countdown is its counts around the `SetAll` and the flag of a manual-reset event.
- `MCAsync` EXTENDS `AsyncMutex` and runs all but the readers-writer lock: a behaviour
  picks one `object`.

### Cancel tokens

- `CancelToken`: `_state`, `_links` and `_subscriptions` are fields of `CancelState`, by
  token; `state` is the getter that asks the links, and `Shown` what it computes. All is
  synchronous, and the hard part is what callbacks call: `calls` is the call stack, the
  innermost call last, each frame with the
  listeners that a `cancel` has collected and not yet called. The program acts at the top
  level and inside each of its callbacks. A listener is a callback of the program
  or `<<t, i>>`, the `onSignaled` that token `t` has given to its i-th signal.
- `MCResources` EXTENDS `CancelToken`: sources `tokenA` and `tokenB`, a source
  `tokenLinked` linked to the first, an `all` of that one and `tokenA`, a `race` of that one
  and `tokenB`. A behaviour picks a token or one of fourteen other objects, those of the
  next two headings.

### Disposal, events, lazy values, delays, memoized functions

An action is a call, or the return of a callback of the client; what is between two of them
is the client's code, in which every other call may come.

- `Disposables`: `capability[o]` is the list of resources that a stack or a scope owns, which
  `move()` gives to another one; `entries[c]` are its resources, `runs` the calls of
  `DisposeResources` under way. With `async`, a variable that never changes, these wait, and
  then several go on side by side. An error is the list of the errors that its chain of `SuppressedError` holds.
- `EventContext`: `form` and `list` are `_list` in its three forms; `wraps` are the closures that
  `once()` and `subscribe()` make; `emits` holds the copy of the list that each `emit` goes
  through. A client subscribes a function once at a time, see section 7.
- `Lazy` is `AsyncLazy` too: `promise` is what an async factory returned. The factory may ask for
  the value that it is making.
- `AsyncDelay`: a timer and a cancelable that race; several delays share the cancelable.
- `Memoize`: `evaluations` is the stack of factories under way, each with the cache it began
  in (`made`), so that `clear()` may come between.

### Collections

- `HashMap`: the fields of `HashData` and of its entry objects, and the operations of map and
  set over them. `iterateEntries` and `iterateOn` are the halves of an iteration; `given` and `stayed` are history: what it has yielded, and the keys that
  have been there since it started. `reused` counts entries that came from the free list.
- `Dictionary` is the map that `HashMap` and `SortedMap` implement (`MapsAgree`).
- `LinkedList`: `_previous` and `_next` of each node. `walk` is an iteration, or a method that calls
  the client back, with the node that it has read ahead.
- `MultiMap`: a map of sets and the count beside it. `SortedMap`: two sorted arrays and the
  binary search, as a recursive function, that finds a key or the place for one.
- `Equaler`: equalers, comparers and how they combine hashes. Values are nested records; hashes
  have `Bits` bits, and those of strings and objects are given. Values that hold values are
  taken apart by functions over `Sample`, the values that are compared.

### Iteration

The code is a table of functions, the language a state machine, and the
documentation a set of sequences; `MCIteration` puts them together.

- `IterSteps`: a generator is a function from its arguments, its locals and an *event* (it starts,
  a source gave a value, a source ended) to a *command* (the values to yield, the source to read
  next, or that it ends). `ForOf`, `Each` and others are the loops that the functions are written with.
- `IterFn`: every function that iter-fn exports, under its name, as such an operator; the axes of a
  hierarchy are made by `createHierarchyIterable` as in the code. `getIndices` and `values` are those
  of an interval.
- `AsyncIterFn`: those of async-iter-fn. Where the code differs from iter-fn only by an await it
  says `F!...`; where it differs otherwise it has a body of its own.
- `IterQuery`, `AsyncIterQuery`: which function a method calls; which kind of iterable the
  function returns (plain, ordered, hierarchical), which class `from` makes of it, and
  which class the method's type promises, from call to call; and, in the first,
  `HierarchyProvider.combine`. Each keeps two tables that come from two packages, and `KindsDeclared` compares them.
- `Iteration`: generator objects that are chained. The consumer asks for a value (`Pull`) or leaves
  (`Leave`); a source yields, ends or throws; a callback throws. From the command of a body and the
  rules of for-of statements it follows what is opened, closed and yielded. An async
  generator keeps up to two requests.
- `IterMeaning`: what the documentation says each method gives, of whole sequences, and with no
  step of the implementation.

Operators named after a mutated action ("Mutant of ...") are plausible errors in
the code. Each property is checked to fail when one of them takes the place of the
action; no specification uses them otherwise.

## 4. Runs

| run | instance | states | shows |
|---|---|---|---|
| `threading` | 3 agents, counts to 3 | 62458 | mutex: exclusion, flags and word agree, no lost wakeup, refinement of `AbstractLock`, a lock() without limit ends if some lock is released for good; events: no signal lost or doubled, no sleeper stranded, the countdown exact; condition variable: waitFor returns with the lock however it ends, true means the condition holds |
| `async` | 5 handles; 3 tasks, 3 items, counts to 3, 2 permits of 4 | 13800 | mutex: exclusion, first come first served, refinement of `AbstractLock`; phases end in turn, items, permits and signals are conserved; everyone who waits is served |
| `async_rwlock` | 1 reader, 2 upgradeable, 2 writers | 6190 | exclusion, no lost wakeup, everyone served, refinement of `AbstractReadersWriter` |
| `resources` | 5 tokens and 2 callbacks; 14 other objects, below | 429403 | each callback of a token is called when it should, once; resources are disposed of in reverse order, once, past every error, and have one owner; listeners of once(), factories and memoized functions run once; a delay leaves nothing behind; the collections are maps, sets and sequences, and an iteration gives what stays; equal values have equal hashes |
| `iteration` | short inputs, below | 304530 | every method gives what is documented, alone, in chains, to the end, left early or failing; sources are closed; nothing is read in vain; queries are of the class declared; merged hierarchies keep their nodes |
| `condvar_lost_wakeup` | 2 agents | 7801 | *violation*: section 7 |
| `semaphore_hang` | 2 agents, count 1 | 5121 | *violation* |
| `async_mutex_using` | 3 handles | 41 | *violation* |
| `async_rwlock_upgrade` | 1 reader, 1 upgradeable | 63 | *violation* |
| `canceltoken_linked_source` | the tokens of `resources` | 146 | *violation* |
| `hash_reuse` | the map of `resources` | 1558 | *violation* |
| `interval_offsets` | intervals of four elements | 1520 | *violation* |

The states of a violation are those that TLC sees before it stops. Each of the last five
violations needs one thing that the passing run of its module leaves out because of it, or
checks one property more: a `using` block, `upgrade()`, a source with closed links, entries used
again under an iterator, intervals that go up.

Bounds. Three threads are what the interesting cases need: one that unlocks or
sets, one that sleeps, and one that comes late and overtakes; with three agents
there is also a second sleeper for whom a mark or a notification can be lost.
Counts up to 3 let all three agents, or one call alone, reach zero. Five handles
of the mutex give an owner, a chosen successor and a queue of three in which the
first, the middle and the last can be canceled. The readers-writer lock needs two
writers (one resolved, one queued), two upgradeable readers (they exclude one
another) and a plain reader. For a barrier of at most
three participants `MaxArrivals` = 4 lets one arrive more than there are, which a
`remove` makes possible, and `MaxFinishes` = 2 would let two ends of a phase overlap;
`MaxPermits` = 4 caps the history of a semaphore that holds at most two.

In `resources` one callback that acts and one that listens are what reentrancy needs, and
the linked tokens reach a source directly and through another linked one. Two stacks
and a scope with two resources each (three in all for the async ones) let a stack be moved,
be in the other one, and be disposed of out of its own disposal. Two functions, two
wraps and two nested emits let a listener remove the next one, itself, or all. Of three keys the
first shares its bucket with the second in a table of size 2, and with the third in one of size 5,
so that growing splits a chain and makes another; three entries and one reuse let an iterator stand before, on and behind
what changes; nobody iterates over an entry that is used again (`Unreused`), since that is
the violation `hash_reuse`. A list of three nodes, two with equal values, has a first, a
middle and a last. Sorted arrays of up to four keys give the binary search both of its halves.
Three lists of arguments that are prefixes of one another, three nested factories and two `clear()`
let a factory end in the cache that it began in, the next one, and the one after that.
Hashes of 8 bits overflow with the numbers that are compared.

In `iteration` inputs are sequences of up to three elements out of 0, 1 and 2 for iter-fn, where 0 also
stands for undefined; up to two in each source of methods with two. Numbers of elements are up
to 2, less than, as many as and more than there are. async-iter-fn and the queries, which share
most of their operators with iter-fn, have fewer inputs, and chains are of a few methods of
each way to read: one for one, many, fewer, all before the first, behind by one. The tree of six
nodes has three levels, siblings with children, leaves, and an only child. A consumer asks for up
to seven values (`MaxOut`), more than any of these methods but `continuous` has. Calls whose
result is known to differ from their documentation (`exclude` of duplicates, `every` of nothing,
`siblingsAndSelf` of a root, the predicate of `nthChild`, `filterNot` of async-iter-fn, see section 7) are made
like the others, but `Means` and `NothingReadInVain`, which compare with the documentation, leave out
just those inputs (`Deviates` in `MCIteration`). Queries are merged with others from call to call, and `NodesKeepTheirTree`
also asks which of several claimants of a node goes on to own it.

No other counter is capped: the other variables are finite by themselves. Section
6's theorems hold without these bounds.

`CHECK_DEADLOCK FALSE` is said where all may rest at once: asleep without a limit, all settled,
disposed of or at a bound, or in the state that a violation run is about. In
`iteration` a consumer that is done is looked at for ever, or another query is made.

## 5. Fairness

- `WF(Step(a))`: an agent that is between two `Atomics` calls goes on; the operating
  system schedules runnable threads. Starting a call is never fair.
- `WF(TimeOut(a))` in `Mutex` and `AutoResetEvent`: only a wait with a finite limit can time out
  there, and a finite limit does pass. In the other two events the limit is not modelled and
  no time-out is fair. The condition variable has it too in its own `FairSpec`, which
  `condvar_lost_wakeup` uses; `threading` checks its safety only.
- `WF(Unlock(h))`: whoever has a lock lets it go. This is the client's duty, and
  without it no lock makes progress.
- `WF(Resume)`, `WF(Return(h))`, `WF(NextPhase)`: the event loop runs its microtasks, and
  a post-phase action ends, which is the duty of who passes it.
- `LockersStop`, `RequestsStop` are not fairness but hypotheses of a property. The
  readers-writer lock lets late comers overtake and puts a handle that has to wait
  again at the end of its queue, so a handle can starve while requests keep coming;
  what is promised is that nobody is forgotten once they stop.
- Upgradeable readers are fair to unlock only when their own upgrade does not
  wait: their code is suspended in it.
- `resources` and `iteration` check safety only and assume no fairness: nothing there waits for
  another actor, but for a client that may stop at any time.

## 6. Proofs

All theorems hold for every set of agents, handles, tasks, tokens or resources, which need not
be finite, and for every value of the bounds. The assumptions are the named `ASSUME`s of the
modules: bounds are numbers (`MaxCountAssumption`, `BoundsAssumption`, `LimitsAssumption`), the
kinds of handles and tokens are disjoint (`HandlesAssumption`, `LinksAssumption`), and a null
value, or the mark of what has no result yet, is no handle, task, item or resource
(`TasksAssumption`, `ItemsAssumption`, `ResourcesAssumption`). The code tells these apart by
type. Beyond that, those about `AsyncMutex` assume `UsingBlocks = FALSE` and
`WakeupsKept` of the readers-writer lock assumes `CallsUpgrade = FALSE`: both are false otherwise,
see section 7.

| module | theorems | inductive invariant |
|---|---|---|
| `ThreadingProofs`, the mutex | `TypeCorrect`, `Exclusion`, `WordAgrees`, `WakeupsKept`, `Implements` | exclusion is not inductive by itself: one has to know that the word is locked only while some agent holds it (`WordMatchesOwner`), which flags go with which program points (`OwnsAtPC`), and that nobody has an object before the word is initialized. The wakeup property is inductive beside these: while somebody sleeps the word is in contention, or an alert agent will look at it again, or an unlock is between its store and its notify |
| the auto-reset event | `Conservation`, `SettersExclude`, `SleepersSeeSignals` | `AutoIInv`: `set` excludes itself (`OneSetter`), and nobody falls asleep between a notify that found no sleeper and the store of the signal (`NobodySleepsBeforeStore`): the word is notifying, so `Atomics.wait` returns |
| the manual-reset event | `NobodyIsStranded` | the property with the types is inductive |
| the countdown | `CountdownIsExact` | `CountdownIInv`: at most one agent is between the steps of `signal` or `reset` (`OneInside`), since the count stays zero until the last `signal` is done; that agent knows both words (`InsideKnows`); for everybody else the state and the count agree once they are stored |
| the condition variable | `WaitReturnsLocked`, `WaitTellsTruth` | whoever sleeps has let go of the lock (`WaitersLetGo`), so that only the abstract lock gives it back. Both are action properties: of the step that ends `waitFor` |
| all of these | `AllTypesCorrect` | the conjunction: a step of `MCThreading` is a step of one object and leaves the others alone |
| `WaitQueue` | lemmas | enqueue, dequeue, remove and join: what is in the queue afterwards, and that nobody is in it twice |
| `AsyncMutexProofs` | `TypeCorrect`, `Exclusion`, `FirstComeFirstServed`, `Implements` | `HandOver`: while a job is due it is the only one, the old owner has let go, and its handle keeps the others out; without a handle nobody waits |
| `AsyncReaderWriterLockProofs` | `TypeCorrect`, `HoldersExclude`, `Implements`, `WakeupsKept` | `TypeOK` with `Exclusion` is inductive: `Exclusion` carries which upgradeable reader the lock knows. For the wakeup, `Passing`: while nobody has the lock and a writer is queued, the next jobs include one of a writer, which will take the lock; this is why the readers that run before it may wait again |
| `AsyncProofs` | `PhasesEndInTurn`, `ItemsReachOneReader`, `NothingIsLost`, `AllTypesCorrect`, `MutexAmongObjects` | barrier: with a post-phase action the flag that refuses calls is set exactly while a phase has still to end (`ExecutingWhileFinishing`). Queue: every item put is available or with one reader (`QueueItems`), items and waiting readers are never both left over, and after `end()` both flags are set, which is why nobody begins to wait (`QueueEnds`); order is the property itself. Semaphore and events are inductive with their types |
| `CancelTokenProofs` | `TokensAreTyped`, `CallbacksAreCalledOnce`, `SettledLetGo`, `LinkedTokensCatchUp` | where each listener is on its way: in the list of one unsignaled token, or collected by a cancel under way, or called (`ListenersOnce`, `CallbackKept`, `LinkKept`); a linked token listens to each of its signals, or has heard of it, or is about to, or the signal is closed for good (`LinkHeard`); tokens are linked to older ones only (`WellFounded`) |
| `CollectionProofs`, the linked list | `ListsAreCircles`, `WalksOfListsSee`, `ListsChangeAsAsked` | `ListIInv`: the nodes of the list are a sequence that `_next` goes through forwards and `_previous` backwards, and that comes back to the head (`Ring`); a walk has given the nodes that stay, each once, as far as the place it is at, and those that stay and have not been given come at or after the node it has read (`WalkMeets`) |
| the sorted map and set | `SortedArraysAreMaps`, `KeysStaySorted`, `ValuesStaySorted` | `SortedIInv`, `SetIInv`: the array is in order. The work is in the binary search: its loop ends on every window (`HalvingEnds`), and what it returns is the place of the key or the complement of the only place where it fits (`SearchFinds`, `FoundOnce`) |
| the hash table, map and set | `TablesAreTyped`, `HashTablesAreMaps`, `SetsTellWhatIsNew`, `WalksOfTablesSee`, `WalksOfSetsSee` | `TableInv`: the chain from each bucket is a sequence through the entries in use whose hash belongs there, the free list one through the entries that were freed, no two entries in use have a key in common, and each entry is in one place only (`Tabled`). Of `Rehash`, which takes the chains apart and builds them again, entry by entry, in a larger table, one has to know that after each entry those done so far are in their chains (`Relinked`). For the walks, `WalkInv`: until a freed entry is linked in again, the live entries are in the order they were made, linked both ways, and a freed one leads back, but not past the last live one before it (`Lined`), so that a walk that stands at it misses nothing and repeats nothing; a walk has given exactly the stayers that are not after the entry it stands at (`Walked`) |
| the multimap | `ValuesAreCounted` | `MultiIInv`: the count is the number of pairs of a key and one of its values, which are finitely many |
| `ResourceProofs` | `ResourcesAreOwned`, `ResourcesAreDisposed`, `OnceIsEnough`, `CountsAreRight`, `MapsAgreeWithMaps`, `WalksSeeWhatStays`, `AllTypesCorrect`, `TokensAmongResources` | disposal: capabilities and owners are in one-to-one correspondence, only stacks exchange theirs (`OneCapabilityEach`); nothing has happened to a capability while its owner is live, and no owner that has ended leaves one behind (`DisposedByOwners`); each disposal under way has gone through the resources from the last to its index, with the errors so far in that order (`DisposedInTurn`). Listeners: each function is in the list once at most, and a wrap that is done is not in it. Memoize: a list of arguments is marked as circular exactly while a factory runs for it in the present cache. Lazy: while the factory runs nobody has an answer. Tables and lists: `HashIInv`, which is the invariant of `CollectionProofs` for the object that the behaviour is about. Types: `TypesIInv`, with the form in which an event keeps its list (`FormIs`: a single function when it has one listener), which those of its operations that insert and remove keep up, and the bound of the clearings |

The refinement theorems show that an initial state is one of the abstract lock and
that every step is an abstract step or leaves the abstract variable alone.

A linked list and a binary search need induction, over the length of a chain and over the width of a
window. The provers take no induction principle with an operator parameter, but they take sets: the
smallest member of a nonempty set of numbers exists (`SmallestNat`, from the well-foundedness of
finite sets under inclusion), so that a set of numbers that contains 0 and every successor is `Nat`
(`Induction`), and a function on the numbers that obeys its recursive equation exists (`Recursion`).
For the search the set is that of the windows for which the recursive `find` has a value.

The theorems of `CollectionProofs` have hypotheses of their own: `NodesAreSome`, that `undefined` is no node,
that the keys of a sorted map, or the values of a sorted set, are integers, which is what the comparer orders in
the model, and `TablesAreGiven`, that a key has a number for its hash and that the sizes a table
can grow to are positive; the hash may be the same for all keys. `CountsAreRight`, `MapsAgreeWithMaps`, `WalksSeeWhatStays` and `AllTypesCorrect` apply them to the instances of
`MCResources`, so that they speak of the four keys and the few nodes there; the lemmas they rest on are
for all. A step of an object of `MCResources` is shown to be one of the instance in `CollectionProofs`
(`SetMoves` and its like), and the step of another object to leave it alone. `AllTypesCorrect` takes
the types of the tokens from `TokensAreTyped` by way of `TokensAmongResources`.

`MutexAmongObjects` and `TokensAmongResources` say that the mutex in `MCAsync` and the tokens in
`MCResources`, where another object may take the step, are those of their own modules, so that
what is proved of `Spec` there holds in the runs.

`LinkedTokensCatchUp` rests on what tokens show (`Shown`), a recursive definition over links. That
such a function exists is not assumed: it follows from a fixed point of the equations, which
monotonicity gives (`LeastFixedPoint`), and that it tells the truth when every link has been
heard follows from the well-founded order of creation. The attempt to prove it
without `Timely` found what section 7 says of `cancelAfter`: that a closed token stays closed is
not preserved by its timer.

Only model-checked:

- all liveness (`LockWins`, `SignalsRelease`, `WaitersServed`, `EveryoneServed`), which is out of the
  prover's reach.
- `EqualersAgree`: functions that recurse over nested values of a sample that the run goes through
  completely.
- `Means`, `SourcesClosed`, `NothingReadInVain`: `Iteration` is parameterised by operators, and its
  meaning is by induction over sequences. `KindsDeclared` and `NodesKeepTheirTree` are about finite
  tables and small forests that a run goes through completely.
- the semaphore for threads, whose only run is about a deadlock.

## 7. Where code and documentation disagree

Shown by a run:

- `condvar_lost_wakeup`: `waitFor` unlocks the mutex and then waits on a word that
  no notification changes. A notification between the two is lost.
- `semaphore_hang`: `unlock` of the semaphore's inner lock leaves it in a state that
  `lock` does not accept. After the first operation every other spins for ever.
- `async_mutex_using`: while the next owner's microtask is due, the handle of the
  old one is still accepted. A second unlock, which leaving a `using` block makes,
  gives the lock to two clients.
- `async_rwlock_upgrade`: `upgrade()` waits until no reader is left, and its caller
  is one.
- `canceltoken_linked_source`: a source linked to tokens takes the state of its links,
  so when all of them are closed it cannot be canceled any more, whoever has
  subscribed; one made a moment later from the same closed tokens can.
- `hash_reuse`: deletion leaves `nextEntry` and `skipNextEntry` on a freed entry, for the
  iterators that stand on it. The next insertion uses the entry again as it is, and an
  iterator can then yield a key that is not in the map, undefined among them. If that entry is the
  last of the list, its old link can lead back into the list: the entries are then a circle, and
  the loop of `clear()` over them does not end. `clearEntries` is guarded in the model for this reason.
- `interval_offsets`: `values` of an interval compares the *step* with the position to find out which
  way it goes, so an interval that goes up ends early, goes past its end or yields nothing.

Met while modelling, without a run of their own:

- `AutoResetEvent.set` returns false and does nothing while another `set` is between
  its steps, although the signal of that one may already have gone to a sleeper.
  The model has it; no document promises otherwise.
- `ManualResetEvent.set` notifies after another agent may have reset the event, so a
  new sleeper can be woken although the event is not signaled.
- `CountdownEvent`: the constructor that takes a count allocates one word of three and
  throws (`ConstructCount` in the model). `reset` racing `signal` or another `reset` can
  leave a signaled event with participants left, hence the assumption on `Reset`.
- `Semaphore.release` notifies another word than `wait` sleeps on, and the example
  `new Semaphore(5)` of its README throws.
- `AsyncReaderWriterLock.write()` rejects while an upgradeable reader has the lock,
  where its comment says that it waits. If `upgrade()` was resolved and then
  rejected because its reader left, nobody passes the wakeup on, and the other
  waiters are stranded until the next unlock.
- `AsyncBarrier.remove` subtracts from the remaining participants but ends the phase
  only when no participant is left at all, so waiters can be left behind; and it can
  make the remaining ones fewer than none, which the test for too many operations
  does not see. `PhasesInTurn` is about a barrier with a post-phase action: without
  one nothing refuses an `add` and an arrival between the last arrival and the job
  that ends the phase, and then the phase ends twice.
- `AsyncConditionVariable`: a notification that comes between a client's `wait(handle)`
  and the job of the next owner finds the mutex still naming that handle; `lock()`
  throws "Lock already taken." and the wait rejects. `Relock` has it.
- `CancelToken`: while the callbacks of a source run, a token linked to it reports that
  it is signaled before it has a reason, so `throwIfSignaled()` throws undefined; if its
  source is closed in that window it is not signaled any more and drops its
  listeners. `LinksCaughtUp` is therefore stated for the time when no callback runs.
- The timer of `cancelAfter` (`index.ts:240`) signals a linked source without asking its links,
  so also one that they have closed, of which `canBeSignaled` says false. A token that was
  raced with it in between has subscribed to nothing: it shows that it is signaled and never
  tells its listeners. `late` remembers which tokens such timers have signaled, and
  `LinksCaughtUp` is about the tokens that are linked to none of them (`Timely`); the other
  properties are about all.
- `CancelSubscription.unsubscribe` during a cancelation does not keep a callback that
  was already collected from being called.
- `DisposableStack` and the scopes: an async `use()` of an object without a dispose method
  succeeds and its disposal throws; the second `disposeAsync()` of a stack that is being
  disposed of resolves at once, before the resources are.
- `EventContext`: a listener of `once` that has run removes the first entry of its function in the list. When
  that is one of `on`, the function is never called again; hence "once at a time" in the model. `emit` returns true for an array that has become empty.
- `AsyncLazy`: a factory that awaits its own value never ends. `Lazy`: the error that a factory gets by
  asking for its own value is overwritten by the value, if the factory goes on.
- `AsyncDelay`: a delay of 2^31 milliseconds or more is over at once.
- `memoize`: a list of arguments whose factory asks for the same one gets the error of recursion.
- `internal/collections-hash`: `trimExcess()` after a deletion throws a RangeError.
- `MultiMap.get` returns the set that the map goes on to use; changing it leaves `size` behind.
- `LinkedList`: a walk has read the node after the one it gives; when that one is removed meanwhile it
  is given all the same and the walk ends there; `drain()` throws (`lost` in the model).
- `Equaler`: `tupleStructuralEqualer` is exported as the plain `tupleEqualer`
  (`equatable/src/index.ts:386`); the default comparer is not transitive when undefined or NaN is among the values.
- `HierarchyProvider.combine`: whether the right provider begins with those of the left one is asked of the
  combined list, where it always holds. A right that has them in another order is returned as it
  is, and a node that two claim goes to another tree than elsewhere (`Reorders`, which `NodesKeepTheirTree`
  leaves out).
- `exclude` (`iter-fn/src/subqueries.ts:1137`, and that of async-iter-fn) is documented to leave out every instance of
  the value (line 1121). It calls `exceptBy`, which also gives each other value only once:
  `exclude([0, 0, 1], 1)` is [0].
- `filterNotBy` of async-iter-fn (`subqueries.ts:319`) does not turn its predicate round and so filters
  like `filterBy`; `filterNot` and `filterNotDefinedBy` call it. `materialize` there is documented to
  read its source at once and reads it when asked.
- `from()` of async-iter-query (`index.ts:146`) makes a plain query of a sync iterable that is ordered or
  hierarchical, which `SyncKinds` in `AsyncIterQuery` leaves out.
- `includesSequence` finds [1,2,3] in [1,2,2,3]; sources of two-sided methods in the run are too short for that.
  `every` of no elements is false, `average` of none 0.
  `copyTo`, `startsWith` and `zip` read an element that they do not need (`ReadsAhead`). `span` leaves its
  source open when its predicate throws, and `consume` with a cache when the first reader leaves early.
- The axes: `nthChild` of iter-fn does not ask its predicate (`hierarchy.ts:365`);
  `siblingsAndSelf` of a root, documented as "including the node itself" (line 193), is empty with a provider
  that has no more than `parent` and `children`;
  `following` gives children before their parents.

Seen in code that is not modelled:

- struct-type: the alignment of a base type is not used for the offsets of a derived one; a view that is
  read from a buffer at an offset reads from its start.

## 8. Not modelled

`PROJECT.json` lists every component with its status.

In part:

- `canceltoken`: not the AbortSignal side, the reasons, and the adapters from other cancelables,
  which are the interfaces `cancelable` and the two packages for the DOM.
- `collection-core`: the contract of a map; its other interfaces name operations and promise nothing
  that the types do not say.
- `iter-ordered`, `iter-grouping`, `iter-page`, `iter-lookup` and their async forms: as what the functions
  of iter-fn give. The accessors of `Lookup` are not modelled. Of the `fromsync` packages, which kind
  of sequence results.
- `fn`: `memoize`. Its other functions are single expressions.
- `equatable`: the hashes of strings and objects are given; bytes are hashed in native code.

Not at all, for they keep no state that two actors share, or none, and a model would restate them:

- `threading-spinwait` and `threading-sleep`: they delay. A loop that spins is an action that is not taken.
- `async-deferred`: a promise and the two functions that settle it.
- the shims of `collection-core` and of `equatable`: methods of the platform's types under other names.
- `struct-type`: byte layouts, the length of the package notwithstanding; also the offsets of the
  words in shared buffers, and argument checks and messages everywhere.
- `metadata`, `reflect-metadata-compat`, `decorators`, `type-model`: tables along prototypes, and types.
- `indexed-object`, `ref`, `fn-partial`, internal helpers.
- tests, scripts, generators and documentation.

Of modelled components: `Disposable.create()` and `usingEach()`, which are scopes in a loop;
`EventSource`, which forwards to `EventContext`; the searching methods of `LinkedList`, which are loops
over its iterator; the phase number of a barrier, which nothing reads.

A crash and a restart do not occur in the models: nothing is stored, and a worker that dies
with a lock leaves it locked, which no package handles.
