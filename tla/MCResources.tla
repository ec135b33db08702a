---------------------------- MODULE MCResources ----------------------------
(***************************************************************************)
(* Small instances of the objects that are shared, kept and cleaned up on  *)
(* one thread: cancel tokens, disposables, events, lazy values, delays and *)
(* collections.  One behaviour is about one of them; the variables of the  *)
(* others keep their initial values.                                       *)
(***************************************************************************)
EXTENDS CancelToken, FiniteSetsExt, TLC

\* Two sources, a source linked to one of them, and tokens linked to that one too: a
\* diamond, in which a signal reaches the last token on two ways, and a token that waits
\* on while the links of the linked source close it.
CONSTANTS tokenA, tokenB, tokenLinked, tokenAll, tokenRace

CONSTANTS
    Stacks, Scopes, Nulls, Plain, Disposable, MaxResources, MaxAdded,   \* Disposables
    Functions, MaxWraps, MaxEmits,                                      \* EventContext
    Readers,                                                            \* Lazy
    Delays,                                                             \* AsyncDelay
    Arguments, MaxDepth, MaxClears                                      \* Memoize

ASSUME LimitsAssumption == {MaxResources, MaxAdded, MaxWraps, MaxEmits, MaxDepth, MaxClears} \subseteq Nat

\* A resource is not the mark of a disposal that is not over.
ASSUME ResourcesAssumption == "running" \notin Nulls \cup Plain \cup Disposable

VARIABLES
    object,                                                             \* what it is about
    owner, capability, entries, runs, failure, order, failed, thrown,   \* disposables
    form, list, wraps, done, emits, heard,                              \* events
    lazy, running, promise, evaluations, seen,                          \* Lazy, AsyncLazy
    signaled, delays, awaiting, notified, outcome,                      \* delay
    buckets, slots, entry, size, freeSize, freeList, tail,              \* hash tables
    cursor, reused,
    head, back, forth, attached, length, walk, lost,                    \* LinkedList
    given, stayed,                                                      \* iterations of both
    map, count, keys, values,                                           \* the other maps and sets
    results, clears, evaluating, evaluated, answers,                    \* memoize
    compared                                                            \* two values

tokens == vars
disposables == <<owner, capability, entries, runs, failure, order, failed, thrown>>
events == <<form, list, wraps, done, emits, heard>>
lazies == <<lazy, running, promise, evaluations, seen>>
delay == <<signaled, delays, awaiting, notified, outcome>>
table == <<buckets, slots, entry, size, freeSize, freeList, tail, cursor, reused>>
links == <<head, back, forth, attached, length, walk, lost>>
iteration == <<given, stayed>>
maps == <<map, count, keys, values>>
memo == <<results, clears, evaluating, evaluated, answers, compared>>
all == <<object, tokens, disposables, events, lazies, delay, table, links, iteration, maps, memo>>

-----------------------------------------------------------------------------
(* The parts.                                                              *)

MCKind == tokenLinked :> "source" @@ tokenAll :> "all" @@ tokenRace :> "race"
MCSignals == tokenLinked :> <<tokenA>> @@ tokenAll :> <<tokenLinked, tokenA>>
             @@ tokenRace :> <<tokenLinked, tokenB>>

Stack == INSTANCE Disposables WITH async <- object = "asyncDisposable", state <- owner

\* Bound of the async ones: the resources of all capabilities.
Added == MapThenSumSet(LAMBDA o : Len(entries[o]), Stacks \cup Scopes)

Events == INSTANCE EventContext WITH calls <- heard

Lazy == INSTANCE Lazy WITH _state <- lazy, runs <- evaluations, got <- seen

Delay == INSTANCE AsyncDelay WITH
    timers <- delays, subscriptions <- awaiting, promise <- outcome

\* In the smaller table k1 and k2 share a bucket, in the larger one k1 and k3.
HashOf == [k1 |-> 0, k2 |-> 2, k3 |-> 5]
Dictionary == INSTANCE HashMap WITH
    Keys <- DOMAIN HashOf, Values <- {"k1"}, Hash <- HashOf, Primes <- {2, 5}, MaxEntries <- 3,
    MaxReuses <- 1, MaxGiven <- 3, entries <- slots, object <- entry
Set == INSTANCE HashMap WITH
    Keys <- {"k1", "k2"}, Values <- {}, Hash <- HashOf, Primes <- {2, 5}, MaxEntries <- 2,
    MaxReuses <- 1, MaxGiven <- 3, entries <- slots, object <- entry

Numbered == [n1 |-> "u", n2 |-> "u", n3 |-> "v"]
List == INSTANCE LinkedList WITH
    Nodes <- DOMAIN Numbered, Value <- Numbered, MaxGiven <- 3,
    _head <- head, _previous <- back, _next <- forth, _size <- length

Multi == INSTANCE MultiMap WITH Keys <- {"k1", "k2"}, Values <- {"u", "v", "w"},
    _map <- map, _size <- count
Sorted == INSTANCE SortedMap WITH Keys <- 1 .. 4, Values <- {"u", "v"},
    _keys <- keys, _values <- values
Ordered == INSTANCE SortedMap WITH Keys <- {}, Values <- 1 .. 4, _keys <- keys, _values <- values

Memo == INSTANCE Memoize WITH evaluations <- evaluating

Made(kind, id, items) == [kind |-> kind, id |-> id, items |-> items]
Numbers == {Made("number", n, <<>>) : n \in {1, 130}}
Keyed == {Made("equatable", id, <<Made("number", n, <<>>)>>) : id \in 1 .. 2, n \in {1, 130}}
Nested == {Made("structural", x.id, <<x>>) : x \in Numbers \cup Keyed}
Lists(parts) == {<<>>} \cup {<<x>> : x \in parts \cup Nested} \cup {<<x, y>> : x, y \in Numbers}
MCSample == {Made("undefined", 0, <<>>)} \cup Numbers \cup Keyed \cup Nested
            \cup {Made("structural", 3, s) : s \in Lists({})}
            \cup {Made("array", 4, s) : s \in Lists(Keyed)} \cup {Made("array", 5, <<x>>) : x \in Numbers}
Known == INSTANCE Equaler WITH Bits <- 8, Sample <- MCSample

-----------------------------------------------------------------------------
About(name) == object = name /\ UNCHANGED object

TokenStep == /\ About("token") /\ Next
             /\ UNCHANGED <<disposables, events, lazies, delay, table, links, iteration, maps, memo>>

DisposableStep ==
    /\ object \in {"disposable", "asyncDisposable"} /\ UNCHANGED object
    /\ Stack!Next
    /\ object = "asyncDisposable" => Added' <= MaxAdded
    /\ UNCHANGED <<tokens, events, lazies, delay, table, links, iteration, maps, memo>>

EventStep == /\ About("event") /\ Events!Next
             /\ UNCHANGED <<tokens, disposables, lazies, delay, table, links, iteration, maps, memo>>

LazyStep == /\ \/ About("lazy") /\ Lazy!Next
               \/ About("asyncLazy") /\ Lazy!NextAsync
            /\ UNCHANGED <<tokens, disposables, events, delay, table, links, iteration, maps, memo>>

DelayStep == /\ About("delay") /\ Delay!Next
             /\ UNCHANGED <<tokens, disposables, events, lazies, table, links, iteration, maps, memo>>

HashStep == /\ \/ About("map") /\ Dictionary!Next
               \/ About("set") /\ Set!SetNext
            /\ UNCHANGED <<tokens, disposables, events, lazies, delay, links, maps, memo>>

ListStep == /\ About("list") /\ List!Next
            /\ UNCHANGED <<tokens, disposables, events, lazies, delay, table, maps, memo>>

MapStep == /\ \/ About("multimap") /\ Multi!Next /\ UNCHANGED <<keys, values>>
              \/ About("sortedmap") /\ Sorted!Next /\ UNCHANGED <<map, count>>
              \/ About("sortedset") /\ Ordered!SetNext /\ UNCHANGED <<map, count>>
           /\ UNCHANGED <<tokens, disposables, events, lazies, delay, table, links, iteration, memo>>

MemoStep == /\ About("memoize") /\ Memo!Next /\ UNCHANGED compared
            /\ UNCHANGED <<tokens, disposables, events, lazies, delay, table, links, iteration, maps>>

Objects == {"token", "disposable", "asyncDisposable", "event", "lazy", "asyncLazy", "delay",
            "map", "set", "list", "multimap", "sortedmap", "sortedset", "memoize",
            "values"}

AllInit ==
    /\ object \in Objects
    /\ Init
    /\ Stack!Init /\ Events!Init /\ Delay!Init
    /\ IF object = "asyncLazy" THEN Lazy!InitAsync ELSE Lazy!Init
    /\ object \notin {"lazy", "asyncLazy"} => lazy = "factory"
    /\ IF object = "set" THEN Set!Construct ELSE Dictionary!Construct
    /\ object \notin {"map", "set"} => Cardinality(DOMAIN buckets) = 2
    /\ List!Init /\ Multi!Init /\ Sorted!Init /\ Memo!Init
    /\ compared \in IF object = "values" THEN MCSample \X MCSample ELSE {<<>>}

\* A freed entry is linked in again only when nobody iterates: see KeysAreKeys.
Unreused == reused' > 0 => cursor' = Dictionary!Nothing

AllNext == \/ TokenStep \/ DisposableStep \/ EventStep \/ LazyStep \/ DelayStep
           \/ (HashStep /\ Unreused) \/ ListStep \/ MapStep \/ MemoStep

AllSpec == AllInit /\ [][AllNext]_all

\* Only the tokens.
TokenSpec == AllInit /\ object = "token" /\ [][TokenStep]_all

\* Only the map, which also reuses entries under an iterator.
MapSpec == AllInit /\ object = "map" /\ [][HashStep]_all

-----------------------------------------------------------------------------
\* The types of all parts.  A hash table finds what is in it, its free list holds what is
\* not; a linked list is one circle in both directions.
AllTypeOK == /\ object = "token" => TypeOK
             /\ object \in {"disposable", "asyncDisposable"} => Stack!TypeOK
             /\ object = "event" => Events!TypeOK
             /\ object \in {"lazy", "asyncLazy"} => Lazy!TypeOK
             /\ object = "delay" => Delay!TypeOK
             /\ object = "map" => Dictionary!TypeOK
             /\ object = "set" => Set!TypeOK
             /\ object = "list" => List!TypeOK
             /\ object = "memoize" => Memo!TypeOK

\* No disposable leaks or has two owners (Disposables.OneOwner).
OneOwner == object \in {"disposable", "asyncDisposable"} => Stack!OneOwner

\* Disposal goes backwards through everything that was added, past every error, and
\* reports them all (Disposables.DisposedAsAdded).
DisposedAsAdded == object \in {"disposable", "asyncDisposable"} => Stack!DisposedAsAdded

\* What is to happen once happens once: a listener of once() runs (EventContext.OnceIsOnce), a
\* factory runs and all its readers get the same (Lazy.EvaluatedOnce), a memoized function runs for
\* the same arguments (Memoize.MemoizedOnce), and a delay is settled, by its timer or by its
\* cancelable, leaving nothing behind (AsyncDelay.NothingLeft).
OnceOnly == /\ object = "event" => Events!OnceIsOnce
            /\ object \in {"lazy", "asyncLazy"} => Lazy!EvaluatedOnce
            /\ object = "memoize" => Memo!MemoizedOnce
            /\ object = "delay" => Delay!NothingLeft

\* The hash table as a map; that of a set has each value as the key of itself.
Hashed == IF object \in {"map", "set"} THEN {k \in DOMAIN HashOf : Dictionary!Has(k)} ELSE {}
Contents == INSTANCE Dictionary WITH Keys <- DOMAIN HashOf, Values <- {"k1", "k2"},
    map <- [key \in Hashed |-> Dictionary!Get(key)]

\* Through growing, trimming and rehashing HashMap, HashSet and SortedMap are maps,
\* HashSet.tryAdd tells what is new, and LinkedList changes its order as asked.
MapsAgree == /\ Contents!Spec /\ Sorted!ImplementsMap
             /\ [][/\ object = "set" => Set!TellsNew
                   /\ object = "list" => List!EditAsAsked]_all

\* MultiMap.size counts its values, and what is sorted stays so and is found.
CountsAndOrders == /\ object = "multimap" => Multi!SizeCounts
                   /\ object = "sortedmap" => Sorted!KeysSorted
                   /\ object = "sortedset" => Ordered!ValuesSorted

\* What is equal by an equaler has one hash, and comparers order (Equaler.EqualersAgree).
EqualersAgree == object = "values" => Known!EqualersAgree(compared[1], compared[2])

\* An iteration gives what stays in the collection while it is changed
\* (HashMap.IteratesStayers, LinkedList.WalksSeeStayers).
WalksSeeStayers == /\ object = "list" => List!WalksSeeStayers
                   /\ object \in {"map", "set"} => Dictionary!IteratesStayers

\* keys() gives "the keys present in the collection" (HashMap.KeysAreKeys).
KeysAreKeys == object = "map" => Dictionary!KeysAreKeys
=============================================================================
