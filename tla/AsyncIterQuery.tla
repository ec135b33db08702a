--------------------------- MODULE AsyncIterQuery ---------------------------
(***************************************************************************)
(* The methods of AsyncQuery and of its subclasses in @esfx/async-iter-    *)
(* query (index.ts). A method passes the source of the query, and that of  *)
(* a right that is a query, to a function of @esfx/async-iter-fn, and      *)
(* makes a query of what it gets. Here are the functions they call, and    *)
(* then what an AsyncQuery is, from call to call, as IterQuery says it of  *)
(* a Query.  An AsyncQuery is made from an iterable of either sort; what   *)
(* it keeps is an async iterable.                                          *)
(***************************************************************************)
EXTENDS Sequences, TLC

\* filter() calls filterAsync(), and so on; the others are aliases.
Async(names) == [name \in names |-> name \o "Async"]

\* range() is that of iter-fn; of() and from() take an iterable that is there.
statics == Async({"empty", "once", "repeat", "continuous", "generate", "consume"}) @@
    [range |-> "range"]
filters == Async({"filter", "filterBy", "filterDefined", "filterDefinedBy"})
wheres == [where |-> "filterAsync", whereBy |-> "filterByAsync",
    whereDefined |-> "filterDefinedAsync", whereDefinedBy |-> "filterDefinedByAsync"]
filterNots == Async({"filterNot", "filterNotBy", "filterNotDefinedBy"})
whereNots == [whereNot |-> "filterNotAsync", whereNotBy |-> "filterNotByAsync",
    whereNotDefinedBy |-> "filterNotDefinedByAsync"]
maps == Async({"map"}) @@ [select |-> "mapAsync"]
flatMaps == Async({"flatMap"}) @@ [selectMany |-> "flatMapAsync"]
passes == Async({"tap", "reverse", "exclude"})
drops == Async({"drop", "dropRight", "dropWhile", "dropUntil"})
skips == [skip |-> "dropAsync", skipRight |-> "dropRightAsync", skipWhile |-> "dropWhileAsync",
    skipUntil |-> "dropUntilAsync"]
takes == Async({"take", "takeRight", "takeWhile", "takeUntil"})
intersects == Async({"intersect", "intersectBy"})
unions == Async({"union", "unionBy"})
excepts == Async({"except", "exceptBy"})
complements == [relativeComplement |-> "exceptAsync", relativeComplementBy |-> "exceptByAsync"]
symmetricDifferences == Async({"symmetricDifference", "symmetricDifferenceBy"})
concats == Async({"concat"})
distincts == Async({"distinct", "distinctBy"})
additions == Async({"append", "prepend", "patch", "defaultIfEmpty"})
pages == Async({"pageBy"})
spans == Async({"spanMap"})
groups == Async({"groupBy"})
scans == Async({"scan", "scanRight"})
materializations == Async({"materialize"})
joins == Async({"groupJoin", "join", "fullJoin", "zip"})
orders == Async({"orderBy", "orderByDescending"})
reductions == Async({"reduce", "reduceRight"})
choices == Async({"count", "first", "last", "single"})
extremes == Async({"min", "minBy", "max", "maxBy"})
sums == Async({"sum", "average"})
tests == Async({"some", "every"})
comparisons == Async({"corresponds", "correspondsBy"})
inclusions == Async({"includes", "includesSequence", "startsWith", "endsWith"})
places == Async({"elementAt"}) @@ [nth |-> "elementAtAsync"]
partitions == Async({"span", "spanUntil"}) @@ [break |-> "spanUntilAsync"]
visits == Async({"forEach", "unzip"})
arrays == Async({"toArray"})
sets == Async({"toSet", "toHashSet"})
dictionaries == Async({"toMap", "toHashMap", "toLookup"})
objects == Async({"toObject"})
copies == Async({"copyTo", "into"})

-----------------------------------------------------------------------------
(* AsyncOrderedQuery and AsyncHierarchyQuery.                              *)

\* AsyncOrderedHierarchyQuery has the same two.
thenBys == Async({"thenBy", "thenByDescending"})
roots == Async({"root", "ancestors", "ancestorsAndSelf", "descendants",
    "descendantsAndSelf"})
relatives == Async({"parents", "self", "siblings", "siblingsAndSelf", "children"})
besides == Async({"precedingSiblings", "followingSiblings"}) @@
    [siblingsBeforeSelf |-> "precedingSiblingsAsync",
    siblingsAfterSelf |-> "followingSiblingsAsync"]
documentOrders == Async({"preceding", "following"})
childAxes == Async({"firstChild", "lastChild", "nthChild"})
mosts == Async({"topMost", "bottomMost"})

Axes == roots @@ relatives @@ besides @@ documentOrders @@ childAxes @@ mosts
Methods == statics @@ filters @@ wheres @@ filterNots @@ whereNots @@ maps @@ flatMaps @@
    passes @@ drops @@ skips @@ takes @@ intersects @@ unions @@ excepts @@ complements @@
    symmetricDifferences @@ concats @@ distincts @@ additions @@ pages @@ spans @@ groups
    @@ scans @@ materializations @@ joins @@ orders @@ reductions @@ choices @@ extremes
    @@ sums @@ tests @@ comparisons @@ inclusions @@ places @@ partitions @@ visits @@
    arrays @@ sets @@ dictionaries @@ objects @@ copies @@ thenBys @@ Axes

-----------------------------------------------------------------------------
(* Promised classes.                                                       *)

\* A query that is hierarchical when this one is.
AsyncUnorderedQueryFlow == UNION {DOMAIN filters, DOMAIN wheres, DOMAIN filterNots,
    DOMAIN whereNots, DOMAIN passes, DOMAIN drops, DOMAIN skips, DOMAIN takes,
    DOMAIN excepts, DOMAIN complements, DOMAIN distincts, DOMAIN additions,
    DOMAIN materializations}
\* A query that is hierarchical when this one or the right is.
AsyncMergeQueryFlow == UNION {DOMAIN intersects, DOMAIN unions,
    DOMAIN symmetricDifferences, DOMAIN concats}
\* An ordered query, hierarchical when this one is.
AsyncOrderedQueryFlow == UNION {DOMAIN orders, DOMAIN thenBys}
\* A plain query.
PlainQuery == UNION {DOMAIN maps, DOMAIN flatMaps, DOMAIN pages, DOMAIN spans,
    DOMAIN groups, DOMAIN scans, DOMAIN joins}

-----------------------------------------------------------------------------
(* What queries become.                                                    *)

CONSTANT SyncKinds      \* bound: what iterables of clients that are not async may have

Kinds == {"ordered", "hierarchy"}

VARIABLES source,     \* what the source of the query has, of Kinds
          class,      \* what the class of the query says that it has
          promised    \* what the type of the call that made it says

vars == <<source, class, promised>>

TypeOK == source \subseteq Kinds /\ class \subseteq Kinds /\ promised \subseteq Kinds

\* new AsyncQuery(source): toAsyncIterable() wraps an iterable that is not async, and the
\* wrapper has an iterator and nothing else.
Become(made, sync, type) ==
    /\ source' = IF sync THEN {} ELSE made
    /\ class' = made
    /\ promised' = type

\* AsyncHierarchyIterable.create(): what it makes is async, whatever it is made of, and an
\* ordered iterable stays ordered.
create(kinds) == kinds \cup {"hierarchy"}

from(kinds, sync, provider) ==
    LET made == IF provider THEN create(kinds) ELSE kinds
    IN Become(made, sync /\ ~provider, made)

Init == source = {} /\ class = {} /\ promised = {}

-----------------------------------------------------------------------------
Hierarchy(kinds) == kinds \cap {"hierarchy"}

FlowLeft == {"appendAsync", "prependAsync", "filterByAsync", "filterAsync", "filterDefinedAsync",
             "filterDefinedByAsync", "filterNotByAsync", "filterNotAsync",
             "filterNotDefinedByAsync", "dropAsync", "dropRightAsync", "dropWhileAsync",
             "dropUntilAsync", "takeAsync", "takeRightAsync", "takeWhileAsync", "takeUntilAsync",
             "exceptByAsync", "exceptAsync", "excludeAsync", "distinctByAsync", "distinctAsync",
             "defaultIfEmptyAsync", "patchAsync", "tapAsync", "materializeAsync", "reverseAsync"}

FlowBoth == {"concatAsync", "intersectByAsync", "intersectAsync", "unionByAsync", "unionAsync",
             "symmetricDifferenceByAsync", "symmetricDifferenceAsync"}

\* flowHierarchy() asks the right for an AsyncHierarchyIterable: no sync one is.
FlowsFrom(fn, right, sync) ==
    CASE fn \in FlowLeft -> Hierarchy(source)
      [] fn \in FlowBoth -> Hierarchy(source) \cup IF sync THEN {} ELSE Hierarchy(right)
      [] OTHER -> {}

-----------------------------------------------------------------------------
Unordered(m) ==
    /\ m \in AsyncUnorderedQueryFlow
    /\ Become(FlowsFrom(Methods[m], {}, FALSE), FALSE, Hierarchy(class))

Merge(m, right, sync) ==
    /\ m \in AsyncMergeQueryFlow
    /\ Become(FlowsFrom(Methods[m], right, sync), FALSE, Hierarchy(class) \cup Hierarchy(right))

Plain(m) ==
    /\ m \in PlainQuery
    /\ Become(FlowsFrom(Methods[m], {}, FALSE), FALSE, {})

\* thenByAsync() and the axes throw when the source is not what they need.
Order(m) ==
    /\ m \in DOMAIN orders \/ (m \in DOMAIN thenBys /\ "ordered" \in class \cap source)
    /\ Become({"ordered"} \cup Hierarchy(source), FALSE, {"ordered"} \cup Hierarchy(class))

Axis(m) ==
    /\ m \in DOMAIN Axes /\ "hierarchy" \in class \cap source
    /\ Become(Hierarchy(source), FALSE, {"hierarchy"})

toHierarchy == Become(create(source), FALSE, class \cup {"hierarchy"})

through(kinds, sync) == from(kinds, sync, FALSE)

\* What an iterable can have.
Given(sync) == SUBSET (IF sync THEN SyncKinds ELSE Kinds)

Next == \/ \E sync, provider \in BOOLEAN : \E kinds \in Given(sync) : from(kinds, sync, provider)
        \/ \E m \in DOMAIN Methods :
              \/ Unordered(m) \/ Plain(m) \/ Order(m) \/ Axis(m)
              \/ \E sync \in BOOLEAN : \E right \in Given(sync) : Merge(m, right, sync)
        \/ toHierarchy
        \/ \E sync \in BOOLEAN : \E kinds \in Given(sync) : through(kinds, sync)

Spec == Init /\ [][Next]_vars

\* A query has the class that its type promises, and a source that does what its class
\* needs: "Creates a subsequent ordered subquery" (async-iter-query/src/index.ts:2375).
KindsDeclared == promised = class /\ class \subseteq source
=============================================================================
