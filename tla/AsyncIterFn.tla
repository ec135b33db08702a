---------------------------- MODULE AsyncIterFn -----------------------------
(***************************************************************************)
(* The functions that @esfx/async-iter-fn exports (index.ts). Their bodies *)
(* are those of iter-fn, with an await for what a source, a callback or a  *)
(* projection gives: what is read and yielded, and in which order, is the  *)
(* same, except where this module says so.                                 *)
(***************************************************************************)
EXTENDS IterSteps

CONSTANTS Parent, Children

F == INSTANCE IterFn

-----------------------------------------------------------------------------
(* Subqueries (subqueries.ts).                                             *)

appendAsync(a, l, e) == F!append(a, l, e)
prependAsync(a, l, e) == F!prepend(a, l, e)
concatAsync(a, l, e) == F!concat(a, l, e)
filterByAsync(a, l, e) == F!filterBy(a, l, e)
filterAsync(a, l, e) == F!filter(a, l, e)
filterDefinedAsync(a, l, e) == F!filterDefined(a, l, e)
filterDefinedByAsync(a, l, e) == F!filterDefinedBy(a, l, e)

\* The iterable is made without invert: the predicate is not turned round.
filterNotByAsync(a, l, e) == F!filterBy(a, l, e)
filterNotAsync(a, l, e) == filterNotByAsync(ByIdentity(a), l, e)
filterNotDefinedByAsync(a, l, e) == filterNotByAsync(F!Defined(a), l, e)

mapAsync(a, l, e) == F!map(a, l, e)
flatMapAsync(a, l, e) == F!flatMap(a, l, e)
dropAsync(a, l, e) == F!drop(a, l, e)
dropRightAsync(a, l, e) == F!dropRight(a, l, e)
dropWhileAsync(a, l, e) == F!dropWhile(a, l, e)
dropUntilAsync(a, l, e) == F!dropUntil(a, l, e)
takeAsync(a, l, e) == F!take(a, l, e)
takeRightAsync(a, l, e) == F!takeRight(a, l, e)
takeWhileAsync(a, l, e) == F!takeWhile(a, l, e)
takeUntilAsync(a, l, e) == F!takeUntil(a, l, e)
intersectByAsync(a, l, e) == F!intersectBy(a, l, e)
intersectAsync(a, l, e) == F!intersect(a, l, e)
unionByAsync(a, l, e) == F!unionBy(a, l, e)
unionAsync(a, l, e) == F!union(a, l, e)
exceptByAsync(a, l, e) == F!exceptBy(a, l, e)
exceptAsync(a, l, e) == F!except(a, l, e)
excludeAsync(a, l, e) == F!exclude(a, l, e)
distinctByAsync(a, l, e) == F!distinctBy(a, l, e)
distinctAsync(a, l, e) == F!distinct(a, l, e)
defaultIfEmptyAsync(a, l, e) == F!defaultIfEmpty(a, l, e)
patchAsync(a, l, e) == F!patch(a, l, e)
scanAsync(a, l, e) == F!scan(a, l, e)
scanRightAsync(a, l, e) == F!scanRight(a, l, e)
symmetricDifferenceByAsync(a, l, e) == F!symmetricDifferenceBy(a, l, e)
symmetricDifferenceAsync(a, l, e) == F!symmetricDifference(a, l, e)
tapAsync(a, l, e) == F!tap(a, l, e)

\* The array is read when the first value is asked for; iter-fn reads it before that.
materializeAsync(a, l, e) == Whole(l, e, Finish(l, l.list))

-----------------------------------------------------------------------------
(* Joins, groupings, orderings and queries (joins.ts, grouping.ts,         *)
(* ordering.ts, queries.ts). There is no range.                            *)

groupJoinAsync(a, l, e) == F!groupJoin(a, l, e)
joinAsync(a, l, e) == F!join(a, l, e)
fullJoinAsync(a, l, e) == F!fullJoin(a, l, e)
zipAsync(a, l, e) == F!zip(a, l, e)
pageByAsync(a, l, e) == F!pageBy(a, l, e)
spanMapAsync(a, l, e) == F!spanMap(a, l, e)
groupByAsync(a, l, e) == F!groupBy(a, l, e)
reverseAsync(a, l, e) == F!reverse(a, l, e)
orderByAsync(a, l, e) == F!orderBy(a, l, e)
orderByDescendingAsync(a, l, e) == F!orderByDescending(a, l, e)
thenByAsync(a, l, e) == F!thenBy(a, l, e)
thenByDescendingAsync(a, l, e) == F!thenByDescending(a, l, e)
emptyAsync(a, l, e) == F!empty(a, l, e)
onceAsync(a, l, e) == F!once(a, l, e)
repeatAsync(a, l, e) == F!repeat(a, l, e)
continuousAsync(a, l, e) == F!continuous(a, l, e)
generateAsync(a, l, e) == F!generate(a, l, e)
consumeAsync(a, l, e) == F!consume(a, l, e)

-----------------------------------------------------------------------------
(* Functions that return the promise of a value (scalars.ts). The arguments*)
(* are checked before the promise is made.                                 *)

reduceAsync(a, l, e) == F!reduce(a, l, e)
reduceRightAsync(a, l, e) == F!reduceRight(a, l, e)
countAsync(a, l, e) == F!count(a, l, e)
firstAsync(a, l, e) == F!first(a, l, e)
lastAsync(a, l, e) == F!last(a, l, e)
singleAsync(a, l, e) == F!single(a, l, e)
minByAsync(a, l, e) == F!minBy(a, l, e)
minAsync(a, l, e) == F!min(a, l, e)
maxByAsync(a, l, e) == F!maxBy(a, l, e)
maxAsync(a, l, e) == F!max(a, l, e)
someAsync(a, l, e) == F!some(a, l, e)
everyAsync(a, l, e) == F!every(a, l, e)
unzipAsync(a, l, e) == F!unzip(a, l, e)
forEachAsync(a, l, e) == F!forEach(a, l, e)
toMapAsync(a, l, e) == F!toMap(a, l, e)
toHashMapAsync(a, l, e) == F!toHashMap(a, l, e)
toObjectAsync(a, l, e) == F!toObject(a, l, e)
toSetAsync(a, l, e) == F!toSet(a, l, e)
toHashSetAsync(a, l, e) == F!toHashSet(a, l, e)
toArrayAsync(a, l, e) == F!toArray(a, l, e)
toLookupAsync(a, l, e) == F!toLookup(a, l, e)
intoAsync(a, l, e) == F!into(a, l, e)
sumAsync(a, l, e) == F!sum(a, l, e)
averageAsync(a, l, e) == F!average(a, l, e)
copyToAsync(a, l, e) == F!copyTo(a, l, e)
spanAsync(a, l, e) == F!span(a, l, e)
spanUntilAsync(a, l, e) == F!spanUntil(a, l, e)
correspondsByAsync(a, l, e) == F!correspondsBy(a, l, e)
correspondsAsync(a, l, e) == F!corresponds(a, l, e)
startsWithAsync(a, l, e) == F!startsWith(a, l, e)
endsWithAsync(a, l, e) == F!endsWith(a, l, e)
includesAsync(a, l, e) == F!includes(a, l, e)
includesSequenceAsync(a, l, e) == F!includesSequence(a, l, e)
elementAtAsync(a, l, e) == F!elementAt(a, l, e)

-----------------------------------------------------------------------------
(* Methods that follow an axis of iter-hierarchy from each element of a    *)
(* source (hierarchy.ts).                                                  *)

VerticalAxisAsync(m, a, x) == F!VerticalAxis(m, a, x)
SidewaysAxisAsync(m, a, x) == F!SidewaysAxis(m, a, x)
ChildAxisAsync(m, a, x) == F!ChildAxis(m, a, x)

\* The predicate of nthChildAsync() is asked too.
createAsyncHierarchyIterable(m, a, l, e) ==
    LET Axis(x) == CASE m \in F!VerticalAxes -> VerticalAxisAsync(m, a, x)
                     [] m \in F!ChildAxes -> ChildAxisAsync(m, a, x)
                     [] OTHER -> SidewaysAxisAsync(m, a, x)
    IN Each(l, e, IF F!isHierarchyElement(e.value)
                  THEN SelectSeq(Axis(e.value), LAMBDA x : a.p[x, 0]) ELSE <<>>)

topMostAsync(a, l, e) == F!topMost(a, l, e)
bottomMostAsync(a, l, e) == F!bottomMost(a, l, e)

-----------------------------------------------------------------------------
(* By their names.                                                         *)

\* The axis of iter-hierarchy that a function follows.
AxisFollowed ==
    [rootAsync |-> "root", ancestorsAsync |-> "ancestors",
     ancestorsAndSelfAsync |-> "ancestorsAndSelf", descendantsAsync |-> "descendants",
     descendantsAndSelfAsync |-> "descendantsAndSelf", parentsAsync |-> "parents",
     selfAsync |-> "self", siblingsAsync |-> "siblings",
     siblingsAndSelfAsync |-> "siblingsAndSelf", precedingSiblingsAsync |-> "precedingSiblings",
     followingSiblingsAsync |-> "followingSiblings", precedingAsync |-> "preceding",
     followingAsync |-> "following", childrenAsync |-> "children",
     firstChildAsync |-> "firstChild", lastChildAsync |-> "lastChild",
     nthChildAsync |-> "nthChild"]

Fn(m, a, l, e) ==
    CASE m = "appendAsync" -> appendAsync(a, l, e)
      [] m = "prependAsync" -> prependAsync(a, l, e)
      [] m = "concatAsync" -> concatAsync(a, l, e)
      [] m = "filterByAsync" -> filterByAsync(a, l, e)
      [] m = "filterAsync" -> filterAsync(a, l, e)
      [] m = "filterDefinedAsync" -> filterDefinedAsync(a, l, e)
      [] m = "filterDefinedByAsync" -> filterDefinedByAsync(a, l, e)
      [] m = "filterNotByAsync" -> filterNotByAsync(a, l, e)
      [] m = "filterNotAsync" -> filterNotAsync(a, l, e)
      [] m = "filterNotDefinedByAsync" -> filterNotDefinedByAsync(a, l, e)
      [] m = "mapAsync" -> mapAsync(a, l, e)
      [] m = "flatMapAsync" -> flatMapAsync(a, l, e)
      [] m = "dropAsync" -> dropAsync(a, l, e)
      [] m = "dropRightAsync" -> dropRightAsync(a, l, e)
      [] m = "dropWhileAsync" -> dropWhileAsync(a, l, e)
      [] m = "dropUntilAsync" -> dropUntilAsync(a, l, e)
      [] m = "takeAsync" -> takeAsync(a, l, e)
      [] m = "takeRightAsync" -> takeRightAsync(a, l, e)
      [] m = "takeWhileAsync" -> takeWhileAsync(a, l, e)
      [] m = "takeUntilAsync" -> takeUntilAsync(a, l, e)
      [] m = "intersectByAsync" -> intersectByAsync(a, l, e)
      [] m = "intersectAsync" -> intersectAsync(a, l, e)
      [] m = "unionByAsync" -> unionByAsync(a, l, e)
      [] m = "unionAsync" -> unionAsync(a, l, e)
      [] m = "exceptByAsync" -> exceptByAsync(a, l, e)
      [] m = "exceptAsync" -> exceptAsync(a, l, e)
      [] m = "excludeAsync" -> excludeAsync(a, l, e)
      [] m = "distinctByAsync" -> distinctByAsync(a, l, e)
      [] m = "distinctAsync" -> distinctAsync(a, l, e)
      [] m = "defaultIfEmptyAsync" -> defaultIfEmptyAsync(a, l, e)
      [] m = "patchAsync" -> patchAsync(a, l, e)
      [] m = "scanAsync" -> scanAsync(a, l, e)
      [] m = "scanRightAsync" -> scanRightAsync(a, l, e)
      [] m = "symmetricDifferenceByAsync" -> symmetricDifferenceByAsync(a, l, e)
      [] m = "symmetricDifferenceAsync" -> symmetricDifferenceAsync(a, l, e)
      [] m = "tapAsync" -> tapAsync(a, l, e)
      [] m = "materializeAsync" -> materializeAsync(a, l, e)
      [] m = "groupJoinAsync" -> groupJoinAsync(a, l, e)
      [] m = "joinAsync" -> joinAsync(a, l, e)
      [] m = "fullJoinAsync" -> fullJoinAsync(a, l, e)
      [] m = "zipAsync" -> zipAsync(a, l, e)
      [] m = "pageByAsync" -> pageByAsync(a, l, e)
      [] m = "spanMapAsync" -> spanMapAsync(a, l, e)
      [] m = "groupByAsync" -> groupByAsync(a, l, e)
      [] m = "reverseAsync" -> reverseAsync(a, l, e)
      [] m = "orderByAsync" -> orderByAsync(a, l, e)
      [] m = "orderByDescendingAsync" -> orderByDescendingAsync(a, l, e)
      [] m = "thenByAsync" -> thenByAsync(a, l, e)
      [] m = "thenByDescendingAsync" -> thenByDescendingAsync(a, l, e)
      [] m = "emptyAsync" -> emptyAsync(a, l, e)
      [] m = "onceAsync" -> onceAsync(a, l, e)
      [] m = "repeatAsync" -> repeatAsync(a, l, e)
      [] m = "continuousAsync" -> continuousAsync(a, l, e)
      [] m = "generateAsync" -> generateAsync(a, l, e)
      [] m = "consumeAsync" -> consumeAsync(a, l, e)
      [] m = "reduceAsync" -> reduceAsync(a, l, e)
      [] m = "reduceRightAsync" -> reduceRightAsync(a, l, e)
      [] m = "countAsync" -> countAsync(a, l, e)
      [] m = "firstAsync" -> firstAsync(a, l, e)
      [] m = "lastAsync" -> lastAsync(a, l, e)
      [] m = "singleAsync" -> singleAsync(a, l, e)
      [] m = "minByAsync" -> minByAsync(a, l, e)
      [] m = "minAsync" -> minAsync(a, l, e)
      [] m = "maxByAsync" -> maxByAsync(a, l, e)
      [] m = "maxAsync" -> maxAsync(a, l, e)
      [] m = "someAsync" -> someAsync(a, l, e)
      [] m = "everyAsync" -> everyAsync(a, l, e)
      [] m = "unzipAsync" -> unzipAsync(a, l, e)
      [] m = "forEachAsync" -> forEachAsync(a, l, e)
      [] m = "toMapAsync" -> toMapAsync(a, l, e)
      [] m = "toHashMapAsync" -> toHashMapAsync(a, l, e)
      [] m = "toObjectAsync" -> toObjectAsync(a, l, e)
      [] m = "toSetAsync" -> toSetAsync(a, l, e)
      [] m = "toHashSetAsync" -> toHashSetAsync(a, l, e)
      [] m = "toArrayAsync" -> toArrayAsync(a, l, e)
      [] m = "toLookupAsync" -> toLookupAsync(a, l, e)
      [] m = "intoAsync" -> intoAsync(a, l, e)
      [] m = "sumAsync" -> sumAsync(a, l, e)
      [] m = "averageAsync" -> averageAsync(a, l, e)
      [] m = "copyToAsync" -> copyToAsync(a, l, e)
      [] m = "spanAsync" -> spanAsync(a, l, e)
      [] m = "spanUntilAsync" -> spanUntilAsync(a, l, e)
      [] m = "correspondsByAsync" -> correspondsByAsync(a, l, e)
      [] m = "correspondsAsync" -> correspondsAsync(a, l, e)
      [] m = "startsWithAsync" -> startsWithAsync(a, l, e)
      [] m = "endsWithAsync" -> endsWithAsync(a, l, e)
      [] m = "includesAsync" -> includesAsync(a, l, e)
      [] m = "includesSequenceAsync" -> includesSequenceAsync(a, l, e)
      [] m = "elementAtAsync" -> elementAtAsync(a, l, e)
      [] m = "topMostAsync" -> topMostAsync(a, l, e)
      [] m = "bottomMostAsync" -> bottomMostAsync(a, l, e)
      [] OTHER -> createAsyncHierarchyIterable(AxisFollowed[m], a, l, e)
=============================================================================
