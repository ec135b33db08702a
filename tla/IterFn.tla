------------------------------- MODULE IterFn -------------------------------
(***************************************************************************)
(* The functions that @esfx/iter-fn exports (index.ts), and the offsets of *)
(* an interval (@esfx/interval).  Each operator takes its arguments a, its *)
(* locals l and an event e, and gives its command.                         *)
(***************************************************************************)
EXTENDS IterSteps, TLC

CONSTANTS Parent,       \* of each node, Undefined for the root
          Children      \* of each node, a sequence

-----------------------------------------------------------------------------
(* Subqueries (subqueries.ts).                                             *)

append(a, l, e) == ForOf(l, e, Give(l, <<e.value>>, 1), Finish(l, <<a.v>>))

prepend(a, l, e) ==
    IF e = Start THEN Give(l, <<a.v>>, 1) ELSE Each(l, e, <<e.value>>)

concat(a, l, e) ==
    CASE e = Start -> Read(l, 1)
      [] e.on = "value" -> Give(l, <<e.value>>, e.src)
      [] IsEnded(e, 1) -> Read(l, 2)
      [] OTHER -> Finish(l, <<>>)

-----------------------------------------------------------------------------
FilterBy(a, l, e, invert) ==
    Each(l, e, When(a.p[a.key[e.value], l.i] # invert, <<e.value>>))

Defined(a) == [a EXCEPT !.p = IsDefined({pair[2] : pair \in DOMAIN a.p})]

\* Mutant of filterBy: the result of the predicate is turned round.
filterByInverted(a, l, e) == FilterBy(a, l, e, TRUE)

filterBy(a, l, e) == FilterBy(a, l, e, FALSE)
filter(a, l, e) == filterBy(ByIdentity(a), l, e)
filterDefined(a, l, e) == filterBy(Defined(ByIdentity(a)), l, e)
filterDefinedBy(a, l, e) == filterBy(Defined(a), l, e)
filterNotBy(a, l, e) == FilterBy(a, l, e, TRUE)
filterNot(a, l, e) == filterNotBy(ByIdentity(a), l, e)
filterNotDefinedBy(a, l, e) == filterNotBy(Defined(a), l, e)

map(a, l, e) == Each(l, e, <<Accumulate(0, e.value, l.i)>>)

\* projection, and the resultSelector if there is one
flatMap(a, l, e) ==
    Each(l, e, IF a.seeded THEN [i \in DOMAIN Project(e.value) |-> Pair(e.value, Project(e.value)[i])]
               ELSE Project(e.value))

-----------------------------------------------------------------------------
drop(a, l, e) == Each(l, e, When(l.i >= a.n, <<e.value>>))

\* The last n elements are kept back.
dropRight(a, l, e) ==
    LET pending == Append(l.list, e.value)
    IN ForOf(l, e, IF Len(pending) > a.n
                   THEN Give([l EXCEPT !.list = Tail(pending)], <<Head(pending)>>, 1)
                   ELSE Read([l EXCEPT !.list = pending], 1),
             Finish(l, <<>>))

\* l.flag: no longer skipping.
DropWhile(a, l, e, invert) ==
    LET taking == l.flag \/ a.p[e.value, 0] = invert
    IN ForOf(l, e, Give([l EXCEPT !.flag = taking], When(taking, <<e.value>>), 1),
             Finish(l, <<>>))

dropWhile(a, l, e) == DropWhile(a, l, e, FALSE)
dropUntil(a, l, e) == DropWhile(a, l, e, TRUE)

\* Mutant of take: whether there are enough is asked when the next element has come.
takeLate(a, l, e) ==
    ForOf(l, e, IF l.i = a.n THEN Finish(l, <<>>)
                ELSE Give([l EXCEPT !.i = @ + 1], <<e.value>>, 1), Finish(l, <<>>))

\* A count of 0 does not even open the source.
take(a, l, e) ==
    IF a.n = 0 THEN Finish(l, <<>>)
    ELSE ForOf(l, e, Give([l EXCEPT !.i = @ + 1], <<e.value>>,
                          IF l.i + 1 = a.n THEN 0 ELSE 1), Finish(l, <<>>))

LastOf(list, n) == SubSeq(list, Len(list) - n + 1, Len(list))

takeRight(a, l, e) ==
    LET pending == Append(l.list, e.value)
    IN IF a.n = 0 THEN Finish(l, <<>>)
       ELSE ForOf(l, e, Read([l EXCEPT !.list = IF Len(pending) > a.n THEN Tail(pending)
                                                ELSE pending], 1),
                  Finish(l, l.list))

TakeWhile(a, l, e, invert) ==
    ForOf(l, e, IF a.p[e.value, 0] # invert THEN Give(l, <<e.value>>, 1) ELSE Finish(l, <<>>),
          Finish(l, <<>>))

takeWhile(a, l, e) == TakeWhile(a, l, e, FALSE)
takeUntil(a, l, e) == TakeWhile(a, l, e, TRUE)

-----------------------------------------------------------------------------
(* Sets of keys: l.keys is the HashSet.                                    *)

Key(a, e) == a.key[e.value]
Add(a, l, e) == [l EXCEPT !.keys = @ \cup {Key(a, e)}]

\* if (set.tryAdd(key)) yield element
GiveNew(a, l, e) == Give(Add(a, l, e), When(Key(a, e) \notin l.keys, <<e.value>>), e.src)

\* Each key of the right is found once.
intersectBy(a, l, e) ==
    CASE e = Start -> Read(l, 2)
      [] IsGot(e, 2) -> Read(Add(a, l, e), 2)
      [] IsEnded(e, 2) -> IF l.keys = {} THEN Finish(l, <<>>) ELSE Read(l, 1)
      [] IsGot(e, 1) -> Give([l EXCEPT !.keys = @ \ {Key(a, e)}],
                             When(Key(a, e) \in l.keys, <<e.value>>), 1)
      [] OTHER -> Finish(l, <<>>)
intersect(a, l, e) == intersectBy(ByIdentity(a), l, e)

unionBy(a, l, e) ==
    CASE e = Start -> Read(l, 1)
      [] e.on = "value" -> GiveNew(a, l, e)
      [] IsEnded(e, 1) -> Read(l, 2)
      [] OTHER -> Finish(l, <<>>)
union(a, l, e) == unionBy(ByIdentity(a), l, e)

\* The keys of the left join those of the right: each element is yielded once.
exceptBy(a, l, e) ==
    CASE e = Start -> Read(l, 2)
      [] IsGot(e, 2) -> Read(Add(a, l, e), 2)
      [] IsEnded(e, 2) -> Read(l, 1)
      [] IsGot(e, 1) -> GiveNew(a, l, e)
      [] OTHER -> Finish(l, <<>>)
except(a, l, e) == exceptBy(ByIdentity(a), l, e)

\* The values to exclude are an array.
exclude(a, l, e) ==
    IF e = Start THEN Read([l EXCEPT !.keys = {a.v}], 1)
    ELSE exceptBy(ByIdentity(a), l, e)

distinctBy(a, l, e) == ForOf(l, e, GiveNew(a, l, e), Finish(l, <<>>))
distinct(a, l, e) == distinctBy(ByIdentity(a), l, e)

defaultIfEmpty(a, l, e) ==
    ForOf(l, e, Give([l EXCEPT !.flag = TRUE], <<e.value>>, 1),
          Finish(l, When(~l.flag, <<a.v>>)))

\* The range, source 2, is read inside the loop over the source, before the first element
\* behind the gap (kept in l.list), or else behind the last one.
patch(a, l, e) ==
    CASE e = Start -> Read(l, 1)
      [] IsGot(e, 1) ->
            IF l.i < a.n THEN Give([l EXCEPT !.i = @ + 1], <<e.value>>, 1)
            ELSE IF l.i < a.n + a.m THEN Read([l EXCEPT !.i = @ + 1], 1)
            ELSE IF l.flag THEN Give(l, <<e.value>>, 1)
            ELSE Read([l EXCEPT !.list = <<e.value>>, !.flag = TRUE], 2)
      [] IsGot(e, 2) -> Give(l, <<e.value>>, 2)
      [] IsEnded(e, 2) -> IF l.list = <<>> THEN Finish(l, <<>>) ELSE Give(l, l.list, 1)
      [] OTHER -> IF l.flag THEN Finish(l, <<>>) ELSE Read([l EXCEPT !.flag = TRUE], 2)

-----------------------------------------------------------------------------
\* l.list holds `current`, if it has a value.
Seed(a, l) == [l EXCEPT !.list = When(a.seeded, <<a.v>>)]

scan(a, l, e) ==
    LET current == IF l.list = <<>> THEN e.value ELSE Accumulate(l.list[1], e.value, l.i)
    IN IF e = Start THEN Read(Seed(a, l), 1)
       ELSE ForOf(l, e, Give([l EXCEPT !.list = <<current>>, !.i = @ + 1],
                             When(l.list # <<>>, <<current>>), 1), Finish(l, <<>>))

\* The values that `current` takes on the way through `list`, from the end to the start.
Currents(a, list) ==
    LET Add1(acc, n) == Append(acc, IF acc = <<>> THEN list[n]
                                    ELSE Accumulate(acc[Len(acc)], list[n], n - 1))
    IN FoldLeft(Add1, When(a.seeded, <<a.v>>), Reverse([n \in DOMAIN list |-> n]))

scanRight(a, l, e) ==
    Whole(l, e, Finish(l, LET all == Currents(a, l.list) IN IF all = <<>> THEN <<>> ELSE Tail(all)))

\* The map from the keys of the right to its first elements is l.other, in its order; the
\* set `set` is l.keys.
symmetricDifferenceBy(a, l, e) ==
    LET HasKey(list) == \E n \in DOMAIN list : a.key[list[n]] = Key(a, e)
    IN CASE e = Start -> Read(l, 2)
         [] IsGot(e, 2) -> Read([l EXCEPT !.other = IF HasKey(@) THEN @ ELSE Append(@, e.value)], 2)
         [] IsEnded(e, 2) -> Read(l, 1)
         [] IsGot(e, 1) -> Give(Add(a, l, e), When(Key(a, e) \notin l.keys /\ ~HasKey(l.other),
                                                   <<e.value>>), 1)
         [] OTHER -> Finish(l, SelectSeq(l.other, LAMBDA x : a.key[x] \notin l.keys))
symmetricDifference(a, l, e) == symmetricDifferenceBy(ByIdentity(a), l, e)

tap(a, l, e) == Each(l, e, <<e.value>>)

\* [...source]; the array is iterated when all has been read.
materialize(a, l, e) == Whole(l, e, Finish(l, l.list))

-----------------------------------------------------------------------------
(* Joins, groupings, orderings and queries (joins.ts, grouping.ts,         *)
(* ordering.ts, queries.ts).                                               *)

\* createGroupings: a HashMap, in the order in which its keys came first.
createGroupings(elements, key) ==
    LET Put(groups, x) ==
            IF \E n \in DOMAIN groups : groups[n].key = key[x]
            THEN [n \in DOMAIN groups |-> IF groups[n].key # key[x] THEN groups[n]
                                          ELSE [groups[n] EXCEPT !.values = Append(@, x)]]
            ELSE Append(groups, [key |-> key[x], values |-> <<x>>])
    IN FoldLeft(Put, <<>>, elements)

\* map.get(key), and no values when there is no such key
ValuesOf(groups, key) ==
    LET group == SelectSeq(groups, LAMBDA g : g.key = key)
    IN IF group = <<>> THEN <<>> ELSE group[1].values

\* Source 2 is read into l.other, then source 1 is.
InnerFirst(l, e, each) ==
    CASE e = Start -> Read(l, 2)
      [] IsGot(e, 2) -> Read([l EXCEPT !.other = Append(@, e.value)], 2)
      [] IsEnded(e, 2) -> Read(l, 1)
      [] IsGot(e, 1) -> each
      [] OTHER -> Finish(l, <<>>)

InnerOf(a, l, e) == ValuesOf(createGroupings(l.other, a.key), a.key[e.value])

groupJoin(a, l, e) ==
    InnerFirst(l, e, Give(l, << Pair(e.value, InnerOf(a, l, e)) >>, 1))

join(a, l, e) ==
    InnerFirst(l, e, LET inner == InnerOf(a, l, e)
                     IN Give(l, [n \in DOMAIN inner |-> Pair(e.value, inner[n])], 1))

\* Both sides are read, the outer one first; then come the keys of the outer one and those
\* that only the inner one has, each with all pairs.
OrUndefined(elements) == IF elements = <<>> THEN <<Undefined>> ELSE elements
fullJoin(a, l, e) ==
    LET outer == createGroupings(l.list, a.key)
        inner == createGroupings(l.other, a.key)
        Keys(groups) == [n \in DOMAIN groups |-> groups[n].key]
        keys == Keys(outer) \o SelectSeq(Keys(inner), LAMBDA k : ~Contains(Keys(outer), k))
        Pairs(xs, ys) == FlattenSeq([i \in DOMAIN xs |-> [j \in DOMAIN ys |-> Pair(xs[i], ys[j])]])
    IN CASE e = Start -> Read(l, 1)
         [] IsGot(e, 1) -> Read([l EXCEPT !.list = Append(@, e.value)], 1)
         [] IsEnded(e, 1) -> Read(l, 2)
         [] IsGot(e, 2) -> Read([l EXCEPT !.other = Append(@, e.value)], 2)
         [] OTHER -> Finish(l, FlattenSeq([n \in DOMAIN keys |->
                               Pairs(OrUndefined(ValuesOf(outer, keys[n])),
                                     OrUndefined(ValuesOf(inner, keys[n])))]))

\* One element of each at a time; the right is asked too when the left is done (l.flag).
zip(a, l, e) ==
    CASE e = Start -> Read(l, 1)
      [] IsGot(e, 1) -> Read([l EXCEPT !.list = <<e.value>>], 2)
      [] IsEnded(e, 1) -> Read([l EXCEPT !.flag = TRUE], 2)
      [] IsGot(e, 2) /\ ~l.flag -> Give(l, << Pair(l.list[1], e.value) >>, 1)
      [] OTHER -> Finish(l, <<>>)

-----------------------------------------------------------------------------
Page(a, l, elements) == [page |-> l.i, offset |-> l.i * a.n, values |-> elements]

\* Pages of a.n elements, the last one with what is left.
pageBy(a, l, e) ==
    LET elements == Append(l.list, e.value)
    IN ForOf(l, e, IF Len(elements) >= a.n
                   THEN Give([l EXCEPT !.list = <<>>, !.i = @ + 1], <<Page(a, l, elements)>>, 1)
                   ELSE Read([l EXCEPT !.list = elements], 1),
             Finish(l, When(l.list # <<>>, <<Page(a, l, l.list)>>)))

Group(key, elements) == [key |-> key, values |-> elements]

\* A span of neighbors with the same key is yielded when another key or the end comes.
spanMap(a, l, e) ==
    LET same == l.list = <<>> \/ a.key[l.list[1]] = a.key[e.value]
    IN ForOf(l, e, IF same THEN Read([l EXCEPT !.list = Append(@, e.value)], 1)
                   ELSE Give([l EXCEPT !.list = <<e.value>>],
                             <<Group(a.key[l.list[1]], l.list)>>, 1),
             Finish(l, When(l.list # <<>>, <<Group(a.key[l.list[1]], l.list)>>)))

groupBy(a, l, e) == Whole(l, e, Finish(l, createGroupings(l.list, a.key)))

-----------------------------------------------------------------------------
reverse(a, l, e) == Whole(l, e, Finish(l, Reverse(l.list)))

\* The sorter of an OrderByIterable compares the keys of two places of the array; when
\* they are equal the sorter of thenBy decides, or the places do.
Sorter(array, key, descending, Next(_, _), i, j) ==
    IF key[array[i]] = key[array[j]] THEN Next(i, j)
    ELSE (key[array[i]] < key[array[j]]) # descending

ByPlace(i, j) == i < j

\* indices.sort(sorter), and the elements at the indices
SortedBy(array, Precedes(_, _)) ==
    LET indices == SortSeq([n \in DOMAIN array |-> n], Precedes)
    IN [n \in DOMAIN array |-> array[indices[n]]]

OrderBy(a, l, e, descending) ==
    Whole(l, e, Finish(l, SortedBy(l.list, LAMBDA i, j :
                                      Sorter(l.list, a.key, descending, ByPlace, i, j))))
orderBy(a, l, e) == OrderBy(a, l, e, FALSE)
orderByDescending(a, l, e) == OrderBy(a, l, e, TRUE)

\* The parent, of key a.key and ascending, then the elements themselves.
ThenBy(a, l, e, descending) ==
    LET Then(i, j) == Sorter(l.list, Identity, descending, ByPlace, i, j)
    IN Whole(l, e, Finish(l, SortedBy(l.list, LAMBDA i, j :
                                         Sorter(l.list, a.key, FALSE, Then, i, j))))
thenBy(a, l, e) == ThenBy(a, l, e, FALSE)
thenByDescending(a, l, e) == ThenBy(a, l, e, TRUE)

-----------------------------------------------------------------------------
(* Queries: sources of their own.                                          *)

empty(a, l, e) == Finish(l, <<>>)
once(a, l, e) == Finish(l, <<a.v>>)
repeat(a, l, e) == Finish(l, [n \in 1 .. a.n |-> a.v])
continuous(a, l, e) == Give(l, <<a.v>>, Again)
generate(a, l, e) == Finish(l, [n \in 1 .. a.n |-> Accumulate(0, 0, n - 1)])

\* From start to end, both included, up or down.
range(a, l, e) ==
    Finish(l, IF a.n <= a.m THEN [i \in 1 .. (a.m - a.n) \div a.step + 1 |-> a.n + (i - 1) * a.step]
              ELSE [i \in 1 .. (a.n - a.m) \div a.step + 1 |-> a.n - (i - 1) * a.step])

\* The iterator is the source; with leaveOpen (l.flag) it is not closed.
consume(a, l, e) ==
    IF e = Start THEN Read([l EXCEPT !.flag = a.seeded], 1) ELSE Each(l, e, <<e.value>>)

-----------------------------------------------------------------------------
(* Functions that read a source and return a value (scalars.ts). The value *)
(* is the last thing their command holds; nothing is there when they return*)
(* undefined.                                                              *)

Chosen(a, e) == a.p[e.value, 0]
Keep(l, e) == Read([l EXCEPT !.list = <<e.value>>], 1)
Skip(l) == Read(l, 1)

-----------------------------------------------------------------------------
\* l.list holds `current`, if it has a value.
reduce(a, l, e) ==
    LET current == IF l.list = <<>> THEN e.value ELSE Accumulate(l.list[1], e.value, l.i)
    IN IF e = Start THEN Read([l EXCEPT !.list = When(a.seeded, <<a.v>>)], 1)
       ELSE ForOf(l, e, Read([l EXCEPT !.list = <<current>>, !.i = @ + 1], 1), Finish(l, l.list))

reduceRight(a, l, e) ==
    LET Join(acc, n) == IF acc = <<>> THEN <<l.list[n]>>
                        ELSE <<Accumulate(acc[1], l.list[n], n - 1)>>
    IN Whole(l, e, Finish(l, FoldRight(LAMBDA n, acc : Join(acc, n), [n \in DOMAIN l.list |-> n],
                                       When(a.seeded, <<a.v>>))))

count(a, l, e) ==
    ForOf(l, e, Read([l EXCEPT !.i = IF Chosen(a, e) THEN @ + 1 ELSE @], 1), Finish(l, <<l.i>>))

first(a, l, e) ==
    ForOf(l, e, IF Chosen(a, e) THEN Finish(l, <<e.value>>) ELSE Skip(l), Finish(l, <<>>))

last(a, l, e) ==
    ForOf(l, e, IF Chosen(a, e) THEN Keep(l, e) ELSE Skip(l), Finish(l, l.list))

\* A second one ends the loop.
single(a, l, e) ==
    ForOf(l, e, IF ~Chosen(a, e) THEN Skip(l)
                ELSE IF l.list = <<>> THEN Keep(l, e) ELSE Finish(l, <<>>),
          Finish(l, l.list))

\* The first of those with the least key, or the greatest.
minBy(a, l, e) ==
    ForOf(l, e, IF l.list = <<>> \/ a.key[e.value] < a.key[l.list[1]] THEN Keep(l, e) ELSE Skip(l),
          Finish(l, l.list))
min(a, l, e) == minBy([a EXCEPT !.key = Identity], l, e)

maxBy(a, l, e) ==
    ForOf(l, e, IF l.list = <<>> \/ a.key[e.value] > a.key[l.list[1]] THEN Keep(l, e) ELSE Skip(l),
          Finish(l, l.list))
max(a, l, e) == maxBy([a EXCEPT !.key = Identity], l, e)

some(a, l, e) ==
    ForOf(l, e, IF Chosen(a, e) THEN Finish(l, <<TRUE>>) ELSE Skip(l), Finish(l, <<FALSE>>))

\* FALSE for no elements at all
every(a, l, e) ==
    ForOf(l, e, IF Chosen(a, e) THEN Read([l EXCEPT !.flag = TRUE], 1) ELSE Finish(l, <<FALSE>>),
          Finish(l, <<l.flag>>))

-----------------------------------------------------------------------------
(* Collections.                                                            *)

\* The parts of an element: here a pair.
Parts(x) == Pair(x, Accumulate(0, x, 0))

unzip(a, l, e) ==
    Whole(l, e, Finish(l, << IF l.list = <<>> THEN <<>>
                             ELSE [part \in 1 .. 2 |-> [n \in DOMAIN l.list |-> Parts(l.list[n])[part]]] >>))

\* The calls of the callback.
forEach(a, l, e) ==
    Whole(l, e, Finish(l, << [n \in DOMAIN l.list |-> Pair(l.list[n], n - 1)] >>))

\* map.set(key, element): the last of a key stays.
Entries(list, key) == FoldLeft(LAMBDA m, x : [k \in DOMAIN m \cup {key[x]} |->
                                                IF k = key[x] THEN x ELSE m[k]],
                               [k \in {} |-> 0], list)
toMap(a, l, e) == Whole(l, e, Finish(l, <<Entries(l.list, a.key)>>))
toHashMap(a, l, e) == Whole(l, e, Finish(l, <<Entries(l.list, a.key)>>))
toObject(a, l, e) == Whole(l, e, Finish(l, <<Entries(l.list, a.key)>>))

toSet(a, l, e) == Whole(l, e, Finish(l, <<{a.key[x] : x \in Range(l.list)}>>))
toHashSet(a, l, e) == Whole(l, e, Finish(l, <<{a.key[x] : x \in Range(l.list)}>>))

toArray(a, l, e) ==
    Whole(l, e, Finish(l, << [n \in DOMAIN l.list |-> a.key[l.list[n]]] >>))

\* The keys of the lookup, each with its elements.
toLookup(a, l, e) ==
    Whole(l, e, Finish(l, << [k \in {a.key[x] : x \in Range(l.list)} |->
                                SelectSeq(l.list, LAMBDA x : a.key[x] = k)] >>))

\* callback(source), which reads the source here.
into(a, l, e) == Whole(l, e, Finish(l, <<l.list>>))

sum(a, l, e) ==
    ForOf(l, e, Read([l EXCEPT !.i = @ + a.key[e.value]], 1), Finish(l, <<l.i>>))

\* A fraction; 0 for no elements.
average(a, l, e) ==
    Whole(l, e, Finish(l, << IF l.list = <<>> THEN <<0, 1>>
                             ELSE <<FoldLeft(LAMBDA acc, x : acc + a.key[x], 0, l.list),
                                    Len(l.list)>> >>))

\* The elements written to a collection that has room for a.n; the loop ends when one
\* more has been read.
copyTo(a, l, e) ==
    IF a.n = 0 THEN Finish(l, << <<>> >>)
    ELSE ForOf(l, e, IF Len(l.list) < a.n THEN Read([l EXCEPT !.list = Append(@, e.value)], 1)
                     ELSE Finish(l, <<l.list>>),
               Finish(l, <<l.list>>))

-----------------------------------------------------------------------------
\* The elements as long as the predicate is FALSE (invert) or TRUE, as an array; then the
\* client iterates the second result: the element that ended it, and those that a cached
\* consume() of the same iterator reads (l.i of them).
Span(a, l, e, invert) ==
    CASE e = Start -> Read(l, 1)
      [] IsGot(e, 1) /\ l.flag -> Give([l EXCEPT !.i = @ + 1], <<e.value>>, 1)
      [] IsGot(e, 1) -> IF a.p[e.value, Len(l.list)] # invert
                        THEN Read([l EXCEPT !.list = Append(@, e.value)], 1)
                        ELSE Give([l EXCEPT !.flag = TRUE], <<l.list, e.value>>, 1)
      [] OTHER -> Finish(l, When(~l.flag, <<l.list>>))
span(a, l, e) == Span(a, l, e, FALSE)
spanUntil(a, l, e) == Span(a, l, e, TRUE)

\* The next element of the left (in l.list, unless it is done), then that of the right.
Paired(l, e, compared) ==
    CASE e = Start -> Read(l, 1)
      [] IsGot(e, 1) -> Read([l EXCEPT !.list = <<e.value>>], 2)
      [] IsEnded(e, 1) -> Read([l EXCEPT !.list = <<>>], 2)
      [] OTHER -> compared

Same(a, l, e) == l.list # <<>> /\ e.on = "value" /\ a.key[l.list[1]] = a.key[e.value]

correspondsBy(a, l, e) ==
    Paired(l, e, CASE l.list = <<>> /\ IsEnded(e, 2) -> Finish(l, <<TRUE>>)
                   [] Same(a, l, e) -> Read(l, 1)
                   [] OTHER -> Finish(l, <<FALSE>>))
corresponds(a, l, e) == correspondsBy([a EXCEPT !.key = Identity], l, e)

startsWith(a, l, e) ==
    Paired(l, e, CASE IsEnded(e, 2) -> Finish(l, <<TRUE>>)
                   [] Same([a EXCEPT !.key = Identity], l, e) -> Read(l, 1)
                   [] OTHER -> Finish(l, <<FALSE>>))

\* The right is read first; the left keeps as many of its last elements.
endsWith(a, l, e) ==
    LET list == Append(l.list, e.value)
    IN CASE e = Start -> Read(l, 2)
         [] IsGot(e, 2) -> Read([l EXCEPT !.other = Append(@, e.value)], 2)
         [] IsEnded(e, 2) -> IF l.other = <<>> THEN Finish(l, <<TRUE>>) ELSE Read(l, 1)
         [] IsGot(e, 1) -> Read([l EXCEPT !.list = IF Len(list) > Len(l.other) THEN Tail(list)
                                                   ELSE list], 1)
         [] OTHER -> Finish(l, <<l.list = l.other>>)

includes(a, l, e) ==
    ForOf(l, e, IF e.value = a.v THEN Finish(l, <<TRUE>>) ELSE Skip(l), Finish(l, <<FALSE>>))

\* How many elements of `right` are matched when `x` comes after `matched` of them: on a
\* mismatch one is given up at a time and `x` is compared again.
Matched(right, matched, x) ==
    LET fits == {n \in 0 .. matched : right[n + 1] = x}
    IN IF fits = {} THEN 0 ELSE Max(fits) + 1

includesSequence(a, l, e) ==
    LET matched == Matched(l.other, l.i, e.value)
    IN CASE e = Start -> Read(l, 2)
         [] IsGot(e, 2) -> Read([l EXCEPT !.other = Append(@, e.value)], 2)
         [] IsEnded(e, 2) -> IF l.other = <<>> THEN Finish(l, <<TRUE>>) ELSE Read(l, 1)
         [] IsGot(e, 1) -> IF matched = Len(l.other) THEN Finish(l, <<TRUE>>)
                           ELSE Read([l EXCEPT !.i = matched], 1)
         [] OTHER -> Finish(l, <<FALSE>>)

\* From the start, or from the end (a.seeded), where the window l.list is kept.
elementAt(a, l, e) ==
    LET list == Append(l.list, e.value)
    IN CASE a.seeded /\ a.n = 0 -> Finish(l, <<>>)
         [] a.seeded -> ForOf(l, e, Read([l EXCEPT !.list = IF Len(list) > a.n THEN Tail(list)
                                                            ELSE list], 1),
                              Finish(l, When(Len(l.list) = a.n, <<Head(l.list)>>)))
         [] OTHER -> ForOf(l, e, IF l.i = a.n THEN Finish(l, <<e.value>>)
                                 ELSE Read([l EXCEPT !.i = @ + 1], 1), Finish(l, <<>>))

-----------------------------------------------------------------------------
(* The axes of @esfx/iter-hierarchy (axis.ts) and the methods that follow  *)
(* them from each element of a source (hierarchy.ts). The provider is the  *)
(* client's: a tree. It has parent() and children(), and may have the      *)
(* other members too (full): each axis that can use them has another body. *)

Nodes == DOMAIN Parent

\* The members of a full provider.
Siblings(x) == IF Parent[x] = Undefined THEN <<x>> ELSE Children[Parent[x]]
Beside(x, step) == LET list == Siblings(x)
                       places == {n \in DOMAIN list : n - step \in DOMAIN list /\ list[n - step] = x}
                   IN IF places = {} THEN Undefined ELSE list[Max(places)]
nextSibling(x) == Beside(x, 1)
previousSibling(x) == Beside(x, -1)
firstChild_(x) == IF Children[x] = <<>> THEN Undefined ELSE Children[x][1]
lastChild_(x) == IF Children[x] = <<>> THEN Undefined ELSE Children[x][Len(Children[x])]
rootOf == CHOOSE x \in Nodes : Parent[x] = Undefined

Unless(x) == IF x = Undefined THEN <<>> ELSE <<x>>

\* for (let node = x; node !== undefined; node = step(node))
Walk(x, step(_)) ==
    LET from[y \in Nodes \cup {Undefined}] == IF y = Undefined THEN <<>> ELSE <<y>> \o from[step(y)]
    IN from[x]

-----------------------------------------------------------------------------
(* Axes of one element.                                                    *)

self(x) == <<x>>
parents(x) == Unless(Parent[x])
children(x) == SelectSeq(Children[x], LAMBDA c : c # Undefined)

firstChild(x, full) == IF full THEN Unless(firstChild_(x))
                       ELSE SubSeq(children(x), 1, IF children(x) = <<>> THEN 0 ELSE 1)
lastChild(x, full) == IF full THEN Unless(lastChild_(x))
                      ELSE LET list == children(x)
                           IN IF list = <<>> THEN <<>> ELSE <<list[Len(list)]>>

\* An offset from the start, or from the end, where 0 is no element.
nthChild(x, offset, fromEnd, full) ==
    IF offset = 0 /\ ~fromEnd THEN firstChild(x, full)
    ELSE LET list == children(x)
             n == IF fromEnd THEN Len(list) - offset + 1 ELSE offset + 1
         IN IF n \in DOMAIN list THEN <<list[n]>> ELSE <<>>

ancestors(x, andSelf) == Walk(IF andSelf THEN x ELSE Parent[x], LAMBDA y : Parent[y])

root(x, full) == IF full THEN <<rootOf>>
                 ELSE LET list == ancestors(x, TRUE) IN <<list[Len(list)]>>

\* The children of a node by the members of a full provider, or by children().
ChildrenOf(x, full) == IF full THEN Walk(firstChild_(x), nextSibling) ELSE children(x)
ReverseChildrenOf(x, full) == IF full THEN Walk(lastChild_(x), previousSibling)
                              ELSE Reverse(children(x))

\* With the node itself before its children, or after them.
descendants(x, andSelf, after, full) ==
    LET all[y \in Nodes] ==
            LET below == FlattenSeq([n \in DOMAIN ChildrenOf(y, full) |-> all[ChildrenOf(y, full)[n]]])
            IN IF after THEN Append(below, y) ELSE <<y>> \o below
        below == FlattenSeq([n \in DOMAIN ChildrenOf(x, full) |-> all[ChildrenOf(x, full)[n]]])
    IN IF andSelf THEN all[x] ELSE below

reverseDescendants(x, full) ==
    LET all[y \in Nodes] ==
            FlattenSeq([n \in DOMAIN ReverseChildrenOf(y, full) |-> all[ReverseChildrenOf(y, full)[n]]])
            \o <<y>>
    IN all[x]

siblingsFallback(x, andSelf) ==
    IF Parent[x] = Undefined THEN <<>>
    ELSE SelectSeq(children(Parent[x]), LAMBDA c : andSelf \/ c # x)

precedingSiblings(x, full) ==
    IF full THEN Walk(previousSibling(x), previousSibling)
    ELSE LET list == siblingsFallback(x, TRUE)
         IN Reverse(SubSeq(list, 1, SelectInSeq(list, LAMBDA c : c = x) - 1))

followingSiblings(x, full) ==
    IF full THEN Walk(nextSibling(x), nextSibling)
    ELSE LET list == siblingsFallback(x, TRUE)
         IN SubSeq(list, SelectInSeq(list, LAMBDA c : c = x) + 1, Len(list))

\* A full provider's siblings of a root are with the root itself.
siblings(x, andSelf, full) ==
    IF full THEN Reverse(precedingSiblings(x, TRUE)) \o When(andSelf, <<x>>)
                 \o followingSiblings(x, TRUE)
    ELSE siblingsFallback(x, andSelf)

preceding(x, full) ==
    FlattenSeq([n \in DOMAIN ancestors(x, TRUE) |->
        LET before == precedingSiblings(ancestors(x, TRUE)[n], full)
        IN FlattenSeq([i \in DOMAIN before |-> reverseDescendants(before[i], full)])])

following(x, full) ==
    FlattenSeq([n \in DOMAIN ancestors(x, TRUE) |->
        LET behind == followingSiblings(ancestors(x, TRUE)[n], full)
        IN FlattenSeq([i \in DOMAIN behind |-> descendants(behind[i], TRUE, TRUE, full)])])

-----------------------------------------------------------------------------
(* Methods.                                                                *)

VerticalAxis(m, a, x) ==
    CASE m = "root" -> root(x, a.full)
      [] m = "ancestors" -> ancestors(x, FALSE)
      [] m = "ancestorsAndSelf" -> ancestors(x, TRUE)
      [] m = "descendants" -> descendants(x, FALSE, FALSE, a.full)
      [] m = "descendantsAndSelf" -> descendants(x, TRUE, FALSE, a.full)

SidewaysAxis(m, a, x) ==
    CASE m = "parents" -> parents(x)
      [] m = "self" -> self(x)
      [] m = "siblings" -> siblings(x, FALSE, a.full)
      [] m = "siblingsAndSelf" -> siblings(x, TRUE, a.full)
      [] m = "precedingSiblings" -> precedingSiblings(x, a.full)
      [] m = "followingSiblings" -> followingSiblings(x, a.full)
      [] m = "preceding" -> preceding(x, a.full)
      [] m = "following" -> following(x, a.full)

ChildAxis(m, a, x) ==
    CASE m = "children" -> children(x)
      [] m = "firstChild" -> firstChild(x, a.full)
      [] m = "lastChild" -> lastChild(x, a.full)
      [] m = "nthChild" -> nthChild(x, a.n, a.seeded, a.full)

VerticalAxes == {"root", "ancestors", "ancestorsAndSelf", "descendants", "descendantsAndSelf"}
ChildAxes == {"children", "firstChild", "lastChild", "nthChild"}

isHierarchyElement(x) == x \in Nodes

AxisOf(m, a, x) == CASE m \in VerticalAxes -> VerticalAxis(m, a, x)
                     [] m \in ChildAxes -> ChildAxis(m, a, x)
                     [] OTHER -> SidewaysAxis(m, a, x)

\* The predicate of nthChild() is forgotten.
createHierarchyIterable(m, a, l, e) ==
    LET Wanted(x) == m = "nthChild" \/ a.p[x, 0]
    IN Each(l, e, IF isHierarchyElement(e.value) THEN SelectSeq(AxisOf(m, a, e.value), Wanted)
                  ELSE <<>>)

\* From the end of the array on, a node goes when one before it is its ancestor (or, for
\* bottomMost, its descendant), and one before it goes when the node is its ancestor.
Above(x, y) == Contains(ancestors(y, FALSE), x)
Thinned(list, Goes(_, _)) ==
    LET Look(st, j) ==      \* the node is at place i, until it is gone
            CASE st.gone -> st
              [] Goes(st.array[st.i], st.array[j]) ->
                    [st EXCEPT !.array = RemoveAt(@, st.i), !.gone = TRUE]
              [] Goes(st.array[j], st.array[st.i]) ->
                    [st EXCEPT !.array = RemoveAt(@, j), !.i = @ - 1]
              [] OTHER -> st
        Down(n) == [k \in 1 .. n |-> n - k + 1]
        Pass(st, k) == IF st.i < 2 THEN st
                       ELSE [FoldLeft(Look, [st EXCEPT !.gone = FALSE], Down(st.i - 1))
                             EXCEPT !.i = @ - 1]
    IN FoldLeft(Pass, [array |-> list, i |-> Len(list), gone |-> FALSE], list).array

topMost(a, l, e) ==
    Whole(l, e, Finish(l, SelectSeq(Thinned(l.list, LAMBDA x, y : Above(y, x)),
                                    LAMBDA x : a.p[x, 0])))
bottomMost(a, l, e) ==
    Whole(l, e, Finish(l, SelectSeq(Thinned(l.list, LAMBDA x, y : Above(x, y)),
                                    LAMBDA x : a.p[x, 0])))

-----------------------------------------------------------------------------
(* By name.                                                                *)

Fn(m, a, l, e) ==
    CASE m = "append" -> append(a, l, e)
      [] m = "prepend" -> prepend(a, l, e)
      [] m = "concat" -> concat(a, l, e)
      [] m = "filterBy" -> filterBy(a, l, e)
      [] m = "filter" -> filter(a, l, e)
      [] m = "filterDefined" -> filterDefined(a, l, e)
      [] m = "filterDefinedBy" -> filterDefinedBy(a, l, e)
      [] m = "filterNotBy" -> filterNotBy(a, l, e)
      [] m = "filterNot" -> filterNot(a, l, e)
      [] m = "filterNotDefinedBy" -> filterNotDefinedBy(a, l, e)
      [] m = "map" -> map(a, l, e)
      [] m = "flatMap" -> flatMap(a, l, e)
      [] m = "drop" -> drop(a, l, e)
      [] m = "dropRight" -> dropRight(a, l, e)
      [] m = "dropWhile" -> dropWhile(a, l, e)
      [] m = "dropUntil" -> dropUntil(a, l, e)
      [] m = "take" -> take(a, l, e)
      [] m = "takeRight" -> takeRight(a, l, e)
      [] m = "takeWhile" -> takeWhile(a, l, e)
      [] m = "takeUntil" -> takeUntil(a, l, e)
      [] m = "intersectBy" -> intersectBy(a, l, e)
      [] m = "intersect" -> intersect(a, l, e)
      [] m = "unionBy" -> unionBy(a, l, e)
      [] m = "union" -> union(a, l, e)
      [] m = "exceptBy" -> exceptBy(a, l, e)
      [] m = "except" -> except(a, l, e)
      [] m = "exclude" -> exclude(a, l, e)
      [] m = "distinctBy" -> distinctBy(a, l, e)
      [] m = "distinct" -> distinct(a, l, e)
      [] m = "defaultIfEmpty" -> defaultIfEmpty(a, l, e)
      [] m = "patch" -> patch(a, l, e)
      [] m = "scan" -> scan(a, l, e)
      [] m = "scanRight" -> scanRight(a, l, e)
      [] m = "symmetricDifferenceBy" -> symmetricDifferenceBy(a, l, e)
      [] m = "symmetricDifference" -> symmetricDifference(a, l, e)
      [] m = "tap" -> tap(a, l, e)
      [] m = "materialize" -> materialize(a, l, e)
      [] m = "groupJoin" -> groupJoin(a, l, e)
      [] m = "join" -> join(a, l, e)
      [] m = "fullJoin" -> fullJoin(a, l, e)
      [] m = "zip" -> zip(a, l, e)
      [] m = "pageBy" -> pageBy(a, l, e)
      [] m = "spanMap" -> spanMap(a, l, e)
      [] m = "groupBy" -> groupBy(a, l, e)
      [] m = "reverse" -> reverse(a, l, e)
      [] m = "orderBy" -> orderBy(a, l, e)
      [] m = "orderByDescending" -> orderByDescending(a, l, e)
      [] m = "thenBy" -> thenBy(a, l, e)
      [] m = "thenByDescending" -> thenByDescending(a, l, e)
      [] m = "empty" -> empty(a, l, e)
      [] m = "once" -> once(a, l, e)
      [] m = "repeat" -> repeat(a, l, e)
      [] m = "continuous" -> continuous(a, l, e)
      [] m = "generate" -> generate(a, l, e)
      [] m = "range" -> range(a, l, e)
      [] m = "consume" -> consume(a, l, e)
      [] m = "reduce" -> reduce(a, l, e)
      [] m = "reduceRight" -> reduceRight(a, l, e)
      [] m = "count" -> count(a, l, e)
      [] m = "first" -> first(a, l, e)
      [] m = "last" -> last(a, l, e)
      [] m = "single" -> single(a, l, e)
      [] m = "minBy" -> minBy(a, l, e)
      [] m = "min" -> min(a, l, e)
      [] m = "maxBy" -> maxBy(a, l, e)
      [] m = "max" -> max(a, l, e)
      [] m = "some" -> some(a, l, e)
      [] m = "every" -> every(a, l, e)
      [] m = "unzip" -> unzip(a, l, e)
      [] m = "forEach" -> forEach(a, l, e)
      [] m = "toMap" -> toMap(a, l, e)
      [] m = "toHashMap" -> toHashMap(a, l, e)
      [] m = "toObject" -> toObject(a, l, e)
      [] m = "toSet" -> toSet(a, l, e)
      [] m = "toHashSet" -> toHashSet(a, l, e)
      [] m = "toArray" -> toArray(a, l, e)
      [] m = "toLookup" -> toLookup(a, l, e)
      [] m = "into" -> into(a, l, e)
      [] m = "sum" -> sum(a, l, e)
      [] m = "average" -> average(a, l, e)
      [] m = "copyTo" -> copyTo(a, l, e)
      [] m = "span" -> span(a, l, e)
      [] m = "spanUntil" -> spanUntil(a, l, e)
      [] m = "correspondsBy" -> correspondsBy(a, l, e)
      [] m = "corresponds" -> corresponds(a, l, e)
      [] m = "startsWith" -> startsWith(a, l, e)
      [] m = "endsWith" -> endsWith(a, l, e)
      [] m = "includes" -> includes(a, l, e)
      [] m = "includesSequence" -> includesSequence(a, l, e)
      [] m = "elementAt" -> elementAt(a, l, e)
      [] m = "topMost" -> topMost(a, l, e)
      [] m = "bottomMost" -> bottomMost(a, l, e)
      [] OTHER -> createHierarchyIterable(m, a, l, e)

-----------------------------------------------------------------------------
(* Interval of @esfx/interval, which queries iterate: an interval of the    *)
(* offsets of an indexed collection, each end counted from the start of    *)
(* the collection or from its end.  Its arguments are the start n and the  *)
(* end m, counted from the end when seeded and full, the step, and the     *)
(* length v of the collection.                                             *)

Index(value, isFromEnd) == [value |-> value, isFromEnd |-> isFromEnd]
getIndex(index, length) == IF index.isFromEnd THEN length - index.value ELSE index.value

Interval(a) == [start |-> Index(a.n, a.seeded), end |-> Index(a.m, a.full), step |-> a.step]

\* An interval whose end is before its start goes down.
getIndices(interval, length) ==
    LET start == getIndex(interval.start, length)
        end == getIndex(interval.end, length)
    IN [start |-> start, end |-> end, step |-> IF end < start THEN -interval.step ELSE interval.step]

\* for (let i = start; step < i ? i > end : i < end; i += step) yield i, where i is l.i.
\* The step is compared with i, and not with 0.
values(a, l, e) ==
    LET indices == getIndices(Interval(a), a.v)
        i == IF e = Start THEN indices.start ELSE l.i
        goes == IF indices.step < i THEN i > indices.end ELSE i < indices.end
    IN IF goes THEN Give([l EXCEPT !.i = i + indices.step], <<i>>, Again) ELSE Finish(l, <<>>)

\* "Yields each offset within the interval given the length of an indexed collection"
\* (interval/src/index.ts:201).
Offsets(a) ==
    LET indices == getIndices(Interval(a), a.v)
        distance == Max({indices.end - indices.start, indices.start - indices.end})
    IN [n \in 1 .. (distance + a.step - 1) \div a.step |-> indices.start + (n - 1) * indices.step]
=============================================================================
