---------------------------- MODULE IterMeaning ----------------------------
(***************************************************************************)
(* What the methods promise: the sequence that a method with arguments a   *)
(* gives for a source s and a right t, stated of the whole sequences and   *)
(* by none of the steps of its implementation.  What a function returns is *)
(* a sequence of one value, or of none when it returns undefined.  It is   *)
(* what their documentation says, where some of them do something else too *)
(* (Deviates in MCIteration); where it leaves something open, like the     *)
(* average of no numbers, it is what they do.                              *)
(***************************************************************************)
EXTENDS IterSteps

LOCAL Indices(s) == [n \in DOMAIN s |-> n]
LOCAL Backwards(s) == Reverse(Indices(s))
LOCAL Mapped(s, F(_)) == [n \in DOMAIN s |-> F(s[n])]

\* The elements of s at the places that Keep names.
LOCAL At(s, Keep(_)) == Mapped(SelectSeq(Indices(s), Keep), LAMBDA n : s[n])

LOCAL From(s, n) == SubSeq(s, n, Len(s))
LOCAL Least(m, n) == IF m < n THEN m ELSE n
LOCAL LastN(s, n) == From(s, Len(s) - Least(n, Len(s)) + 1)
LOCAL If(condition, value) == IF condition THEN <<value>> ELSE <<>>

\* How long the longest initial part is all of whose places are good.
LOCAL Run(s, Good(_)) == Max({n \in 0 .. Len(s) : \A i \in 1 .. n : Good(i)})

LOCAL KeysIn(a, s) == {a.key[x] : x \in Range(s)}
LOCAL Firsts(a, s) == At(s, LAMBDA n : a.key[s[n]] \notin KeysIn(a, SubSeq(s, 1, n - 1)))
LOCAL Without(a, s, t) == SelectSeq(s, LAMBDA x : a.key[x] \notin KeysIn(a, t))
LOCAL WithKey(a, s, k) == SelectSeq(s, LAMBDA x : a.key[x] = k)

\* The accumulation over the places `order` of s.
LOCAL Total(a, s, order) ==
    LET rest == IF a.seeded THEN order ELSE Tail(order)
    IN FoldLeft(LAMBDA current, n : Accumulate(current, s[n], n - 1),
                IF a.seeded THEN a.v ELSE s[order[1]], rest)
LOCAL Totals(a, s, order) ==
    LET least == IF a.seeded THEN 1 ELSE 2
    IN [n \in 1 .. Len(order) - least + 1 |-> Total(a, s, SubSeq(order, 1, n + least - 1))]
LOCAL Reduced(a, s, order) == IF ~a.seeded /\ s = <<>> THEN <<>> ELSE <<Total(a, s, order)>>

\* The places of s in the order of Before, a strict order.
LOCAL Ordered(s, Before(_, _)) ==
    LET Rank(i) == Cardinality({j \in DOMAIN s : Before(j, i)})
    IN [n \in DOMAIN s |-> s[CHOOSE i \in DOMAIN s : Rank(i) = n - 1]]

LOCAL ByKey(a, s, i, j, descending) ==
    IF descending THEN a.key[s[i]] > a.key[s[j]] ELSE a.key[s[i]] < a.key[s[j]]

LOCAL Sort(a, s, descending) ==
    Ordered(s, LAMBDA i, j : \/ ByKey(a, s, i, j, descending)
                             \/ a.key[s[i]] = a.key[s[j]] /\ i < j)

LOCAL SortTwice(a, s, descending) ==
    Ordered(s, LAMBDA i, j : \/ ByKey(a, s, i, j, FALSE)
                             \/ /\ a.key[s[i]] = a.key[s[j]]
                                /\ \/ ByKey(ByIdentity(a), s, i, j, descending)
                                   \/ s[i] = s[j] /\ i < j)

-----------------------------------------------------------------------------
LOCAL Spans(m, a, s) ==
    LET n == Run(s, LAMBDA i : a.p[s[i], i - 1] # (m = "spanUntil"))
    IN << SubSeq(s, 1, n) >> \o From(s, n + 1)

LOCAL Value(m, a, s, t) ==
    LET chosen == SelectSeq(s, LAMBDA x : a.p[x, 0])
        LeastBy(Precedes(_, _)) == At(s, LAMBDA n : \A i \in DOMAIN s :
                                        \/ Precedes(a.key[s[n]], a.key[s[i]])
                                        \/ a.key[s[n]] = a.key[s[i]] /\ n <= i)
    IN CASE m = "reduce" -> Reduced(a, s, Indices(s))
         [] m = "reduceRight" -> Reduced(a, s, Backwards(s))
         [] m = "count" -> <<Len(chosen)>>
         [] m = "first" -> SubSeq(chosen, 1, Least(1, Len(chosen)))
         [] m = "last" -> LastN(chosen, 1)
         [] m = "single" -> If(Len(chosen) = 1, chosen[1])
         [] m \in {"minBy", "min"} -> LeastBy(LAMBDA x, y : x < y)
         [] m \in {"maxBy", "max"} -> LeastBy(LAMBDA x, y : x > y)
         [] m = "some" -> <<\E x \in Range(s) : a.p[x, 0]>>
         [] m = "every" -> <<\A x \in Range(s) : a.p[x, 0]>>
         [] m = "unzip" -> << IF s = <<>> THEN <<>>
                              ELSE << s, Mapped(s, LAMBDA x : Accumulate(0, x, 0)) >> >>
         [] m = "forEach" -> << Mapped(Indices(s), LAMBDA n : Pair(s[n], n - 1)) >>
         [] m \in {"toMap", "toHashMap", "toObject"} ->
               << [k \in KeysIn(a, s) |-> LastN(WithKey(a, s, k), 1)[1]] >>
         [] m \in {"toSet", "toHashSet"} -> << KeysIn(a, s) >>
         [] m = "toArray" -> << Mapped(s, LAMBDA x : a.key[x]) >>
         [] m = "toLookup" -> << [k \in KeysIn(a, s) |-> WithKey(a, s, k)] >>
         [] m = "into" -> <<s>>
         [] m = "sum" -> <<MapThenSumSet(LAMBDA n : a.key[s[n]], DOMAIN s)>>
         [] m = "average" -> <<IF s = <<>> THEN <<0, 1>>
                               ELSE <<MapThenSumSet(LAMBDA n : a.key[s[n]], DOMAIN s), Len(s)>> >>
         [] m = "copyTo" -> <<SubSeq(s, 1, Least(a.n, Len(s)))>>
         [] m \in {"correspondsBy", "corresponds"} ->
               <<Mapped(s, LAMBDA x : a.key[x]) = Mapped(t, LAMBDA x : a.key[x])>>
         [] m = "startsWith" -> <<IsPrefix(t, s)>>
         [] m = "endsWith" -> <<IsSuffix(t, s)>>
         [] m = "includes" -> <<a.v \in Range(s)>>
         [] m = "includesSequence" -> <<\E n \in 0 .. Len(s) : IsPrefix(t, From(s, n + 1))>>
         [] m = "elementAt" -> IF a.seeded THEN If(a.n \in DOMAIN s, s[Len(s) - a.n + 1])
                               ELSE If(a.n + 1 \in DOMAIN s, s[a.n + 1])
         [] OTHER -> Spans(m, a, s)

LOCAL Grouping(m, a, s, t) ==
    CASE m = "groupJoin" -> Mapped(s, LAMBDA x : Pair(x, WithKey(a, t, a.key[x])))
      [] m = "join" -> FlattenSeq(Mapped(s, LAMBDA x :
                           Mapped(WithKey(a, t, a.key[x]), LAMBDA y : Pair(x, y))))
      [] m = "fullJoin" ->
            LET Side(list, k) == IF k \in KeysIn(a, list) THEN WithKey(a, list, k) ELSE <<Undefined>>
                Of(x) == FlattenSeq(Mapped(Side(s, a.key[x]), LAMBDA y :
                             Mapped(Side(t, a.key[x]), LAMBDA z : Pair(y, z))))
            IN FlattenSeq(Mapped(Firsts(a, s \o t), Of))
      [] m = "zip" -> [n \in 1 .. Least(Len(s), Len(t)) |-> Pair(s[n], t[n])]
      [] m = "pageBy" ->
            [n \in 1 .. (Len(s) + a.n - 1) \div a.n |->
                [page |-> n - 1, offset |-> (n - 1) * a.n,
                 values |-> SubSeq(s, (n - 1) * a.n + 1, Least(n * a.n, Len(s)))]]
      [] m = "spanMap" ->
            LET starts == SelectSeq(Indices(s), LAMBDA n : n = 1 \/ a.key[s[n]] # a.key[s[n - 1]])
                Stop(n) == IF n = Len(starts) THEN Len(s) ELSE starts[n + 1] - 1
            IN [n \in DOMAIN starts |-> [key |-> a.key[s[starts[n]]],
                                         values |-> SubSeq(s, starts[n], Stop(n))]]
      [] m = "groupBy" -> Mapped(Firsts(a, s), LAMBDA x :
                              [key |-> a.key[x], values |-> WithKey(a, s, a.key[x])])
      [] m = "reverse" -> Mapped(Backwards(s), LAMBDA n : s[n])
      [] m = "orderBy" -> Sort(a, s, FALSE)
      [] m = "orderByDescending" -> Sort(a, s, TRUE)
      [] m = "thenBy" -> SortTwice(a, s, FALSE)
      [] m = "thenByDescending" -> SortTwice(a, s, TRUE)
      [] m = "empty" -> <<>>
      [] m = "once" -> <<a.v>>
      [] m = "repeat" -> [n \in 1 .. a.n |-> a.v]
      [] m = "generate" -> [n \in 1 .. a.n |-> Accumulate(0, 0, n - 1)]
      [] m = "range" ->
            LET Within == {x \in Values : (x - a.n) % a.step = 0
                             /\ x >= Least(a.n, a.m) /\ x <= Max({a.n, a.m})}
            IN SetToSortSeq(Within, LAMBDA x, y : IF a.n < a.m THEN x < y ELSE x > y)
      [] m = "consume" -> s
      [] m = "continuous" -> [n \in 1 .. a.m |-> a.v]
      [] OTHER -> Value(m, a, s, t)

Meaning(m, a, s, t) ==
    CASE m = "append" -> Append(s, a.v)
      [] m = "prepend" -> <<a.v>> \o s
      [] m = "concat" -> s \o t
      [] m \in {"filterBy", "filter"} -> At(s, LAMBDA n : a.p[a.key[s[n]], n - 1])
      [] m \in {"filterDefinedBy", "filterDefined"} -> SelectSeq(s, LAMBDA x : a.key[x] # Undefined)
      [] m \in {"filterNotBy", "filterNot"} -> At(s, LAMBDA n : ~a.p[a.key[s[n]], n - 1])
      [] m = "filterNotDefinedBy" -> SelectSeq(s, LAMBDA x : a.key[x] = Undefined)
      [] m = "map" -> [n \in DOMAIN s |-> Accumulate(0, s[n], n - 1)]
      [] m = "flatMap" -> FlattenSeq(Mapped(s, LAMBDA x :
                              IF a.seeded THEN Mapped(Project(x), LAMBDA y : Pair(x, y))
                              ELSE Project(x)))
      [] m = "drop" -> From(s, a.n + 1)
      [] m = "dropRight" -> SubSeq(s, 1, Len(s) - a.n)
      [] m = "dropWhile" -> From(s, Run(s, LAMBDA n : a.p[s[n], 0]) + 1)
      [] m = "dropUntil" -> From(s, Run(s, LAMBDA n : ~a.p[s[n], 0]) + 1)
      [] m = "take" -> SubSeq(s, 1, Least(a.n, Len(s)))
      [] m = "takeRight" -> LastN(s, a.n)
      [] m = "takeWhile" -> SubSeq(s, 1, Run(s, LAMBDA n : a.p[s[n], 0]))
      [] m = "takeUntil" -> SubSeq(s, 1, Run(s, LAMBDA n : ~a.p[s[n], 0]))
      [] m \in {"intersectBy", "intersect"} ->
            SelectSeq(Firsts(a, s), LAMBDA x : a.key[x] \in KeysIn(a, t))
      [] m \in {"unionBy", "union"} -> Firsts(a, s \o t)
      [] m \in {"exceptBy", "except"} -> Firsts(a, Without(a, s, t))
      [] m = "exclude" -> SelectSeq(s, LAMBDA x : x # a.v)
      [] m \in {"distinctBy", "distinct"} -> Firsts(a, s)
      [] m = "defaultIfEmpty" -> IF s = <<>> THEN <<a.v>> ELSE s
      [] m = "patch" -> SubSeq(s, 1, Least(a.n, Len(s))) \o t \o From(s, a.n + a.m + 1)
      [] m = "scan" -> Totals(a, s, Indices(s))
      [] m = "scanRight" -> Totals(a, s, Backwards(s))
      [] m \in {"symmetricDifferenceBy", "symmetricDifference"} ->
            Firsts(a, Without(a, s, t)) \o Firsts(a, Without(a, t, s))
      [] m \in {"tap", "materialize"} -> s
      [] OTHER -> Grouping(m, a, s, t)
=============================================================================
