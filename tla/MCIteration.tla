---------------------------- MODULE MCIteration ----------------------------
(***************************************************************************)
(* Every method of iter-fn, async-iter-fn, Query and AsyncQuery on short   *)
(* inputs, chains of two of them, and the classes of queries.              *)
(***************************************************************************)
EXTENDS IterMeaning, TLC

CONSTANTS SyncKinds,    \* see AsyncIterQuery
          Ascending     \* whether intervals that go up are iterated

VARIABLES call, stage, requests, got, outcome, source, class, promised, provider, trees

\* The tree 1 -> (2 -> (4, 5), 3 -> (6)); 7 is not the provider's, 0 is undefined.
MCParent == <<0, 1, 1, 2, 2, 3>>
MCChildren == << <<2, 3>>, <<4, 5>>, <<6>>, <<>>, <<>>, <<>> >>
DocumentOrder == <<1, 2, 4, 5, 3, 6>>
PostOrder == <<4, 5, 2, 6, 3, 1>>

Sync == INSTANCE IterFn WITH Parent <- MCParent, Children <- MCChildren
Async == INSTANCE AsyncIterFn WITH Parent <- MCParent, Children <- MCChildren

\* A and B claim nodes, some of them both; C and D claim none.
MCNodes == {"x", "y", "z", "unclaimed"}
MCClaims == [A |-> {"x", "y"}, B |-> {"y", "z"}]
MCMembers == [A |-> {"root", "firstChild"}, B |-> {"root"}, C |-> {"root", "firstChild"}, D |-> {}]
Query == INSTANCE IterQuery WITH
    Providers <- DOMAIN MCMembers, Nodes <- MCNodes,
    Claims <- MCClaims, HasMembers <- MCMembers

AsyncQuery == INSTANCE AsyncIterQuery

IsAsync(c) == c.api \in {"asyncFn", "asyncQuery"}

\* A function of async-iter-fn goes by the name of the method that calls it.
Function(c) == CASE c.api = "query" -> Query!Methods[c.method]
                 [] IsAsync(c) -> AsyncQuery!Methods[c.method]
                 [] OTHER -> c.method

\* range() of AsyncQuery is that of iter-fn.
MCCommand(c, l, e) == IF c.method = "interval" THEN Sync!values(c.args, l, e)
                      ELSE IF IsAsync(c) /\ c.method # "range" THEN Async!Fn(Function(c), c.args, l, e)
                      ELSE Sync!Fn(Function(c), c.args, l, e)

-----------------------------------------------------------------------------
(* The methods, by what they take.                                         *)

OneSource == {"append", "prepend", "filterBy", "filter", "filterDefined", "filterDefinedBy",
    "filterNotBy", "filterNot", "filterNotDefinedBy", "map", "flatMap", "drop", "dropRight",
    "dropWhile", "dropUntil", "take", "takeRight", "takeWhile", "takeUntil", "exclude", "distinctBy",
    "distinct", "defaultIfEmpty", "scan", "scanRight", "tap", "materialize", "pageBy", "spanMap",
    "groupBy", "reverse", "orderBy", "orderByDescending", "thenBy", "thenByDescending", "consume"}
OneScalar == {"reduce", "reduceRight", "count", "first", "last", "single", "minBy", "min", "maxBy",
    "max", "some", "every", "unzip", "forEach", "toMap", "toHashMap", "toObject", "toSet",
    "toHashSet", "toArray", "toLookup", "into", "sum", "average", "copyTo", "includes", "elementAt"}
Spans == {"span", "spanUntil"}
TwoSources == {"concat", "intersectBy", "intersect", "unionBy", "union", "exceptBy", "except",
    "patch", "symmetricDifferenceBy", "symmetricDifference", "groupJoin", "join", "fullJoin", "zip"}
TwoScalar == {"correspondsBy", "corresponds", "startsWith", "endsWith", "includesSequence"}
NoSource == {"empty", "once", "repeat", "generate", "range", "continuous"}
AxisMethods == DOMAIN Query!Axes \ {"siblingsBeforeSelf", "siblingsAfterSelf"}
Mosts == DOMAIN Query!mosts
Aliases == {m \in DOMAIN Query!Methods : Query!Methods[m] # m}

\* What the documentation of an alias says that it is an alias for.
AliasFor == [where |-> "filter", whereBy |-> "filterBy", whereDefined |-> "filterDefined",
    whereDefinedBy |-> "filterDefinedBy", whereNot |-> "filterNot", whereNotBy |-> "filterNotBy",
    whereNotDefinedBy |-> "filterNotDefinedBy", select |-> "map", selectMany |-> "flatMap",
    skip |-> "drop", skipRight |-> "dropRight", skipWhile |-> "dropWhile", skipUntil |-> "dropUntil",
    relativeComplement |-> "except", relativeComplementBy |-> "exceptBy", nth |-> "elementAt",
    break |-> "spanUntil", siblingsBeforeSelf |-> "precedingSiblings",
    siblingsAfterSelf |-> "followingSiblings"]
Documented(m) == IF m \in DOMAIN AliasFor THEN AliasFor[m] ELSE m

Elements == 0 .. 2
Offsets == 0 .. 3
Default == [p |-> [x \in Values, i \in Offsets |-> TRUE], key |-> Identity, n |-> 0, m |-> 0,
            v |-> 1, step |-> 1, seeded |-> FALSE, full |-> FALSE]
Preds == { [x \in Values, i \in Offsets |-> x # 0], [x \in Values, i \in Offsets |-> (x + i) % 2 = 0] }
Parity == [x \in Values |-> x % 2]

ByPredicate == {"filterBy", "filter", "filterNotBy", "filterNot", "dropWhile", "dropUntil",
    "takeWhile", "takeUntil", "count", "first", "last", "single", "some", "every"} \cup Spans
ByKeys == {"filterBy", "filterDefinedBy", "filterNotBy", "filterNotDefinedBy", "intersectBy",
    "unionBy", "exceptBy", "distinctBy", "symmetricDifferenceBy", "groupJoin", "join", "fullJoin",
    "spanMap", "groupBy", "orderBy", "orderByDescending", "thenBy", "thenByDescending", "minBy",
    "maxBy", "toMap", "toHashMap", "toObject", "toSet", "toHashSet", "toArray", "toLookup", "sum",
    "average", "correspondsBy"}
Seeds == {"reduce", "reduceRight", "scan", "scanRight", "flatMap", "consume"}
Counts == {"drop", "dropRight", "take", "takeRight", "copyTo", "repeat", "generate"}

ArgsOf(m) ==
    CASE m \in ByPredicate ->
            {[Default EXCEPT !.p = p, !.key = IF m \in ByKeys THEN Parity ELSE @] : p \in Preds}
      [] m \in Counts -> {[Default EXCEPT !.n = n] : n \in 0 .. 2}
      [] m = "elementAt" -> {[Default EXCEPT !.n = n, !.seeded = b] : n \in 0 .. 2, b \in BOOLEAN}
      [] m = "pageBy" -> {[Default EXCEPT !.n = n] : n \in 1 .. 2}
      [] m = "patch" -> {[Default EXCEPT !.n = n, !.m = k] : n, k \in 0 .. 2}
      [] m = "range" -> {[Default EXCEPT !.n = n, !.m = k, !.step = b] : n, k \in 0 .. 4, b \in 1 .. 2}
      [] m = "interval" ->
            {a \in {[Default EXCEPT !.n = n, !.m = k, !.step = b, !.v = 4, !.seeded = s, !.full = f] :
                        n, k \in 0 .. 4, b \in 1 .. 3, s, f \in BOOLEAN} :
                LET indices == Sync!getIndices(Sync!Interval(a), a.v)
                IN Ascending \/ indices.end <= indices.start}
      [] m \in Seeds -> {[Default EXCEPT !.seeded = b] : b \in BOOLEAN}
      [] m = "continuous" -> {[Default EXCEPT !.m = 7]}
      [] m \in ByKeys -> {[Default EXCEPT !.key = Parity]}
      [] m = "nthChild" -> {[Default EXCEPT !.n = n, !.seeded = b, !.full = f, !.p = p] :
                               n \in 0 .. 2, b, f \in BOOLEAN, p \in Preds \cup {Default.p}}
      [] m \in AxisMethods -> {[Default EXCEPT !.p = p, !.full = f] : p \in Preds, f \in BOOLEAN}
      [] OTHER -> {Default}

-----------------------------------------------------------------------------
(* The chains.                                                             *)

Short(n) == SeqOf(Elements, n)
Call(api, m, a, t) == [api |-> api, method |-> m, args |-> a, right |-> t]

Singles(api, methods, lefts, rights) ==
    UNION { {[chain |-> <<Call(api, m, a, t)>>, input |-> s] :
                a \in ArgsOf(Documented(m)), t \in rights, s \in lefts} : m \in methods }

FewSources == {"filter", "flatMap", "take", "dropRight", "distinct", "materialize", "orderBy"}
FewTwo == {"concat", "zip"}
FewEnds == FewSources \cup FewTwo \cup {"first", "toArray", "groupBy"}
FewArgs(m) == CASE m \in {"take", "dropRight"} -> {[Default EXCEPT !.n = 1]}
                [] m = "filter" -> {[Default EXCEPT !.p = [x \in Values, i \in Offsets |-> x # 0]]}
                [] OTHER -> {Default}
Few(api, m) == {Call(api, m, a, t) : a \in FewArgs(m), t \in IF m \in FewTwo THEN {<<>>, <<2>>} ELSE {<<>>}}

\* Groups and pairs are no elements: nothing is chained to them.
Chains(api, inputs) ==
    { [chain |-> <<first, second>>, input |-> s] :
        first \in UNION {Few(api, m) : m \in FewSources \cup {"concat"}},
        second \in UNION {Few(api, m) : m \in FewEnds}, s \in inputs }

\* Of the provider's nodes, and with values that are none.
NodeInputs == {<<>>} \cup {<<x>> : x \in 1 .. 6} \cup {<<2, 3>>, <<5, 1, 2>>, <<1, 4, 6>>, <<2, 2>>, <<6, 4, 5, 3>>}
TreeInputs == NodeInputs \cup {<<0>>, <<7>>, <<4, 0, 1>>}

MCCalls ==
    Singles("fn", OneSource \cup OneScalar \cup Spans, Short(3), {<<>>})
    \cup Singles("fn", TwoSources \cup TwoScalar, Short(2), Short(2))
    \cup Singles("fn", NoSource, {<<>>}, {<<>>})
    \cup Singles("interval", {"interval"}, {<<>>}, {<<>>})
    \cup Singles("fn", AxisMethods \ Mosts, TreeInputs, {<<>>})
    \cup Singles("fn", Mosts, NodeInputs, {<<>>})
    \cup Singles("asyncFn", OneSource \cup OneScalar \cup Spans, Short(1) \cup {<<1, 2>>, <<0, 1>>}, {<<>>})
    \cup Singles("asyncFn", TwoSources \cup TwoScalar, Short(1) \cup {<<1, 2>>}, Short(1))
    \cup Singles("asyncFn", NoSource \ {"range"}, {<<>>}, {<<>>})
    \cup Singles("asyncFn", AxisMethods \ Mosts, {<<4, 0, 1>>}, {<<>>})
    \cup Singles("asyncFn", Mosts, {<<1, 4>>}, {<<>>})
    \cup Singles("query", DOMAIN Query!Methods \ (TwoSources \cup TwoScalar), {<<2, 3>>}, {<<>>})
    \cup Singles("query", TwoSources \cup TwoScalar, {<<1, 2>>}, {<<2>>})
    \cup Singles("asyncQuery", DOMAIN AsyncQuery!Methods \ (TwoSources \cup TwoScalar), {<<2, 3>>}, {<<>>})
    \cup Singles("asyncQuery", TwoSources \cup TwoScalar, {<<1>>}, {<<2>>})
    \cup Chains("fn", Short(2) \cup {<<0, 1, 2>>})
    \cup Chains("asyncFn", {<<0, 1>>})

-----------------------------------------------------------------------------
MCReturnsValue(c) == Documented(c.method) \in OneScalar \cup TwoScalar
MCCallsBack(c) == Documented(c.method) \in
    (ByPredicate \ Spans) \cup {"map", "flatMap", "tap", "forEach", "distinctBy", "exceptBy", "unionBy",
                     "intersectBy", "toMap", "toLookup"}
MCLeavesOpen(c, l) == \/ c.method = "consume" /\ c.args.seeded
                      \/ Documented(c.method) \in Spans /\ l.i = 0
MCOpensBoth(c) == IsAsync(c) /\ c.method \in {"zip", "correspondsBy", "corresponds", "startsWith"}
MCEager(c) == ~IsAsync(c) /\ c.method = "materialize"
MCRequests(c) == IF IsAsync(c.chain[1]) THEN 2 ELSE 1

I == INSTANCE Iteration WITH Calls <- MCCalls, Command <- MCCommand, ReturnsValue <- MCReturnsValue,
        CallsBack <- MCCallsBack, LeavesOpen <- MCLeavesOpen, OpensBoth <- MCOpensBoth,
        Eager <- MCEager, MaxRequests <- MCRequests, MaxOut <- 7

\* Queries are looked at in behaviours with no iteration.
Nothing == [chain |-> <<>>, input |-> <<>>]
Iterating == outcome \notin {"query", "asyncQuery"}

Init == /\ Query!Init
        /\ \/ I!Init
           \/ /\ call = Nothing /\ stage = <<>> /\ requests = <<>> /\ got = <<>>
              /\ outcome \in {"query", "asyncQuery"}

Next == \/ Iterating /\ I!Next /\ UNCHANGED <<source, class, promised, provider, trees>>
        \/ outcome = "query" /\ Query!Next /\ UNCHANGED <<call, stage, requests, got, outcome>>
        \/ outcome = "asyncQuery" /\ AsyncQuery!Next
              /\ UNCHANGED <<call, stage, requests, got, outcome, provider, trees>>

Spec == Init /\ [][Next]_<<call, stage, requests, got, outcome, source, class, promised, provider, trees>>

-----------------------------------------------------------------------------
(* What the axes promise, by the order of the nodes in the document.       *)

Below(x) == {y \in 1 .. 6 : Contains(Sync!ancestors(y, FALSE), x)}
Above(x) == {y \in 1 .. 6 : x \in Below(y)}
BesideOf(x) == {y \in 1 .. 6 : MCParent[y] = MCParent[x]} \ {x}
Place(x) == SelectInSeq(DocumentOrder, LAMBDA y : y = x)
Before(x) == {y \in 1 .. 6 : Place(y) < Place(x)}
Behind(x) == {y \in 1 .. 6 : Place(y) > Place(x)}
InOrder(nodes) == SelectSeq(DocumentOrder, LAMBDA y : y \in nodes)
AgainstOrder(nodes) == Reverse(InOrder(nodes))
ChildrenOf(x) == InOrder({y \in 1 .. 6 : MCParent[y] = x})
Nth(s, n) == IF n \in DOMAIN s THEN <<s[n]>> ELSE <<>>

\* following() is not documented to have an order: the children are before their parents.
AxisMeaning(m, a, x) ==
    CASE m = "self" -> <<x>>
      [] m = "parents" -> InOrder({MCParent[x]})
      [] m = "children" -> ChildrenOf(x)
      [] m = "firstChild" -> Nth(ChildrenOf(x), 1)
      [] m = "lastChild" -> Nth(ChildrenOf(x), Len(ChildrenOf(x)))
      [] m = "nthChild" -> Nth(ChildrenOf(x), IF a.seeded THEN Len(ChildrenOf(x)) - a.n + 1 ELSE a.n + 1)
      [] m = "root" -> <<1>>
      [] m = "ancestors" -> AgainstOrder(Above(x))
      [] m = "ancestorsAndSelf" -> AgainstOrder(Above(x) \cup {x})
      [] m = "descendants" -> InOrder(Below(x))
      [] m = "descendantsAndSelf" -> InOrder(Below(x) \cup {x})
      [] m = "siblings" -> InOrder(BesideOf(x))
      [] m = "siblingsAndSelf" -> InOrder(BesideOf(x) \cup {x})
      [] m = "precedingSiblings" -> AgainstOrder(BesideOf(x) \cap Before(x))
      [] m = "followingSiblings" -> InOrder(BesideOf(x) \cap Behind(x))
      [] m = "preceding" -> AgainstOrder(Before(x) \ Above(x))
      [] m = "following" -> SelectSeq(PostOrder, LAMBDA y : y \in Behind(x) \ Below(x))

HierarchyMeaning(m, a, s) ==
    LET AxisOf(x) == IF x \in 1 .. 6 THEN AxisMeaning(m, a, x) ELSE <<>>
        Kept(x) == CASE m = "topMost" -> Above(x) \cap Range(s) = {}
                     [] m = "bottomMost" -> Below(x) \cap Range(s) = {}
                     [] OTHER -> TRUE
    IN SelectSeq(IF m \in Mosts THEN s ELSE FlattenSeq([n \in DOMAIN s |-> AxisOf(s[n])]),
                 LAMBDA x : a.p[x, 0] /\ Kept(x))

-----------------------------------------------------------------------------
Promised(c, s) == LET m == Documented(c.method)
                  IN IF m = "interval" THEN Sync!Offsets(c.args)
                     ELSE IF m \in AxisMethods THEN HierarchyMeaning(m, c.args, s)
                     ELSE Meaning(m, c.args, s, c.right)
Through(input, calls) == FoldLeft(LAMBDA s, c : Promised(c, s), input, calls)
MeaningOf(input) == Through(input, call.chain)

\* Calls of which the code and its documentation are known to differ: exclude() also leaves out
\* what it has given already, every() of nothing is false, siblingsAndSelf() of a root without a
\* full provider does not have the node itself, nthChild() of iter-fn forgets its predicate,
\* and filterNot() of async-iter-fn is filter().
Deviates(c, s) ==
    LET m == Documented(c.method)
    IN CASE m = "exclude" -> \E i, j \in DOMAIN s : i # j /\ s[i] = s[j] /\ s[i] # c.args.v
         [] m = "every" -> s = <<>>
         [] m = "siblingsAndSelf" -> 1 \in Range(s) /\ c.args.p[1, 0] /\ ~c.args.full
         [] m = "nthChild" ->
               ~IsAsync(c) /\ HierarchyMeaning(m, c.args, s) #
                                  HierarchyMeaning(m, [c.args EXCEPT !.p = Default.p], s)
         [] OTHER -> IsAsync(c) /\ m \in {"filterNotBy", "filterNot", "filterNotDefinedBy"}
AsDocumented == \A k \in DOMAIN call.chain :
    ~Deviates(call.chain[k], Through(call.input, SubSeq(call.chain, 1, k - 1)))

\* What the consumer has got is what the methods are documented to give, as far as it has
\* asked, whoever of them reads ahead, and all of it when the iteration is done: but for the
\* calls that are known to deviate.
Means == Iterating /\ AsDocumented =>
    /\ IsPrefix(got, MeaningOf(call.input))
    /\ outcome = "done" => got = MeaningOf(call.input)

\* However an iteration ends (at its end, left early, by an error of a source or of a
\* callback, in any of the calls), no source that was opened is left open: except by span,
\* spanUntil and a consume() that is told so.
SourcesClosed == Iterating /\ outcome # "open" =>
    \A k \in DOMAIN stage :
        /\ stage[k].state \in {"new", "done", "threw"}
        /\ \A s \in 1 .. 2 : stage[k].source[s] = "open" =>
               s = 1 /\ Documented(call.chain[k].method) \in {"consume", "span", "spanUntil"}

\* What is read of an input to which `tail` comes instead of its elements from n on.
Otherwise(n, tail) == MeaningOf(SubSeq(call.input, 1, n - 1) \o tail)

\* These read the next element of the left to find that the right has no more of them, or
\* that there is no more room.
ReadsAhead == {"copyTo", "startsWith", "zip"}

\* A lazy method reads no element of its source before it needs it: the element that was
\* read last when a value is yielded, or when the iteration of one method ends before its source,
\* decided some of what the consumer has got.
NothingReadInVain ==
    /\ Iterating /\ AsDocumented
    /\ \A k \in DOMAIN stage : /\ call.chain[k].right = <<>>
                               /\ Documented(call.chain[k].method) \notin ReadsAhead
    /\ stage[1].read[1] > 0
    => LET first == stage[1]
           n == first.read[1]
       IN /\ stage[Len(stage)].state = "yielded" /\ first.source[1] = "open" =>
                \E tail \in Short(1) : ~IsPrefix(got, Otherwise(n, tail))
          /\ outcome = "done" /\ first.source[1] = "closed" /\ Len(stage) = 1 =>
                \E tail \in Short(1) : got # Otherwise(n, tail)

\* A query has the class that its type promises, and a source that does what it needs.
KindsDeclared == IF outcome = "asyncQuery" THEN AsyncQuery!KindsDeclared ELSE Query!KindsDeclared

\* The nodes of merged hierarchies stay with their providers.
NodesKeepTheirTree == Query!NodesKeepTheirTree

-----------------------------------------------------------------------------
\* Iterations of intervals, those that go up too.
IntervalSpec == /\ I!Init /\ call.chain[1].method = "interval" /\ Query!Init
                /\ [][Iterating /\ I!Next /\ UNCHANGED <<source, class, promised, provider, trees>>]_<<call, stage, requests, got, outcome, source, class, promised, provider, trees>>

\* "Yields each offset within the interval" (interval/src/index.ts:201), and no other.
OffsetsWithin == /\ Range(got) \subseteq Range(Sync!Offsets(call.chain[1].args))
                 /\ outcome = "done" => got = Sync!Offsets(call.chain[1].args)
=============================================================================
