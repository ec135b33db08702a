----------------------------- MODULE IterQuery ------------------------------
(***************************************************************************)
(* The methods of Query and of its subclasses in @esfx/iter-query          *)
(* (index.ts). A method passes the source of the query, and that of a      *)
(* right that is a query, to a function of @esfx/iter-fn, and makes a      *)
(* query of what it gets. Here are the functions they call, and then what  *)
(* a Query is, from call to call: its source may be ordered (has thenBy)   *)
(* or hierarchical (has a provider); Query.from picks a class by what the  *)
(* iterable has that a function made, and the type of each method promises *)
(* a class.  The two are written down in two packages.  The provider of a  *)
(* query comes from those of its sources.                                  *)
(***************************************************************************)
EXTENDS SequencesExt, TLC

CONSTANTS Providers,     \* the client's
          Nodes,
          Claims,        \* of some of the providers, the nodes that owns() accepts
          HasMembers     \* of each, those of root(), firstChild(), ... that it has

\* Methods with the name of the function; the others are aliases.
Same(names) == [name \in names |-> name]

\* of() and from() take an iterable that is there.
statics == Same({"empty", "once", "repeat", "range", "continuous", "generate", "consume"})
filters == Same({"filter", "filterBy", "filterDefined", "filterDefinedBy"})
wheres == [where |-> "filter", whereBy |-> "filterBy", whereDefined |-> "filterDefined",
    whereDefinedBy |-> "filterDefinedBy"]
filterNots == Same({"filterNot", "filterNotBy", "filterNotDefinedBy"})
whereNots == [whereNot |-> "filterNot", whereNotBy |-> "filterNotBy",
    whereNotDefinedBy |-> "filterNotDefinedBy"]
maps == Same({"map"}) @@ [select |-> "map"]
flatMaps == Same({"flatMap"}) @@ [selectMany |-> "flatMap"]
passes == Same({"tap", "reverse", "exclude"})
drops == Same({"drop", "dropRight", "dropWhile", "dropUntil"})
skips == [skip |-> "drop", skipRight |-> "dropRight", skipWhile |-> "dropWhile",
    skipUntil |-> "dropUntil"]
takes == Same({"take", "takeRight", "takeWhile", "takeUntil"})
intersects == Same({"intersect", "intersectBy"})
unions == Same({"union", "unionBy"})
excepts == Same({"except", "exceptBy"})
complements == [relativeComplement |-> "except", relativeComplementBy |-> "exceptBy"]
symmetricDifferences == Same({"symmetricDifference", "symmetricDifferenceBy"})
concats == Same({"concat"})
distincts == Same({"distinct", "distinctBy"})
additions == Same({"append", "prepend", "patch", "defaultIfEmpty"})
pages == Same({"pageBy"})
spans == Same({"spanMap"})
groups == Same({"groupBy"})
scans == Same({"scan", "scanRight"})
materializations == Same({"materialize"})
joins == Same({"groupJoin", "join", "fullJoin", "zip"})
orders == Same({"orderBy", "orderByDescending"})
reductions == Same({"reduce", "reduceRight"})
choices == Same({"count", "first", "last", "single"})
extremes == Same({"min", "minBy", "max", "maxBy"})
sums == Same({"sum", "average"})
tests == Same({"some", "every"})
comparisons == Same({"corresponds", "correspondsBy"})
inclusions == Same({"includes", "includesSequence", "startsWith", "endsWith"})
places == Same({"elementAt"}) @@ [nth |-> "elementAt"]
partitions == Same({"span", "spanUntil"}) @@ [break |-> "spanUntil"]
visits == Same({"forEach", "unzip"})
arrays == Same({"toArray"})
sets == Same({"toSet", "toHashSet"})
dictionaries == Same({"toMap", "toHashMap", "toLookup"})
objects == Same({"toObject"})
copies == Same({"copyTo", "into"})

-----------------------------------------------------------------------------
(* OrderedQuery and HierarchyQuery.                                        *)

\* OrderedHierarchyQuery has the same two.
thenBys == Same({"thenBy", "thenByDescending"})
roots == Same({"root", "ancestors", "ancestorsAndSelf", "descendants",
    "descendantsAndSelf"})
relatives == Same({"parents", "self", "siblings", "siblingsAndSelf", "children"})
besides == Same({"precedingSiblings", "followingSiblings"}) @@
    [siblingsBeforeSelf |-> "precedingSiblings",
    siblingsAfterSelf |-> "followingSiblings"]
documentOrders == Same({"preceding", "following"})
childAxes == Same({"firstChild", "lastChild", "nthChild"})
mosts == Same({"topMost", "bottomMost"})

Axes == roots @@ relatives @@ besides @@ documentOrders @@ childAxes @@ mosts
Methods == statics @@ filters @@ wheres @@ filterNots @@ whereNots @@ maps @@ flatMaps @@
    passes @@ drops @@ skips @@ takes @@ intersects @@ unions @@ excepts @@ complements @@
    symmetricDifferences @@ concats @@ distincts @@ additions @@ pages @@ spans @@ groups
    @@ scans @@ materializations @@ joins @@ orders @@ reductions @@ choices @@ extremes
    @@ sums @@ tests @@ comparisons @@ inclusions @@ places @@ partitions @@ visits @@
    arrays @@ sets @@ dictionaries @@ objects @@ copies @@ thenBys @@ Axes

-----------------------------------------------------------------------------
(* Promised classes.                                                       *)

\* A query that is hierarchical when this one is.
UnorderedQueryFlow == UNION {DOMAIN filters, DOMAIN wheres, DOMAIN filterNots,
    DOMAIN whereNots, DOMAIN passes, DOMAIN drops, DOMAIN skips, DOMAIN takes,
    DOMAIN excepts, DOMAIN complements, DOMAIN distincts, DOMAIN additions,
    DOMAIN materializations}
\* A query that is hierarchical when this one or the right is.
MergeQueryFlow == UNION {DOMAIN intersects, DOMAIN unions, DOMAIN symmetricDifferences,
    DOMAIN concats}
\* An ordered query, hierarchical when this one is.
OrderedQueryFlow == UNION {DOMAIN orders, DOMAIN thenBys}
\* A plain query.
PlainQuery == UNION {DOMAIN maps, DOMAIN flatMaps, DOMAIN pages, DOMAIN spans,
    DOMAIN groups, DOMAIN scans, DOMAIN joins}

-----------------------------------------------------------------------------
(* HierarchyProvider.combine of @esfx/iter-hierarchy (provider.ts): the    *)
(* providers of two hierarchies made into one.  A provider is the sequence *)
(* of the client's providers that it is composed of, each once; a client's *)
(* provider is a sequence of one, and no provider the empty one.           *)

NoOwner == "no provider"

\* A provider without owns() takes what no other claims.
Claimants(provider, node) == SelectSeq(provider, LAMBDA p : p \in DOMAIN Claims /\ node \in Claims[p])
Takers(provider) == SelectSeq(provider, LAMBDA p : p \notin DOMAIN Claims)

findOwner(provider, node) ==
    CASE Claimants(provider, node) # <<>> -> Head(Claimants(provider, node))
      [] Claimants(provider, node) = <<>> /\ Takers(provider) # <<>> -> Head(Takers(provider))
      [] OTHER -> NoOwner

\* Mutant of combine: what is new comes first.
combineNewFirst(left, right) == SelectSeq(right, LAMBDA p : ~Contains(left, p)) \o left

\* A right that has all that the left has is kept as it is, in its own order.
combine(left, right) ==
    LET both == left \o SelectSeq(right, LAMBDA p : ~Contains(left, p))
    IN IF right # <<>> /\ Len(both) > Len(left) /\ Len(both) = Len(right) THEN right ELSE both

\* The optional members that the combination has.
Members(provider) == {m \in UNION Range(HasMembers) : \A p \in Range(provider) : m \in HasMembers[p]}

-----------------------------------------------------------------------------
(* What queries become.                                                    *)

Kinds == {"ordered", "hierarchy"}

VARIABLES source,     \* what the source of the query has, of Kinds
          class,      \* what the class of the query says that it has
          promised,   \* what the type of the call that made it says
          provider,   \* that of the source, <<>> when it has none
          trees       \* the client's providers that the query was made with

vars == <<source, class, promised, provider, trees>>

Hierarchy(kinds) == kinds \cap {"hierarchy"}
KindOf(tree) == IF tree = <<>> THEN {} ELSE {"hierarchy"}

\* new Query(source), where the class is the one that the symbols of the source ask for
Become(kinds, tree, type) ==
    /\ source' = kinds \cup KindOf(tree)
    /\ class' = kinds \cup KindOf(tree)
    /\ promised' = type
    /\ provider' = tree

\* HierarchyIterable.create(): an ordered iterable stays ordered, and its provider, if it
\* had one, gives way to the new one.
create(kinds) == kinds \cup {"hierarchy"}

Trees == {<<>>} \cup {<<p>> : p \in Providers}

\* from(source) or from(source, provider), of an iterable of a client.
from(kinds, tree) ==
    /\ LET made == IF tree = <<>> THEN kinds ELSE create(kinds)
       IN Become(made, tree, made)
    /\ trees' = Range(tree)

Init == source = {} /\ class = {} /\ promised = {} /\ provider = <<>> /\ trees = {}

-----------------------------------------------------------------------------
(* What the functions make: flowHierarchy(to, left, right) gives `to` the  *)
(* providers of the left and of the right.                                 *)

FlowLeft == {"append", "prepend", "filterBy", "filter", "filterDefined", "filterDefinedBy",
             "filterNotBy", "filterNot", "filterNotDefinedBy", "drop", "dropRight", "dropWhile",
             "dropUntil", "take", "takeRight", "takeWhile", "takeUntil", "exceptBy", "except",
             "exclude", "distinctBy", "distinct", "defaultIfEmpty", "patch", "tap", "materialize",
             "reverse"}

FlowBoth == {"concat", "intersectBy", "intersect", "unionBy", "union", "symmetricDifferenceBy",
             "symmetricDifference"}

\* Mutant of FlowsFrom: only the left is looked at.
FlowsFromLeft(fn, right) == IF fn \in FlowLeft \cup FlowBoth THEN provider ELSE <<>>

FlowsFrom(fn, right) ==
    CASE fn \in FlowLeft -> provider
      [] fn \in FlowBoth -> combine(provider, right)
      [] OTHER -> <<>>

\* The query is made of what the function makes of the source, and of the right.
Call(m, kinds, right, type) ==
    LET tree == FlowsFrom(Methods[m], right)
    IN /\ Become(kinds, tree, type)
       /\ trees' = IF tree = <<>> THEN {} ELSE trees \cup Range(right)

-----------------------------------------------------------------------------
Unordered(m) ==
    /\ m \in UnorderedQueryFlow
    /\ Call(m, {}, <<>>, Hierarchy(class))

\* The right is an iterable of a client or a query.
Merge(m, right) ==
    /\ m \in MergeQueryFlow
    /\ Call(m, {}, right, Hierarchy(class) \cup KindOf(right))

Plain(m) ==
    /\ m \in PlainQuery
    /\ Call(m, {}, <<>>, {})

\* orderBy() of any query, thenBy() of one that has it.
Order(m) ==
    /\ m \in DOMAIN orders \/ (m \in DOMAIN thenBys /\ "ordered" \in class)
    /\ Become({"ordered"}, provider, {"ordered"} \cup Hierarchy(class))
    /\ UNCHANGED trees

Axis(m) ==
    /\ m \in DOMAIN Axes /\ "hierarchy" \in class
    /\ Become({}, provider, {"hierarchy"})
    /\ UNCHANGED trees

toHierarchy(tree) ==
    /\ Become(create(source), tree, class \cup {"hierarchy"})
    /\ trees' = Range(tree)

\* What a callback makes of the query is typed by itself.
through(kinds, tree) == from(kinds, tree)

\* Queries that a client can have for a right, of one provider or of two.
Rights == Trees \cup {combine(<<p>>, <<q>>) : p, q \in Providers}

Next == \/ \E kinds \in SUBSET {"ordered"}, tree \in Trees : from(kinds, tree)
        \/ \E m \in DOMAIN Methods :
              \/ Unordered(m) \/ Plain(m) \/ Order(m) \/ Axis(m)
              \/ \E right \in Rights : Merge(m, right)
        \/ \E tree \in Trees \ {<<>>} : toHierarchy(tree)
        \/ \E kinds \in SUBSET {"ordered"}, tree \in Trees : through(kinds, tree)

Spec == Init /\ [][Next]_vars

\* A query has the class that its type promises, and a source that does what its class
\* needs: no method that the types let a program call is missing or throws.
KindsDeclared == promised = class /\ class \subseteq source

\* In the merged hierarchy the left comes first: a node stays where the left has it, unless it is
\* only there as what no provider of the left claims, and one of the right does.
LeftComesFirst(left, right, node) ==
    LET stays == \/ Claimants(left, node) # <<>>
                 \/ Claimants(right, node) = <<>> /\ findOwner(left, node) # NoOwner
    IN findOwner(combine(left, right), node) = findOwner(IF stays THEN left ELSE right, node)

\* A right with all the providers of the left, and more, in another order: it is returned.
Reorders(left, right) == /\ Range(left) \subseteq Range(right) /\ Len(left) < Len(right)
                         /\ ~IsPrefix(left, right)

\* However queries of several providers are merged, a node that one of them claims is that
\* one's, a node that none claims is one's that claims nothing, if there is one, and the
\* optional members are there exactly when each of the providers has them.  Of several that claim
\* a node, the left's goes on to own it, whatever the query is merged with next: but for a
\* right that has the same providers in another order.
NodesKeepTheirTree ==
    /\ \A node \in Nodes :
          LET claim == {p \in trees \cap DOMAIN Claims : node \in Claims[p]}
              owner == findOwner(provider, node)
          IN CASE claim # {} -> owner \in claim
               [] claim = {} /\ trees \subseteq DOMAIN Claims -> owner = NoOwner
               [] OTHER -> owner \in trees \ DOMAIN Claims
    /\ \A m \in UNION Range(HasMembers) :
          m \in Members(provider) <=> \A p \in trees : m \in HasMembers[p]
    /\ \A right \in {r \in Rights : ~Reorders(provider, r)}, node \in Nodes :
          LeftComesFirst(provider, right, node)
=============================================================================
