----------------------------- MODULE LinkedList -----------------------------
(***************************************************************************)
(* @esfx/collections-linkedlist: a circular list of nodes, and the walks   *)
(* over it (iterators, and the callbacks of forEach, deleteAll, ...),      *)
(* during which clients change the list.                                   *)
(***************************************************************************)
EXTENDS SequencesExt, Integers

CONSTANTS
    Nodes,
    Value,      \* Value[n]: the value of node n
    MaxGiven    \* bound: nodes that one walk gives

VARIABLES
    _head,      \* a node, or Nothing
    _previous, _next, attached, \* of each node; attached is _list # undefined
    _size,
    walk,       \* the walk under way: [kind, node, next], `next` read before node is given
    given,      \* history: the nodes it has given
    stayed,     \* history: the nodes in the list ever since it started
    lost        \* history: the node it would give next was taken out of the list

nodes == <<_head, _previous, _next, attached, _size>>
walking == <<walk, given, stayed, lost>>
listVars == <<nodes, walking>>

Nothing == "undefined"
Over(kind) == [kind |-> kind, node |-> Nothing, next |-> Nothing]

Init == /\ _head = Nothing
        /\ _previous = [n \in Nodes |-> Nothing]
        /\ _next = [n \in Nodes |-> Nothing]
        /\ attached = {} /\ _size = 0
        /\ walk = Over("none") /\ given = <<>> /\ stayed = {} /\ lost = FALSE

first == _head
last == IF _head = Nothing THEN Nothing ELSE _previous[_head]

\* node.next and node.previous: undefined at the ends and for a node of no list.
next(n) == IF n \in attached /\ _next[n] # first THEN _next[n] ELSE Nothing
previous(n) == IF n \in attached /\ n # first THEN _previous[n] ELSE Nothing

-----------------------------------------------------------------------------
Alone(new) ==
    /\ _head' = new
    /\ _next' = [_next EXCEPT ![new] = new]
    /\ _previous' = [_previous EXCEPT ![new] = new]

Between(prev, new, next_) ==
    /\ _next' = [_next EXCEPT ![new] = next_, ![prev] = new]
    /\ _previous' = [_previous EXCEPT ![new] = prev, ![next_] = new]

\* _insertNode; without an adjacent node at an end of the list.
insertNode(adjacent, new, position) ==
    /\ new \notin attached
    /\ attached' = attached \cup {new} /\ _size' = _size + 1
    /\ \/ _head = Nothing /\ Alone(new)
       \/ /\ _head # Nothing /\ position = "before"
          /\ LET at == IF adjacent = Nothing THEN _head ELSE adjacent
             IN /\ Between(_previous[at], new, at)
                /\ _head' = IF at = _head THEN new ELSE _head
       \/ /\ _head # Nothing /\ position = "after"
          /\ LET at == IF adjacent = Nothing THEN last ELSE adjacent
             IN Between(at, new, _next[at]) /\ UNCHANGED _head

InsertBefore(n, new) == n \in attached /\ insertNode(n, new, "before") /\ UNCHANGED walking
InsertAfter(n, new) == n \in attached /\ insertNode(n, new, "after") /\ UNCHANGED walking
Push(new) == insertNode(Nothing, new, "after") /\ UNCHANGED walking
Unshift(new) == insertNode(Nothing, new, "before") /\ UNCHANGED walking

\* _deleteNode
deleteNode(n) ==
    /\ n \in attached
    /\ IF _next[n] = n
       THEN /\ _head' = Nothing
            /\ _next' = [_next EXCEPT ![n] = Nothing]
            /\ _previous' = [_previous EXCEPT ![n] = Nothing]
       ELSE /\ _head' = IF _head = n THEN _next[n] ELSE _head
            /\ _next' = [_next EXCEPT ![_previous[n]] = _next[n], ![n] = Nothing]
            /\ _previous' = [_previous EXCEPT ![_next[n]] = _previous[n], ![n] = Nothing]
    /\ attached' = attached \ {n} /\ _size' = _size - 1

\* What a walk has read and goes on from.
Awaited == IF walk.kind = "right" THEN {walk.node, walk.next} ELSE {walk.next}

Leaves(n) == /\ stayed' = stayed \ {n}
             /\ lost' = (lost \/ n \in Awaited)
             /\ UNCHANGED <<walk, given>>

\* deleteNode(n), n.detachSelf()
Delete(n) == deleteNode(n) /\ Leaves(n)
Pop == last # Nothing /\ Delete(last)
Shift == first # Nothing /\ Delete(first)

\* nodeOf(value): the first node with the value, from `first` along next.
Order == LET at[i \in Nat] == IF i = 0 THEN first ELSE _next[at[i - 1]]
         IN [i \in 1 .. _size |-> at[i - 1]]
nodeOf(value) == SelectSeq(Order, LAMBDA n : Value[n] = value)

\* delete(value)
DeleteValue(value) == nodeOf(value) # <<>> /\ Delete(Head(nodeOf(value)))

\* clear(): the last node is deleted until there is none.
Clear == /\ _size > 0
         /\ _head' = Nothing /\ attached' = {} /\ _size' = 0
         /\ _next' = [n \in Nodes |-> Nothing]
         /\ _previous' = [n \in Nodes |-> Nothing]
         /\ stayed' = {} /\ lost' = (lost \/ Awaited # {Nothing})
         /\ UNCHANGED <<walk, given>>

-----------------------------------------------------------------------------
(* Walks.  nodes(), values(), forEach, map, filter, find, reduce, some and *)
(* every go "forward"; drain() deletes each node before it is given;       *)
(* deleteAll deletes it afterwards, if it is still there; findLast and     *)
(* findLastNode go "backward", and reduceRight, which reads the node       *)
(* before only when the callback is over, goes "right".                    *)

Forward == {"forward", "drain", "deleteAll"}
Ahead(kind, n) == IF kind \in Forward THEN next(n) ELSE previous(n)

Walk(kind) ==
    /\ walk' = [Over(kind) EXCEPT !.next = IF kind \in Forward THEN first ELSE last]
    /\ given' = <<>> /\ stayed' = attached /\ lost' = FALSE
    /\ UNCHANGED nodes

\* The next node is given to the client, and the one after it read.
Give(n) == /\ Len(given) < MaxGiven
           /\ walk' = [walk EXCEPT !.node = n,
                           !.next = IF walk.kind = "right" THEN Nothing
                                    ELSE Ahead(walk.kind, n)]
           /\ given' = Append(given, n)

WalkOn ==
    /\ walk.next # Nothing /\ walk.kind \notin {"drain", "deleteAll", "right"}
    /\ Give(walk.next)
    /\ UNCHANGED <<nodes, stayed, lost>>

\* drain() throws when the node is in no list any more.
Drain ==
    /\ walk.kind = "drain" /\ walk.next # Nothing
    /\ IF walk.next \in attached
       THEN Give(walk.next) /\ deleteNode(walk.next)
       ELSE walk' = Over("threw") /\ UNCHANGED <<given, nodes>>
    /\ stayed' = stayed \ {walk.next}
    /\ UNCHANGED lost

\* The predicate of deleteAll has said TRUE of the node it was given, or FALSE.
DeleteAllOn(deletes) ==
    /\ walk.kind = "deleteAll"
    /\ IF deletes /\ walk.node \in attached
       THEN deleteNode(walk.node) /\ stayed' = stayed \ {walk.node}
       ELSE UNCHANGED <<nodes, stayed>>
    /\ walk.next # Nothing \/ walk.node # Nothing
    /\ IF walk.next = Nothing THEN walk' = Over("deleteAll") /\ UNCHANGED given
       ELSE /\ Len(given) < MaxGiven
            /\ walk' = [walk EXCEPT !.node = walk.next, !.next =
                            IF walk.next \in attached' /\ _next'[walk.next] # _head'
                            THEN _next'[walk.next] ELSE Nothing]
            /\ given' = Append(given, walk.next)
    /\ UNCHANGED lost

\* reduceRight: from the last node, then from the node whose callback is over.
ReduceRightOn ==
    LET n == IF walk.node = Nothing THEN walk.next ELSE previous(walk.node)
    IN /\ walk.kind = "right" /\ (walk.next # Nothing \/ walk.node # Nothing)
       /\ IF n = Nothing
          THEN walk' = Over("right") /\ UNCHANGED given
          ELSE Give(n)
       /\ UNCHANGED <<nodes, stayed, lost>>

-----------------------------------------------------------------------------
Edit == \/ \E new \in Nodes : \/ Push(new) \/ Unshift(new)
                              \/ \E n \in Nodes : InsertBefore(n, new) \/ InsertAfter(n, new)
        \/ \E n \in Nodes : Delete(n) \/ DeleteValue(Value[n])
        \/ Pop \/ Shift \/ Clear

Next == \/ Edit
        \/ \E kind \in {"forward", "drain", "deleteAll", "backward", "right"} : Walk(kind)
        \/ WalkOn \/ Drain \/ ReduceRightOn
        \/ \E deletes \in BOOLEAN : DeleteAllOn(deletes)

Spec == Init /\ [][Next]_listVars

-----------------------------------------------------------------------------
Where(n) == CHOOSE i \in DOMAIN Order : Order[i] = n

\* The circle holds: what is attached is reached from the head along _next, each node
\* once, and _previous leads the same way back.
TypeOK == /\ _size = Cardinality(attached)
          /\ Range(Order) = attached
          /\ \A n \in attached : _previous[_next[n]] = n /\ _next[_previous[n]] = n
          /\ _head = Nothing <=> attached = {}

\* A step: every edit does to the order what its name says, and nothing else changes it but
\* drain() and deleteAll().
EditAsAsked ==
    /\ \A new \in Nodes :
          /\ Push(new) => Order' = Append(Order, new)
          /\ Unshift(new) => Order' = <<new>> \o Order
          /\ \A n \in Nodes :
                /\ InsertBefore(n, new) => Order' = InsertAt(Order, Where(n), new)
                /\ InsertAfter(n, new) => Order' = InsertAt(Order, Where(n) + 1, new)
    /\ \A n \in Nodes : Delete(n) => Order' = RemoveAt(Order, Where(n))
    /\ _head' # _head \/ _next' # _next => Edit \/ Drain \/ walk.kind = "deleteAll"

\* A walk whose next node is not taken away from under it gives every node that stays,
\* once, whatever else is inserted or deleted meanwhile.
WalksSeeStayers ==
    ~lost /\ given # <<>> =>
        /\ \A n \in stayed : Cardinality({i \in DOMAIN given : given[i] = n}) <= 1
        /\ walk.next = Nothing /\ walk.kind \notin {"drain", "right"}
              => stayed \subseteq Range(given)
        /\ walk = Over("right") => stayed \subseteq Range(given)
        /\ walk.kind # "threw"
=============================================================================
