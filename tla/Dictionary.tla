----------------------------- MODULE Dictionary -----------------------------
(* What HashMap and SortedMap promise: a map from keys to values.          *)
EXTENDS Functions

CONSTANTS Keys, Values

VARIABLE map

Init == map = [key \in {} |-> {}]

Set(key, value) == map' = [k \in DOMAIN map \cup {key} |-> IF k = key THEN value ELSE map[k]]
Delete(key) == map' = Restrict(map, DOMAIN map \ {key})
Clear == map' = Restrict(map, {})

Next == \/ \E key \in Keys : Delete(key) \/ \E value \in Values : Set(key, value)
        \/ Clear

Spec == Init /\ [][Next]_map
=============================================================================
