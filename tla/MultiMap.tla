------------------------------ MODULE MultiMap ------------------------------
(* @esfx/collections-multimap: a HashMap from keys to HashSets of values,  *)
(* with a count of all values kept beside it.                              *)
EXTENDS FiniteSets, Functions, Integers

CONSTANTS Keys, Values

VARIABLES _map, _size

multiVars == <<_map, _size>>

Init == _map = [key \in {} |-> {}] /\ _size = 0

With(key, values) == [k \in DOMAIN _map \cup {key} |-> IF k = key THEN values ELSE _map[k]]
Without(key) == Restrict(_map, DOMAIN _map \ {key})

\* Mutant of Add: counts a value that was there already.
AddCounts(key, value) ==
    /\ _map' = With(key, (IF key \in DOMAIN _map THEN _map[key] ELSE {}) \cup {value})
    /\ _size' = _size + 1

\* add(key, value); a key without values gets a new set.
Add(key, value) ==
    LET values == IF key \in DOMAIN _map THEN _map[key] ELSE {}
    IN /\ _map' = With(key, values \cup {value})
       /\ _size' = _size + Cardinality(values \cup {value}) - Cardinality(values)

\* delete(key)
Delete(key) ==
    /\ key \in DOMAIN _map
    /\ _map' = Without(key)
    /\ _size' = _size - Cardinality(_map[key])

\* deleteValue(key, value); the key goes with its last value.
DeleteValue(key, value) ==
    /\ key \in DOMAIN _map /\ value \in _map[key]
    /\ _size' = _size - 1
    /\ _map' = IF _map[key] = {value} THEN Without(key) ELSE With(key, _map[key] \ {value})

Clear == _map' = Restrict(_map, {}) /\ _size' = 0

Next == \/ \E key \in Keys : \/ Delete(key)
                             \/ \E value \in Values : Add(key, value) \/ DeleteValue(key, value)
        \/ Clear

Spec == Init /\ [][Next]_multiVars

\* The count is that of the values of all keys, and no key is without values.
Pairs == UNION {{key} \X _map[key] : key \in DOMAIN _map}
SizeCounts == /\ _size = Cardinality(Pairs)
              /\ \A key \in DOMAIN _map : _map[key] # {}
=============================================================================
