----------------------------- MODULE SortedMap -----------------------------
(***************************************************************************)
(* @esfx/collections-sortedmap: keys and values in two arrays, both in the *)
(* order of the keys; @esfx/collections-sortedset: one array of values in  *)
(* their order; and the binary search of @esfx/internal-binarysearch that  *)
(* both are built on.  Arrays are sequences here: index 0 is place 1.      *)
(***************************************************************************)
EXTENDS SequencesExt, Integers

CONSTANTS Keys, Values      \* keys, and the values of a set, are integers

VARIABLES _keys, _values

sortedVars == <<_keys, _values>>

Init == _keys = <<>> /\ _values = <<>>

-----------------------------------------------------------------------------
\* ~n: a place that is not there is told as the bitwise complement of where it would be.
Complement(n) == -n - 1

\* The loop over low and high; comparer.compare orders integers.
binarySearch(array, key) ==
    LET places == (0 .. Len(array)) \X (-1 .. Len(array) - 1)
        find[at \in places] ==
            LET low == at[1]
                high == at[2]
                middle == low + (high - low) \div 2
            IN IF low > high THEN Complement(low)
               ELSE IF array[middle + 1] < key THEN find[<<middle + 1, high>>]
               ELSE IF array[middle + 1] = key THEN middle
               ELSE find[<<low, middle - 1>>]
    IN IF array = <<>> THEN -1 ELSE find[<<0, Len(array) - 1>>]

\* array.splice(index, 0, value) and array.splice(index, 1)
Inserted(array, index, value) == InsertAt(array, index + 1, value)
Removed(array, index) == RemoveAt(array, index + 1)

Sorted(array) == \A i, j \in DOMAIN array : i < j => array[i] < array[j]

-----------------------------------------------------------------------------
(* SortedMap                                                               *)

Place(key) == binarySearch(_keys, key)
Has(key) == Place(key) >= 0
Get(key) == _values[Place(key) + 1]

Set(key, value) ==
    IF Has(key) THEN /\ _values' = [_values EXCEPT ![Place(key) + 1] = value]
                     /\ UNCHANGED _keys
    ELSE /\ _keys' = Inserted(_keys, Complement(Place(key)), key)
         /\ _values' = Inserted(_values, Complement(Place(key)), value)

Delete(key) == /\ Has(key)
               /\ _keys' = Removed(_keys, Place(key))
               /\ _values' = Removed(_values, Place(key))

Clear == _keys' = <<>> /\ _values' = <<>>

Next == \/ \E key \in Keys : Delete(key) \/ \E value \in Values : Set(key, value)
        \/ Clear

Spec == Init /\ [][Next]_sortedVars

\* It is a map whose keys come sorted: a search finds each of them, and no other.
Map == INSTANCE Dictionary WITH map <- [key \in {k \in Keys : Has(k)} |-> Get(key)]
ImplementsMap == Map!Spec
KeysSorted == Sorted(_keys) /\ Range(_keys) = {k \in Keys : Has(k)}

-----------------------------------------------------------------------------
(* SortedSet, which has no array of keys.                                  *)

PlaceOf(value) == binarySearch(_values, value)
HasValue(value) == PlaceOf(value) >= 0

\* A value that compares equal takes the place of the old one.
Add(value) == _values' = IF HasValue(value) THEN [_values EXCEPT ![PlaceOf(value) + 1] = value]
                         ELSE Inserted(_values, Complement(PlaceOf(value)), value)

DeleteValue(value) == HasValue(value) /\ _values' = Removed(_values, PlaceOf(value))

ClearValues == _values' = <<>>

SetNext == /\ (\E value \in Values : Add(value) \/ DeleteValue(value)) \/ ClearValues
           /\ UNCHANGED _keys

\* A search finds each of the values, and no other.
ValuesSorted == Sorted(_values) /\ Range(_values) = {v \in Values : HasValue(v)}
=============================================================================
