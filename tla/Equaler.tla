------------------------------- MODULE Equaler -------------------------------
(***************************************************************************)
(* The equalers and comparers of @esfx/equatable, by which hash tables and *)
(* sorted collections know their keys.  A value is a number, or an object  *)
(* with an identity (id): one that is Equatable and Comparable by a key,   *)
(* one that is structurally so by its items, or an array of items.         *)
(***************************************************************************)
EXTENDS Integers, SequencesExt, FiniteSetsExt

CONSTANTS Bits,          \* bound: the width of hashes, 32 in the code
          Sample         \* the values that are compared, and the items of each

Value(kind, id, items) == [kind |-> kind, id |-> id, items |-> items]
Number(n) == Value("number", n, <<>>)
Undefined == Value("undefined", 0, <<>>)

IsArray(x) == x.kind = "array"
IsEquatable(x) == x.kind = "equatable"
IsStructural(x) == x.kind = "structural"

-----------------------------------------------------------------------------
(* The methods of the client's classes: the key is items[1], a number.     *)

equalsOf(x, y) == IsEquatable(y) /\ x.items = y.items
hashOf(x) == x.items[1].id
compareToOf(x, y) == IF IsEquatable(y) THEN x.items[1].id - y.items[1].id ELSE 1

-----------------------------------------------------------------------------
(* Hashes.                                                                 *)

rawHash(x) == IF x.kind = "undefined" THEN 0 ELSE x.id % (2 ^ Bits)

\* x ^ y: the bits that differ.
Xor(x, y) == MapThenSumSet(LAMBDA b : IF (x \div 2 ^ b + y \div 2 ^ b) % 2 = 1 THEN 2 ^ b ELSE 0,
                           0 .. Bits - 1)

\* ((x << rotate) | (x >>> (32 - rotate))) ^ y
combineHashes(x, y, rotate) ==
    LET by == rotate % Bits
        turned == ((x * 2 ^ by) % (2 ^ Bits)) + (x \div 2 ^ (Bits - by))
    IN Xor(turned, y)

Combined(hash(_), items) == FoldLeft(LAMBDA hc, item : combineHashes(hc, hash(item), 7), 0, items)

-----------------------------------------------------------------------------
(* Equalers.                                                               *)

Alike(equals(_, _), x, y) == Len(x) = Len(y) /\ \A n \in DOMAIN x : equals(x[n], y[n])

defaultEquals(x, y) ==
    CASE IsEquatable(x) -> equalsOf(x, y)
      [] ~IsEquatable(x) /\ IsEquatable(y) -> equalsOf(y, x)
      [] OTHER -> x = y
defaultHash(x) == IF IsEquatable(x) THEN hashOf(x) ELSE rawHash(x)

\* A structural value calls the equaler for its items.
structuralEquals(x, y) ==
    LET equal[v \in Sample, w \in Sample] ==
            CASE IsStructural(v) ->
                    IsStructural(w) /\ Alike(LAMBDA i, j : equal[i, j], v.items, w.items)
              [] ~IsStructural(v) /\ IsStructural(w) -> FALSE
              [] OTHER -> defaultEquals(v, w)
    IN equal[x, y]
structuralHash(x) ==
    LET hash[v \in Sample] ==
            IF IsStructural(v) THEN Combined(LAMBDA i : hash[i], v.items) ELSE defaultHash(v)
    IN hash[x]

\* Of arrays, undefined among them.
tupleEquals(x, y, structural) ==
    \/ x = y
    \/ /\ IsArray(x) /\ IsArray(y)
       /\ IF structural THEN Alike(structuralEquals, x.items, y.items)
          ELSE Alike(defaultEquals, x.items, y.items)
tupleHash(x, structural) ==
    IF ~IsArray(x) THEN 0
    ELSE IF structural THEN Combined(structuralHash, x.items) ELSE Combined(defaultHash, x.items)

\* The name that the package exports for the structural one is the other's.
tupleStructuralEquals(x, y) == tupleEquals(x, y, TRUE)
tupleStructuralHash(x) == tupleHash(x, TRUE)

-----------------------------------------------------------------------------
(* Comparers.                                                              *)

\* What is no number is neither less nor greater than another.
Less(x, y) == x.kind = "number" /\ y.kind = "number" /\ x.id < y.id

\* Mutant of defaultCompare: the other value's answer is taken as it is.
defaultCompareSame(x, y) ==
    CASE IsEquatable(x) -> compareToOf(x, y)
      [] ~IsEquatable(x) /\ IsEquatable(y) -> compareToOf(y, x)
      [] Less(x, y) -> -1
      [] Less(y, x) -> 1
      [] OTHER -> 0

defaultCompare(x, y) ==
    CASE IsEquatable(x) -> compareToOf(x, y)
      [] ~IsEquatable(x) /\ IsEquatable(y) -> -compareToOf(y, x)
      [] Less(x, y) -> -1
      [] Less(y, x) -> 1
      [] OTHER -> 0

\* The first of the comparisons that tells them apart.
Decided(compare(_, _), x, y) ==
    LET apart == {n \in DOMAIN x : compare(x[n], y[n]) # 0}
    IN IF apart = {} THEN 0 ELSE compare(x[Min(apart)], y[Min(apart)])

ItemsCompare(compare(_, _), x, y) ==
    CASE Len(x.items) < Len(y.items) -> -1
      [] Len(x.items) > Len(y.items) -> 1
      [] OTHER -> Decided(compare, x.items, y.items)

\* A structural value is compared as a tuple of its items, by its class.
structuralCompare(x, y) ==
    LET order[v \in Sample, w \in Sample] ==
            CASE IsStructural(v) ->
                    IF IsStructural(w) THEN ItemsCompare(LAMBDA i, j : order[i, j], v, w) ELSE 1
              [] ~IsStructural(v) /\ IsStructural(w) -> -1
              [] OTHER -> defaultCompare(v, w)
    IN order[x, y]

tupleCompare(x, y, structural) ==
    IF structural THEN ItemsCompare(structuralCompare, x, y)
    ELSE ItemsCompare(defaultCompare, x, y)

-----------------------------------------------------------------------------
(* What they promise, by the contents of the values.                       *)

\* What is left of a value when identities that do not count are taken away.
Content(x, structural) ==
    LET content[v \in Sample] ==
            CASE IsEquatable(v) -> Value("equatable", 0, v.items)
              [] structural /\ IsStructural(v) ->
                    Value("structural", 0, [n \in DOMAIN v.items |-> content[v.items[n]]])
              [] OTHER -> v
    IN content[x]
TupleContent(x, structural) == [n \in DOMAIN x.items |-> Content(x.items[n], structural)]

Agrees(equal, x, y, hashes) == equal <=> x = y /\ (equal => hashes[1] = hashes[2])

\* Sound(compare) of two values, and of any third: what is less is greater the other way,
\* what is neither is equal, and less than less is less.
Orders(compare(_, _), equal, x, y, S) ==
    /\ compare(x, y) < 0 <=> compare(y, x) > 0
    /\ compare(x, y) = 0 <=> equal
    /\ \A z \in S : compare(x, y) < 0 /\ compare(y, z) < 0 => compare(x, z) < 0

Ordinals == {x \in Sample : x.kind \in {"number", "equatable"}}
Structures == Ordinals \cup {x \in Sample : IsStructural(x)}
Arrays == {x \in Sample : IsArray(x)}
Tuples == {x \in Arrays : \A n \in DOMAIN x.items : x.items[n] \in Ordinals}

\* Each equaler finds equal just what has equal contents, and gives it one hash, as a hash
\* table needs; each comparer orders what it can compare, as a sorted collection needs.
EqualersAgree(x, y) ==
    /\ Agrees(defaultEquals(x, y), Content(x, FALSE), Content(y, FALSE), <<defaultHash(x), defaultHash(y)>>)
    /\ Agrees(structuralEquals(x, y), Content(x, TRUE), Content(y, TRUE), <<structuralHash(x), structuralHash(y)>>)
    /\ x \in Arrays /\ y \in Arrays =>
          /\ Agrees(tupleEquals(x, y, FALSE), TupleContent(x, FALSE), TupleContent(y, FALSE),
                    <<tupleHash(x, FALSE), tupleHash(y, FALSE)>>)
          /\ Agrees(tupleStructuralEquals(x, y), TupleContent(x, TRUE), TupleContent(y, TRUE),
                    <<tupleStructuralHash(x), tupleStructuralHash(y)>>)
          /\ Orders(LAMBDA v, w : tupleCompare(v, w, TRUE), tupleStructuralEquals(x, y), x, y, Arrays)
    /\ x \in Ordinals /\ y \in Ordinals => Orders(defaultCompare, defaultEquals(x, y), x, y, Ordinals)
    /\ x \in Structures /\ y \in Structures =>
          Orders(structuralCompare, structuralEquals(x, y), x, y, Structures)
    /\ x \in Tuples /\ y \in Tuples =>
          Orders(LAMBDA v, w : tupleCompare(v, w, FALSE), tupleEquals(x, y, FALSE), x, y, Tuples)
=============================================================================
