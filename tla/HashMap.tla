------------------------------ MODULE HashMap ------------------------------
(***************************************************************************)
(* @esfx/collections-hashmap and @esfx/collections-hashset: the methods of *)
(* a map and of a set over a hash table.  The keys of a set are its values.*)
(* The table (@esfx/internal-collections-hash) has chained buckets over an *)
(* array of entries with a free list, and a doubly linked list of the      *)
(* entries, in which iterators walk while clients change the table.        *)
(***************************************************************************)
EXTENDS SequencesExt, Integers

CONSTANTS
    Keys, Values,
    Hash,           \* equaler.hash(key) & MAX_INT32, a function on Keys
    Primes,         \* the sizes that getPrime chooses from
    MaxEntries,     \* bound: entry objects made in the table's life
    MaxReuses,      \* bound: how often a freed one is linked in again
    MaxGiven        \* bound: keys that one iterator yields

VARIABLES
    buckets,        \* on 0 .. capacity - 1: 1 + the index of the first entry, or 0
    entries,        \* on 0 .. capacity - 1: entry objects, Nothing where none was made
    object,         \* the entry objects: object[HeadEntry] and those made so far
    size, freeSize, freeList, tail,
    cursor,         \* the entry an iterator stands at; Nothing when it is done
    given,          \* history: the keys it has yielded
    stayed,         \* history: the keys present ever since it started
    reused          \* history: how often a freed entry object was linked in again

hashData == <<buckets, entries, object, size, freeSize, freeList, tail>>
iteration == <<cursor, given, stayed>>
hashVars == <<hashData, iteration, reused>>

HeadEntry == 0
Nothing == -1
NoKey == "undefined"

createHashEntry ==
    [next |-> 0, prevEntry |-> Nothing, nextEntry |-> Nothing, skipNextEntry |-> FALSE,
     hashCode |-> 0, key |-> NoKey, value |-> NoKey]

getPrime(min) == CHOOSE p \in Primes : p >= min /\ \A q \in Primes : q >= min => p <= q

CanGrowTo(n) == \E p \in Primes : p >= n

Capacity == Cardinality(DOMAIN buckets)
Empty(capacity, x) == [i \in 0 .. capacity - 1 |-> x]

\* createHashData, but for the buckets and entries.
InitTable ==
    /\ object = [e \in {HeadEntry} |-> createHashEntry]
    /\ size = 0 /\ freeSize = 0 /\ freeList = -1 /\ tail = HeadEntry
    /\ cursor = Nothing /\ given = <<>> /\ stayed = {} /\ reused = 0

-----------------------------------------------------------------------------
\* The indices that the loops of find, insert and delete pass, in their order.
Chain(key) ==
    LET at[n \in Nat] == IF n = 0 THEN buckets[Hash[key] % Capacity] - 1
                         ELSE LET i == at[n - 1] IN IF i = -1 THEN -1 ELSE object[entries[i]].next
    IN [n \in 1 .. Capacity |-> at[n - 1]]

\* equaler.equals is asked only about entries of the same hash.
Matches(i, key) == LET entry == object[entries[i]]
                   IN entry.hashCode = Hash[key] /\ entry.key = key

findEntryIndex(key) ==
    LET found == {i \in Range(Chain(key)) \ {-1} : Matches(i, key)}
    IN IF found = {} THEN -1 ELSE CHOOSE i \in found : TRUE

findEntryValue(key) == object[entries[findEntryIndex(key)]].value

-----------------------------------------------------------------------------
\* Mutant of Rehash: an entry does not go on to the others of its bucket.
RehashUnchained(array, n, capacity) ==
    LET used == {i \in 0 .. n - 1 : array[i] # Nothing /\ object[array[i]].hashCode >= 0}
    IN [buckets |-> [b \in 0 .. capacity - 1 |->
                        Max({0} \cup {i + 1 : i \in {j \in used :
                                object[array[j]].hashCode % capacity = b}})],
        object |-> [e \in DOMAIN object |->
                        IF \E i \in used : array[i] = e THEN [object[e] EXCEPT !.next = -1]
                        ELSE object[e]]]

\* The loop over the entries of `array` from 0 to n - 1: those in use are put before the
\* others of their buckets.  The new buckets, and the entries with their next index.
Rehash(array, n, capacity) ==
    LET done[k \in 0 .. n] ==
            IF k = 0 THEN [buckets |-> Empty(capacity, 0), object |-> object]
            ELSE LET acc == done[k - 1]
                     e == array[k - 1]
                     b == object[e].hashCode % capacity
                 IN IF e = Nothing \/ object[e].hashCode < 0 THEN acc
                    ELSE [buckets |-> [acc.buckets EXCEPT ![b] = k],
                          object |-> [acc.object EXCEPT ![e].next = acc.buckets[b] - 1]]
    IN done[n]

Grown(array, capacity) ==
    [i \in 0 .. capacity - 1 |-> IF i \in DOMAIN array THEN array[i] ELSE Nothing]

resizeHashData(capacity) ==
    LET rehashed == Rehash(entries, size, capacity)
    IN [buckets |-> rehashed.buckets, object |-> rehashed.object,
        entries |-> Grown(entries, capacity)]

\* Where insertEntry puts a new key: the first freed index, or the one after the last,
\* with twice the capacity when there is none.
expandPrime(n) == getPrime(2 * n)
Slot == IF freeSize > 0 THEN freeList ELSE size
MustGrow == freeSize = 0 /\ size = Capacity
Table == IF MustGrow THEN resizeHashData(expandPrime(size))
         ELSE [buckets |-> buckets, object |-> object, entries |-> entries]

\* insertEntry(key, value): HashMap.set, HashSet.add and tryAdd
insertEntry(key, value) ==
    LET index == Slot
        e == IF Table.entries[index] # Nothing THEN Table.entries[index]
             ELSE Cardinality(DOMAIN object)
        bucket == Hash[key] % Cardinality(DOMAIN Table.buckets)
        old == IF e \in DOMAIN Table.object THEN Table.object[e] ELSE createHashEntry
        entry == [old EXCEPT !.hashCode = Hash[key], !.next = Table.buckets[bucket] - 1,
                             !.key = key, !.value = value, !.skipNextEntry = FALSE,
                             !.prevEntry = tail]
    IN /\ MustGrow => CanGrowTo(2 * size)
       /\ e <= MaxEntries
       /\ freeList' = IF freeSize > 0 THEN old.next ELSE freeList
       /\ freeSize' = IF freeSize > 0 THEN freeSize - 1 ELSE 0
       /\ size' = IF freeSize > 0 THEN size ELSE size + 1
       /\ object' = [x \in DOMAIN Table.object \cup {e} |->
                        IF x = e THEN entry
                        ELSE IF x = tail THEN [Table.object[x] EXCEPT !.nextEntry = e]
                        ELSE Table.object[x]]
       /\ entries' = [Table.entries EXCEPT ![index] = e]
       /\ buckets' = [Table.buckets EXCEPT ![bucket] = index + 1]
       /\ tail' = e
       /\ reused' = reused + (IF freeSize > 0 THEN 1 ELSE 0)
       /\ reused' <= MaxReuses

setValue(key, value) ==
    /\ object' = [object EXCEPT ![entries[findEntryIndex(key)]].value = value]
    /\ UNCHANGED <<buckets, entries, size, freeSize, freeList, tail, reused>>

put(key, value) ==
    /\ \/ findEntryIndex(key) # -1 /\ setValue(key, value)
       \/ findEntryIndex(key) = -1 /\ insertEntry(key, value)
    /\ UNCHANGED iteration

\* The entry is taken out of its list; it remembers its predecessor, for iterators.
Unlinked(objects, e) ==
    LET prev == objects[e].prevEntry
        next == objects[e].nextEntry
    IN [x \in DOMAIN objects |->
          IF x = e THEN [objects[x] EXCEPT !.hashCode = -1, !.next = freeList, !.key = NoKey,
                                           !.value = NoKey, !.prevEntry = Nothing,
                                           !.nextEntry = prev, !.skipNextEntry = TRUE]
          ELSE [objects[x] EXCEPT !.nextEntry = IF x = prev THEN next ELSE @,
                                  !.prevEntry = IF x = next THEN prev ELSE @]]

\* Mutant of Forgotten: an iterator that stands at the entry is not sent back.
ForgottenPlainly(objects, e) ==
    [Unlinked(objects, e) EXCEPT ![e].skipNextEntry = FALSE]

Forgotten(objects, e) == Unlinked(objects, e)

\* deleteEntry(key): out of its chain, out of the list, into the free list.
deleteEntry(key) ==
    LET i == findEntryIndex(key)
        e == entries[i]
        chain == Chain(key)
        place == CHOOSE n \in DOMAIN chain : chain[n] = i
        last == chain[place - 1]
    IN /\ i # -1
       /\ IF place = 1
          THEN /\ buckets' = [buckets EXCEPT ![Hash[key] % Capacity] = object[e].next + 1]
               /\ object' = Forgotten(object, e)
          ELSE /\ UNCHANGED buckets
               /\ object' = Forgotten([object EXCEPT ![entries[last]].next = object[e].next], e)
       /\ tail' = IF tail = e THEN object[e].prevEntry ELSE tail
       /\ freeList' = i
       /\ freeSize' = freeSize + 1
       /\ UNCHANGED <<entries, size>>

remove(key) ==
    /\ deleteEntry(key)
    /\ stayed' = stayed \ {key}
    /\ UNCHANGED <<cursor, given, reused>>

\* The entries after the head, as far as they are linked, and Nothing after the last.
Listed == LET at[n \in Nat] == IF n = 0 THEN HeadEntry
                               ELSE IF at[n - 1] = Nothing THEN Nothing
                               ELSE object[at[n - 1]].nextEntry
          IN [n \in DOMAIN object |-> at[n + 1]]

\* The entries are dropped, each sends its iterators back to the head.  In a circle, which
\* a freed entry makes that was used again and is the last, the loop over them never ends.
clearEntries ==
    /\ size > 0 /\ Nothing \in Range(Listed)
    /\ buckets' = Empty(Capacity, 0)
    /\ entries' = Empty(Capacity, Nothing)
    /\ object' = [x \in DOMAIN object |->
                     IF x = HeadEntry THEN [object[x] EXCEPT !.nextEntry = Nothing]
                     ELSE IF x \in Range(Listed)
                     THEN [object[x] EXCEPT !.prevEntry = Nothing, !.nextEntry = HeadEntry,
                                            !.skipNextEntry = TRUE]
                     ELSE object[x]]
    /\ tail' = HeadEntry /\ size' = 0 /\ freeList' = -1 /\ freeSize' = 0
    /\ stayed' = {}
    /\ UNCHANGED <<cursor, given, reused>>

\* A larger capacity is asked for.
ensureCapacity(capacity) ==
    /\ capacity > Capacity
    /\ LET table == resizeHashData(getPrime(capacity))
       IN buckets' = table.buckets /\ object' = table.object /\ entries' = table.entries
    /\ UNCHANGED <<size, freeSize, freeList, tail, iteration, reused>>

\* The entries in use, which trimming moves together.
InUse == LET moved[k \in 0 .. size] ==
                 IF k = 0 THEN <<>>
                 ELSE IF object[entries[k - 1]].hashCode < 0 THEN moved[k - 1]
                 ELSE Append(moved[k - 1], entries[k - 1])
         IN moved[size]

\* Unless the client gives a capacity, it is the number of keys, less than `size` once one
\* was deleted: an error.
trimExcessEntries(capacity) ==
    LET trimmed == [i \in 0 .. getPrime(capacity) - 1 |->
                       IF i < Len(InUse) THEN InUse[i + 1] ELSE Nothing]
        rehashed == Rehash(trimmed, Len(InUse), getPrime(capacity))
    IN /\ capacity >= size
       /\ getPrime(capacity) < Capacity
       /\ entries' = trimmed
       /\ buckets' = rehashed.buckets /\ object' = rehashed.object
       /\ size' = Len(InUse) /\ freeSize' = 0 /\ freeList' = -1
       /\ UNCHANGED <<tail, iteration, reused>>

-----------------------------------------------------------------------------
\* An iterator of iterateEntries, or a loop of forEachEntry, starts.
iterateEntries ==
    /\ cursor' = HeadEntry /\ given' = <<>>
    /\ stayed' = {key \in Keys : findEntryIndex(key) # -1}
    /\ UNCHANGED <<hashData, reused>>

\* One turn of its loop: to the next entry, which is yielded, or back to an earlier one
\* that is still linked.
iterateOn ==
    LET entry == object[cursor]
    IN /\ cursor # Nothing /\ Len(given) < MaxGiven
       /\ cursor' = entry.nextEntry
       /\ given' = IF entry.skipNextEntry \/ entry.nextEntry = Nothing THEN given
                   ELSE Append(given, object[entry.nextEntry].key)
       /\ UNCHANGED <<hashData, stayed, reused>>

-----------------------------------------------------------------------------
\* The free list holds the freed indices and nothing else, each once, and what can be
\* found is what has been put in and not removed.
Freed == {i \in 0 .. size - 1 : object[entries[i]].hashCode = -1}
FreeListed == LET at[n \in Nat] == IF n = 0 THEN freeList
                                   ELSE IF at[n - 1] = -1 THEN -1
                                ELSE object[entries[at[n - 1]]].next
              IN {at[n] : n \in 0 .. freeSize - 1}

TypeOK == /\ size \in 0 .. Capacity /\ freeSize \in 0 .. size
          /\ FreeListed = Freed /\ Cardinality(Freed) = freeSize
          /\ Cardinality({k \in Keys : findEntryIndex(k) # -1}) = size - freeSize

\* A table that has not linked a freed entry again: an iterator that is done has given
\* every key that stayed in the table, once, though others came and went meanwhile, the
\* one it stood at too.  (A freed entry keeps its old nextEntry when it is used again.)
IteratesStayers ==
    reused = 0 /\ given # <<>> =>
        /\ \A key \in stayed : Cardinality({n \in DOMAIN given : given[n] = key}) <= 1
        /\ cursor = Nothing => stayed \subseteq Range(given)

\* keys() is documented to give the keys present in the collection; the head is none.
KeysAreKeys == \A n \in DOMAIN given : given[n] # NoKey

-----------------------------------------------------------------------------
(* HashMap                                                                 *)

\* HashMap(capacity): the primes are the capacities that there are.
Construct == \E p \in Primes : /\ buckets = Empty(p, 0) /\ entries = Empty(p, Nothing)
                               /\ InitTable

Size == size - freeSize
Has(key) == findEntryIndex(key) >= 0
Get(key) == findEntryValue(key)

Set(key, value) == put(key, value)
Delete(key) == remove(key)
Clear == clearEntries
EnsureCapacity(capacity) == ensureCapacity(capacity)

\* Unless the client gives a capacity, it is the number of keys, which is less than `size`
\* once a key was deleted: an error.
TrimExcess == \E capacity \in Primes \cup {Size} : trimExcessEntries(capacity)

\* keys(), values(), entries() and the loop of forEach(callback)
Iterate == iterateEntries
IterateNext == iterateOn

Next == \/ \E key \in Keys : Delete(key) \/ \E value \in Values : Set(key, value)
        \/ Clear
        \/ \E capacity \in Primes : EnsureCapacity(capacity)
        \/ TrimExcess
        \/ Iterate \/ IterateNext

Spec == Construct /\ [][Next]_hashVars

-----------------------------------------------------------------------------
\* What a client relies on: a map from keys to values, where an operation sets one key,
\* removes one or all, and growing, trimming and iterating change nothing.
Map == INSTANCE Dictionary WITH map <- [key \in {k \in Keys : Has(k)} |-> Get(key)]
ImplementsMap == Map!Spec

-----------------------------------------------------------------------------
(* HashSet                                                                 *)

HasValue(value) == findEntryIndex(value) >= 0

Add(value) == put(value, value)

\* tryAdd(value) returns whether the set has grown.
TryAdd(value, added) == Add(value) /\ added = (Size' > Size)

DeleteValue(value) == remove(value)
ClearValues == clearEntries
EnsureCapacityOfSet(capacity) == ensureCapacity(capacity)
TrimExcessOfSet == \E capacity \in Primes \cup {Size} : trimExcessEntries(capacity)

\* keys(), values(), entries() and the loop of forEach(callback)
IterateValues == iterateEntries
IterateNextValue == iterateOn

SetNext == \/ \E value \in Keys : \/ Add(value) \/ DeleteValue(value)
                                  \/ \E added \in BOOLEAN : TryAdd(value, added)
           \/ ClearValues
           \/ \E capacity \in Primes : EnsureCapacityOfSet(capacity)
           \/ TrimExcessOfSet
           \/ IterateValues \/ IterateNextValue

\* A step: tryAdd tells whether the value is new, as groupings and distinct() rely on.
TellsNew == \A value \in Keys : \A added \in BOOLEAN :
               TryAdd(value, added) => added = ~HasValue(value)
=============================================================================
