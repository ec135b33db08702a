--------------------------- MODULE CollectionProofs ---------------------------
(***************************************************************************)
(* The linked list, for any nodes: it stays one circle, does what each     *)
(* edit asks, and walks see what stays.  The sorted map and set, for any   *)
(* integers: their arrays stay sorted, a search finds what is in them, and *)
(* the map is one.  The multimap: its count is that of its values.  The    *)
(* hash table, for any hashes and capacities: it finds what is in it, the  *)
(* freed places are in its free list, it is a map, and walks see what      *)
(* stays.                                                                  *)
(***************************************************************************)
EXTENDS LinkedList, FiniteSetTheorems, SequenceTheorems, TLAPS

-----------------------------------------------------------------------------
(* Induction, from the well-foundedness of finite sets: the theorems of    *)
(* the library about it take an operator, which has to be given.           *)

LEMMA SmallestNat ==
    ASSUME NEW T \in SUBSET Nat, T # {}
    PROVE  \E x \in T : \A y \in T : x <= y
<1> DEFINE U == {0 .. n : n \in T}
<1>1. U \subseteq FiniteSubsetsOf(Nat) /\ U # {}
  <2>1. ASSUME NEW n \in T PROVE 0 .. n \in FiniteSubsetsOf(Nat)
    BY FS_Interval DEF FiniteSubsetsOf
  <2> QED BY <2>1
<1>2. IsWellFoundedOn(StrictSubsetOrdering(Nat), FiniteSubsetsOf(Nat))
  BY FS_StrictSubsetOrderingWellFounded
<1> HIDE DEF U
<1>3. PICK A \in U : \A B \in U : ~(<<B, A>> \in StrictSubsetOrdering(Nat))
  BY <1>1, <1>2, WFMin
<1>4. PICK x \in T : A = 0 .. x
  BY <1>3 DEF U
<1>5. ASSUME NEW y \in T, y < x PROVE FALSE
  <2>1. 0 .. y \in U /\ 0 .. y \in SUBSET Nat /\ A \in SUBSET Nat
    BY <1>4 DEF U
  <2>2. 0 .. y \subseteq A /\ x \in A /\ x \notin 0 .. y
    BY <1>4, <1>5
  <2>3. <<0 .. y, A>> \in StrictSubsetOrdering(Nat)
    BY <2>1, <2>2 DEF StrictSubsetOrdering
  <2> QED BY <1>3, <2>1, <2>3
<1> QED BY <1>5

\* What holds of 0, and of n + 1 when it holds of n, holds of every number.
LEMMA Induction ==
    ASSUME NEW T, 0 \in T, \A n \in Nat : n \in T => n + 1 \in T
    PROVE  Nat \subseteq T
<1> SUFFICES ASSUME Nat \ T # {} PROVE FALSE
  OBVIOUS
<1>1. PICK x \in Nat \ T : \A y \in Nat \ T : x <= y
  BY SmallestNat
<1>2. x # 0 /\ x - 1 \in Nat /\ (x - 1) + 1 = x
  BY <1>1
<1> QED BY <1>1, <1>2

\* From a, step by step: there is one sequence of what a function leads to.
LEMMA Recursion ==
    ASSUME NEW S, NEW a \in S, NEW g \in [S -> S]
    PROVE  \E f \in [Nat -> S] : f[0] = a /\ \A n \in Nat : f[n + 1] = g[f[n]]
<1> DEFINE Starts(n, h) == /\ h \in [0 .. n -> S] /\ h[0] = a
                           /\ \A i \in 0 .. n : i + 1 \in 0 .. n => h[i + 1] = g[h[i]]
           T == {n \in Nat : \E h \in [0 .. n -> S] : Starts(n, h)}
<1>1. 0 \in T
  <2>1. Starts(0, [i \in 0 .. 0 |-> a])
    OBVIOUS
  <2> QED BY <2>1
<1>2. ASSUME NEW n \in Nat, n \in T PROVE n + 1 \in T
  <2>1. PICK h \in [0 .. n -> S] : Starts(n, h)
    BY <1>2
  <2> DEFINE k == [i \in 0 .. n + 1 |-> IF i = n + 1 THEN g[h[n]] ELSE h[i]]
  <2>2. k \in [0 .. n + 1 -> S] /\ k[0] = a
    BY <2>1
  <2>3. ASSUME NEW i \in 0 .. n + 1, i + 1 \in 0 .. n + 1 PROVE k[i + 1] = g[k[i]]
    <3>1. CASE i = n
      BY <2>1, <3>1
    <3>2. CASE i # n
      BY <2>3, <3>2, <2>1
    <3> QED BY <3>1, <3>2
  <2> QED BY <2>2, <2>3
<1>3. Nat \subseteq T
  <2> HIDE DEF T
  <2> QED BY <1>1, <1>2, Induction
<1>4. ASSUME NEW m \in Nat, NEW n \in Nat, m <= n,
             NEW h \in [0 .. m -> S], NEW k \in [0 .. n -> S], Starts(m, h), Starts(n, k)
      PROVE  h[m] = k[m]
  <2> DEFINE U == {i \in Nat : i <= m => h[i] = k[i]}
  <2>1. 0 \in U
    BY <1>4
  <2>2. ASSUME NEW i \in Nat, i \in U PROVE i + 1 \in U
    BY <1>4, <2>2
  <2>3. Nat \subseteq U
    <3> HIDE DEF U
    <3> QED BY <2>1, <2>2, Induction
  <2>4. m \in U /\ m <= m
    BY <2>3
  <2> QED BY <2>4
<1> DEFINE H(n) == CHOOSE h \in [0 .. n -> S] : Starts(n, h)
           f == [n \in Nat |-> H(n)[n]]
<1>5. ASSUME NEW n \in Nat PROVE H(n) \in [0 .. n -> S] /\ Starts(n, H(n))
  <2>1. \E h \in [0 .. n -> S] : Starts(n, h)
    BY <1>3
  <2> HIDE DEF Starts
  <2> QED BY <2>1
<1>6. f \in [Nat -> S] /\ f[0] = a
  <2> HIDE DEF H
  <2>1. \A n \in Nat : H(n)[n] \in S
    BY <1>5
  <2>2. H(0)[0] = a
    BY <1>5
  <2> QED BY <2>1, <2>2
<1>7. ASSUME NEW n \in Nat PROVE f[n + 1] = g[f[n]]
  <2> HIDE DEF H
  <2>1. H(n + 1)[n + 1] = g[H(n + 1)[n]]
    BY <1>5
  <2>2. H(n)[n] = H(n + 1)[n]
    <3> HIDE DEF Starts
    <3>1. n + 1 \in Nat /\ n <= n + 1
      OBVIOUS
    <3>2. H(n) \in [0 .. n -> S] /\ Starts(n, H(n))
      BY <1>5
    <3>3. H(n + 1) \in [0 .. n + 1 -> S] /\ Starts(n + 1, H(n + 1))
      BY <1>5, <3>1
    <3> QED BY <1>4, <3>1, <3>2, <3>3, Zenon
  <2> QED BY <2>1, <2>2
<1> QED BY <1>6, <1>7

-----------------------------------------------------------------------------
(* Places in sequences *)

LEMMA InsertAtIs ==
    ASSUME NEW S, NEW s \in Seq(S), NEW x \in S, NEW p \in 1 .. Len(s) + 1
    PROVE  /\ InsertAt(s, p, x) \in Seq(S)
           /\ Len(InsertAt(s, p, x)) = Len(s) + 1
           /\ \A j \in 1 .. Len(s) + 1 :
                 InsertAt(s, p, x)[j] = IF j < p THEN s[j] ELSE IF j = p THEN x ELSE s[j - 1]
<1> DEFINE a == SubSeq(s, 1, p - 1)
           b == SubSeq(s, p, Len(s))
<1>1. /\ a \in Seq(S) /\ Len(a) = p - 1 /\ \A j \in 1 .. p - 1 : a[j] = s[j]
      /\ b \in Seq(S) /\ Len(b) = Len(s) - p + 1 /\ \A j \in 1 .. Len(s) - p + 1 : b[j] = s[p + j - 1]
  OBVIOUS
<1>2. InsertAt(s, p, x) = (a \o <<x>>) \o b
  BY DEF InsertAt
<1> HIDE DEF a, b
<1> DEFINE c == Append(a, x)
<1>3. c = a \o <<x>>
  BY <1>1
<1>4. /\ c \in Seq(S) /\ Len(c) = p /\ c[p] = x
      /\ \A j \in 1 .. p - 1 : c[j] = s[j]
  BY <1>1
<1> HIDE DEF c
<1>5. /\ c \o b \in Seq(S)
      /\ Len(c \o b) = Len(c) + Len(b)
      /\ \A j \in 1 .. Len(c) + Len(b) :
            (c \o b)[j] = IF j <= Len(c) THEN c[j] ELSE b[j - Len(c)]
  BY <1>1, <1>4, ConcatProperties
<1>6. Len(s) \in Nat /\ Len(c) + Len(b) = Len(s) + 1
  BY <1>1, <1>4
<1>7. ASSUME NEW j \in 1 .. Len(s) + 1
      PROVE  (c \o b)[j] = IF j < p THEN s[j] ELSE IF j = p THEN x ELSE s[j - 1]
  <2>1. (c \o b)[j] = IF j <= p THEN c[j] ELSE b[j - p]
    BY <1>4, <1>5, <1>6
  <2>2. CASE j <= p
    BY <1>4, <1>6, <2>1, <2>2
  <2>3. CASE j > p
    BY <1>6, <2>3, <1>1, <2>1
  <2> QED BY <1>6, <2>2, <2>3
<1> QED BY <1>2, <1>3, <1>5, <1>6, <1>7

LEMMA RemoveAtIs ==
    ASSUME NEW S, NEW s \in Seq(S), NEW p \in 1 .. Len(s)
    PROVE  /\ RemoveAt(s, p) \in Seq(S)
           /\ Len(RemoveAt(s, p)) = Len(s) - 1
           /\ \A j \in 1 .. Len(s) - 1 : RemoveAt(s, p)[j] = IF j < p THEN s[j] ELSE s[j + 1]
<1> DEFINE a == SubSeq(s, 1, p - 1)
           b == SubSeq(s, p + 1, Len(s))
<1>1. /\ a \in Seq(S) /\ Len(a) = p - 1 /\ \A j \in 1 .. p - 1 : a[j] = s[j]
      /\ b \in Seq(S) /\ Len(b) = Len(s) - p /\ \A j \in 1 .. Len(s) - p : b[j] = s[p + j]
  OBVIOUS
<1>2. RemoveAt(s, p) = a \o b
  BY DEF RemoveAt
<1> HIDE DEF a, b
<1>3. /\ a \o b \in Seq(S)
      /\ Len(a \o b) = Len(a) + Len(b)
      /\ \A j \in 1 .. Len(a) + Len(b) :
            (a \o b)[j] = IF j <= Len(a) THEN a[j] ELSE b[j - Len(a)]
  BY <1>1, ConcatProperties
<1>4. Len(s) \in Nat /\ Len(a) + Len(b) = Len(s) - 1
  BY <1>1
<1>5. ASSUME NEW j \in 1 .. Len(s) - 1 PROVE (a \o b)[j] = IF j < p THEN s[j] ELSE s[j + 1]
  <2>1. (a \o b)[j] = IF j <= p - 1 THEN a[j] ELSE b[j - (p - 1)]
    BY <1>1, <1>3, <1>4
  <2>2. CASE j <= p - 1
    BY <1>1, <1>4, <2>1, <2>2
  <2>3. CASE j > p - 1
    BY <1>4, <2>3, <1>1, <2>1
  <2> QED BY <1>4, <2>2, <2>3
<1> QED BY <1>2, <1>3, <1>4, <1>5

-----------------------------------------------------------------------------
(* The circle *)

Places(s) == 1 .. Len(s)
Succ(s, i) == IF i = Len(s) THEN s[1] ELSE s[i + 1]
Pred(s, i) == IF i = 1 THEN s[Len(s)] ELSE s[i - 1]

\* s is the circle from the head h, along the next nodes nx and the previous ones pv, of
\* the n nodes `on`.
Ring(s, h, nx, pv, on, n) ==
    /\ s \in Seq(Nodes) /\ \A i, j \in Places(s) : s[i] = s[j] => i = j
    /\ on = {s[i] : i \in Places(s)} /\ n = Len(s)
    /\ h = IF s = <<>> THEN Nothing ELSE s[1]
    /\ nx \in [Nodes -> Nodes \cup {Nothing}] /\ pv \in [Nodes -> Nodes \cup {Nothing}]
    /\ \A i \in Places(s) : nx[s[i]] = Succ(s, i) /\ pv[s[i]] = Pred(s, i)

LEMMA RingInserts ==
    ASSUME NEW s, NEW h, NEW nx, NEW pv, NEW on, NEW n, Ring(s, h, nx, pv, on, n), s # <<>>,
           NEW x \in Nodes, x \notin on, NEW p \in 1 .. Len(s) + 1,
           NEW pred, pred = IF p = 1 THEN s[Len(s)] ELSE s[p - 1],
           NEW succ, succ = IF p = Len(s) + 1 THEN s[1] ELSE s[p]
    PROVE  Ring(InsertAt(s, p, x), IF p = 1 THEN x ELSE h, [nx EXCEPT ![x] = succ, ![pred] = x],
                [pv EXCEPT ![x] = pred, ![succ] = x], on \cup {x}, n + 1)
<1> DEFINE t == InsertAt(s, p, x)
           nxt == [nx EXCEPT ![x] = succ, ![pred] = x]
           pvt == [pv EXCEPT ![x] = pred, ![succ] = x]
<1>1. /\ s \in Seq(Nodes) /\ Len(s) \in Nat \ {0} /\ n = Len(s) /\ h = s[1]
      /\ nx \in [Nodes -> Nodes \cup {Nothing}] /\ pv \in [Nodes -> Nodes \cup {Nothing}]
      /\ on = {s[i] : i \in Places(s)}
      /\ \A i, j \in Places(s) : s[i] = s[j] => i = j
      /\ \A i \in Places(s) : s[i] # x
      /\ \A i \in Places(s) : s[i] \in Nodes
  BY DEF Ring, Places
<1>2. /\ t \in Seq(Nodes) /\ Len(t) = Len(s) + 1
      /\ \A j \in 1 .. Len(s) + 1 : t[j] = IF j < p THEN s[j] ELSE IF j = p THEN x ELSE s[j - 1]
  <2> HIDE DEF t
  <2>1. /\ InsertAt(s, p, x) \in Seq(Nodes) /\ Len(InsertAt(s, p, x)) = Len(s) + 1
        /\ \A j \in 1 .. Len(s) + 1 : InsertAt(s, p, x)[j] =
                 IF j < p THEN s[j] ELSE IF j = p THEN x ELSE s[j - 1]
    <3>1. s \in Seq(Nodes)
      BY <1>1
    <3> QED BY <3>1, InsertAtIs
  <2> QED BY <2>1 DEF t
<1> HIDE DEF t
<1>3. \A i, j \in Places(t) : t[i] = t[j] => i = j
  BY <1>1, <1>2 DEF Places
<1>4. on \cup {x} = {t[i] : i \in Places(t)}
  <2>1. p \in Places(t) /\ t[p] = x
    BY <1>1, <1>2 DEF Places
  <2>2. ASSUME NEW i \in Places(s) PROVE \E j \in Places(t) : t[j] = s[i]
    <3>1. CASE i < p
      BY <1>1, <1>2, <3>1 DEF Places
    <3>2. CASE i >= p
      <4>1. i + 1 \in Places(t) /\ t[i + 1] = s[i]
        BY <1>1, <1>2, <3>2 DEF Places
      <4> QED BY <4>1
    <3> QED BY <1>1, <3>1, <3>2 DEF Places
  <2>3. ASSUME NEW j \in Places(t), j # p PROVE \E i \in Places(s) : t[j] = s[i]
    <3>1. CASE j < p
      BY <1>1, <1>2, <3>1 DEF Places
    <3>2. CASE j > p
      BY <1>1, <1>2, <3>2 DEF Places
    <3> QED BY <1>2, <2>3, <3>1, <3>2, SMTT(30) DEF Places
  <2> QED BY <1>1, <2>1, <2>2, <2>3
<1>5. /\ pred \in Nodes /\ succ \in Nodes /\ pred # x /\ succ # x
      /\ nxt \in [Nodes -> Nodes \cup {Nothing}] /\ pvt \in [Nodes -> Nodes \cup {Nothing}]
      /\ nxt[x] = succ /\ nxt[pred] = x /\ pvt[x] = pred /\ pvt[succ] = x
      /\ \A m \in Nodes : m # x /\ m # pred => nxt[m] = nx[m]
      /\ \A m \in Nodes : m # x /\ m # succ => pvt[m] = pv[m]
  BY <1>1 DEF Places
<1> HIDE DEF nxt, pvt
<1>6. \A i \in Places(s) : nx[s[i]] = Succ(s, i) /\ pv[s[i]] = Pred(s, i)
  BY DEF Ring
<1>7. ASSUME NEW i \in Places(t) PROVE nxt[t[i]] = Succ(t, i)
  <2>1. CASE i = p
    BY <1>1, <1>2, <1>5, <2>1 DEF Places, Succ
  <2>2. CASE i < p
    <3>1. i \in Places(s) /\ t[i] = s[i] /\ t[i] \in Nodes /\ t[i] # x
      BY <1>1, <1>2, <2>2 DEF Places
    <3>2. CASE i = p - 1
      BY <1>1, <1>2, <1>5, <3>1, <3>2 DEF Places, Succ
    <3>3. CASE i # p - 1 /\ (p = 1 => i # Len(s))
      <4>1. s[i] # pred
        BY <1>1, <2>2, <3>1, <3>3 DEF Places
      <4>2. nxt[t[i]] = Succ(s, i)
        BY <1>5, <1>6, <3>1, <4>1
      <4>3. Succ(s, i) = s[i + 1] /\ t[i + 1] = s[i + 1] /\ i # Len(t)
        BY <1>1, <1>2, <2>2, <3>1, <3>3 DEF Places, Succ
      <4> QED BY <4>2, <4>3 DEF Succ
    <3> QED BY <2>2, <3>2, <3>3, <1>2 DEF Places
  <2>3. CASE i > p
    <3>1. i - 1 \in Places(s) /\ t[i] = s[i - 1] /\ t[i] \in Nodes /\ t[i] # x
      BY <1>1, <1>2, <2>3 DEF Places
    <3>2. CASE s[i - 1] = pred
      BY <1>1, <1>2, <2>3, <3>1, <3>2, <1>5 DEF Places, Succ
    <3>3. CASE s[i - 1] # pred
      <4>1. nxt[t[i]] = Succ(s, i - 1)
        BY <1>5, <1>6, <3>1, <3>3
      <4>2. CASE i = Len(t)
        BY <1>1, <1>2, <3>1, <3>3, <4>2, <4>1 DEF Places, Succ
      <4>3. CASE i # Len(t)
        <5>1. i - 1 # Len(s) /\ t[i + 1] = s[(i - 1) + 1]
          BY <1>1, <1>2, <2>3, <4>3 DEF Places
        <5> QED BY <4>1, <4>3, <5>1 DEF Succ
      <4> QED BY <4>2, <4>3
    <3> QED BY <3>2, <3>3
  <2> QED BY <1>2, <2>1, <2>2, <2>3 DEF Places
<1>8. ASSUME NEW i \in Places(t) PROVE pvt[t[i]] = Pred(t, i)
  <2>1. CASE i = p
    BY <1>1, <1>2, <1>5, <2>1 DEF Places, Pred
  <2>2. CASE i < p
    <3>1. i \in Places(s) /\ t[i] = s[i] /\ t[i] \in Nodes /\ t[i] # x
      BY <1>1, <1>2, <2>2 DEF Places
    <3>2. CASE s[i] = succ
      <4>1. i = 1 /\ p = Len(t)
        BY <1>1, <1>2, <2>2, <3>1, <3>2 DEF Places
      <4> QED BY <1>1, <1>2, <1>5, <3>1, <3>2, <4>1 DEF Places, Pred
    <3>3. CASE s[i] # succ
      <4>1. pvt[t[i]] = Pred(s, i)
        BY <1>5, <1>6, <3>1, <3>3
      <4>2. CASE i = 1
        BY <1>1, <1>2, <3>1, <3>3, <4>2, <4>1 DEF Places, Pred
      <4>3. CASE i # 1
        BY <1>1, <1>2, <2>2, <4>3, <4>1 DEF Places, Pred
      <4> QED BY <4>2, <4>3
    <3> QED BY <3>2, <3>3
  <2>3. CASE i > p
    <3>1. i - 1 \in Places(s) /\ t[i] = s[i - 1] /\ t[i] \in Nodes /\ t[i] # x
      BY <1>1, <1>2, <2>3 DEF Places
    <3>2. CASE i = p + 1
      BY <1>1, <1>2, <3>1, <3>2, <1>5 DEF Places, Pred
    <3>3. CASE i # p + 1
      <4>1. s[i - 1] # succ
        BY <1>1, <1>2, <2>3, <3>1, <3>3 DEF Places
      <4>2. pvt[t[i]] = Pred(s, i - 1)
        BY <1>5, <1>6, <3>1, <4>1
      <4>3. i - 1 # 1 /\ i # 1 /\ t[i - 1] = s[(i - 1) - 1]
        BY <1>1, <1>2, <2>3, <3>3 DEF Places
      <4> QED BY <4>2, <4>3 DEF Pred
    <3> QED BY <3>2, <3>3
  <2> QED BY <1>2, <2>1, <2>2, <2>3 DEF Places
<1>9. (IF p = 1 THEN x ELSE h) = IF t = <<>> THEN Nothing ELSE t[1]
  BY <1>1, <1>2
<1>10. n + 1 = Len(t)
  BY <1>1, <1>2
<1>11. Ring(t, IF p = 1 THEN x ELSE h, nxt, pvt, on \cup {x}, n + 1)
  BY <1>2, <1>3, <1>4, <1>5, <1>7, <1>8, <1>9, <1>10 DEF Ring
<1> QED BY <1>11 DEF t, nxt, pvt

LEMMA RingStarts ==
    ASSUME NEW h, NEW nx, NEW pv, NEW on, NEW n, Ring(<<>>, h, nx, pv, on, n), NEW x \in Nodes
    PROVE  Ring(<<x>>, x, [nx EXCEPT ![x] = x], [pv EXCEPT ![x] = x], on \cup {x}, n + 1)
<1> DEFINE t == <<x>>
<1>1. t \in Seq(Nodes) /\ Len(t) = 1 /\ t[1] = x /\ t # <<>> /\ Places(t) = {1}
  BY DEF Places
<1>2. on = {} /\ n = 0
  BY DEF Ring, Places
<1> HIDE DEF t
<1>3. on \cup {x} = {t[i] : i \in Places(t)} /\ n + 1 = Len(t)
  BY <1>1, <1>2
<1>4. /\ [nx EXCEPT ![x] = x] \in [Nodes -> Nodes \cup {Nothing}] /\ [nx EXCEPT ![x] = x][x] = x
      /\ [pv EXCEPT ![x] = x] \in [Nodes -> Nodes \cup {Nothing}] /\ [pv EXCEPT ![x] = x][x] = x
  BY DEF Ring
<1>5. Succ(t, 1) = x /\ Pred(t, 1) = x
  BY <1>1 DEF Succ, Pred
<1> QED BY <1>1, <1>3, <1>4, <1>5 DEF Ring, t

\* The last node that there is.
LEMMA RingEnds ==
    ASSUME NEW s, NEW h, NEW nx, NEW pv, NEW on, NEW n, Ring(s, h, nx, pv, on, n),
           NEW x, x \in on, nx[x] = x
    PROVE  /\ Len(s) = 1 /\ on = {x}
           /\ Ring(<<>>, Nothing, [nx EXCEPT ![x] = Nothing], [pv EXCEPT ![x] = Nothing],
                   on \ {x}, n - 1)
<1>1. /\ s \in Seq(Nodes) /\ Len(s) \in Nat /\ n = Len(s)
      /\ nx \in [Nodes -> Nodes \cup {Nothing}] /\ pv \in [Nodes -> Nodes \cup {Nothing}]
      /\ on = {s[i] : i \in Places(s)}
      /\ \A i, j \in Places(s) : s[i] = s[j] => i = j
      /\ \A i \in Places(s) : s[i] \in Nodes /\ nx[s[i]] = Succ(s, i)
  BY DEF Ring, Places
<1>2. PICK i \in Places(s) : s[i] = x
  BY <1>1
<1>3. Succ(s, i) = s[i]
  BY <1>1, <1>2
<1>4. i = Len(s) /\ i = 1
  BY <1>1, <1>3 DEF Places, Succ
<1>6. on = {x} /\ n = 1
  BY <1>1, <1>2, <1>4 DEF Places
<1>7. /\ [nx EXCEPT ![x] = Nothing] \in [Nodes -> Nodes \cup {Nothing}]
      /\ [pv EXCEPT ![x] = Nothing] \in [Nodes -> Nodes \cup {Nothing}]
  BY <1>1
<1>8. <<>> \in Seq(Nodes) /\ Len(<<>>) = 0 /\ Places(<<>>) = {}
  BY DEF Places
<1>9. on \ {x} = {} /\ n - 1 = 0 /\ {<<>>[j] : j \in Places(<<>>)} = {}
  BY <1>6, <1>8
<1>10. Ring(<<>>, Nothing, [nx EXCEPT ![x] = Nothing], [pv EXCEPT ![x] = Nothing],
            on \ {x}, n - 1)
  BY <1>7, <1>8, <1>9 DEF Ring
<1> QED BY <1>1, <1>4, <1>6, <1>10

LEMMA RingRemoves ==
    ASSUME NEW s, NEW h, NEW nx, NEW pv, NEW on, NEW n, Ring(s, h, nx, pv, on, n),
           NEW p \in Places(s), nx[s[p]] # s[p]
    PROVE  Ring(RemoveAt(s, p), IF h = s[p] THEN nx[s[p]] ELSE h,
                [nx EXCEPT ![pv[s[p]]] = nx[s[p]], ![s[p]] = Nothing],
                [pv EXCEPT ![nx[s[p]]] = pv[s[p]], ![s[p]] = Nothing], on \ {s[p]}, n - 1)
<1> DEFINE x == s[p]
           t == RemoveAt(s, p)
           pred == pv[x]
           succ == nx[x]
           nxt == [nx EXCEPT ![pred] = succ, ![x] = Nothing]
           pvt == [pv EXCEPT ![succ] = pred, ![x] = Nothing]
<1>1. /\ s \in Seq(Nodes) /\ Len(s) \in Nat /\ n = Len(s) /\ s # <<>> /\ h = s[1]
      /\ nx \in [Nodes -> Nodes \cup {Nothing}] /\ pv \in [Nodes -> Nodes \cup {Nothing}]
      /\ on = {s[i] : i \in Places(s)}
      /\ \A i, j \in Places(s) : s[i] = s[j] => i = j
      /\ \A i \in Places(s) : s[i] \in Nodes
  BY DEF Ring, Places
<1>2. \A i \in Places(s) : nx[s[i]] = Succ(s, i) /\ pv[s[i]] = Pred(s, i)
  BY DEF Ring
<1>3. succ = Succ(s, p) /\ pred = Pred(s, p)
  BY <1>2
<1>4. succ # x /\ x \in Nodes
  BY <1>1
<1>5. Len(s) > 1
  BY <1>1, <1>3, <1>4 DEF Places, Succ
<1>6. succ \in Nodes /\ pred \in Nodes /\ pred # x
  BY <1>1, <1>3, <1>5 DEF Places, Succ, Pred
<1>7. /\ nxt \in [Nodes -> Nodes \cup {Nothing}] /\ pvt \in [Nodes -> Nodes \cup {Nothing}]
      /\ nxt[pred] = succ /\ pvt[succ] = pred
      /\ \A m \in Nodes : m # x /\ m # pred => nxt[m] = nx[m]
      /\ \A m \in Nodes : m # x /\ m # succ => pvt[m] = pv[m]
  <2> HIDE DEF pred, succ, x
  <2> QED BY <1>1, <1>4, <1>6
<1>8. /\ t \in Seq(Nodes) /\ Len(t) = Len(s) - 1
      /\ \A j \in 1 .. Len(s) - 1 : t[j] = IF j < p THEN s[j] ELSE s[j + 1]
  BY <1>1, RemoveAtIs DEF Places
<1>9. x = s[p]
  OBVIOUS
<1> HIDE DEF x, t, pred, succ, nxt, pvt
<1>10. \A i, j \in Places(t) : t[i] = t[j] => i = j
  BY <1>1, <1>8 DEF Places
<1>11. on \ {x} = {t[i] : i \in Places(t)}
  <2>1. ASSUME NEW i \in Places(s), i # p PROVE \E j \in Places(t) : t[j] = s[i]
    <3>1. CASE i < p
      <4>1. i \in Places(t) /\ t[i] = s[i]
        BY <1>1, <1>8, <3>1 DEF Places
      <4> QED BY <4>1
    <3>2. CASE i > p
      <4>1. i - 1 \in Places(t) /\ t[i - 1] = s[i]
        BY <1>1, <1>8, <3>2 DEF Places
      <4> QED BY <4>1
    <3> QED BY <1>1, <2>1, <3>1, <3>2 DEF Places
  <2>2. ASSUME NEW j \in Places(t) PROVE t[j] \in on \ {x}
    <3>1. CASE j < p
      BY <1>1, <1>8, <3>1, <1>9 DEF Places
    <3>2. CASE j >= p
      BY <1>1, <1>8, <3>2, <1>9 DEF Places
    <3> QED BY <1>1, <1>8, <3>1, <3>2 DEF Places
  <2> QED BY <1>1, <1>9, <2>1, <2>2
<1>12. ASSUME NEW i \in Places(t) PROVE nxt[t[i]] = Succ(t, i)
  <2>1. CASE i < p
    <3>1. i \in Places(s) /\ t[i] = s[i] /\ t[i] \in Nodes /\ t[i] # x /\ i # Len(s)
      BY <1>1, <1>8, <1>9, <2>1 DEF Places
    <3>2. CASE i = p - 1
      <4>1. pred = t[i]
        BY <1>1, <1>3, <3>1, <3>2 DEF Places, Pred
      <4>2. nxt[t[i]] = Succ(s, p)
        BY <1>3, <1>7, <4>1
      <4>3. CASE p = Len(s)
        BY <1>1, <1>5, <1>8, <3>2, <4>3, <4>2 DEF Succ
      <4>4. CASE p # Len(s)
        BY <1>1, <1>5, <1>8, <3>2, <4>4, <4>2 DEF Places, Succ
      <4> QED BY <4>3, <4>4
    <3>3. CASE i # p - 1
      <4>1. s[i] # pred
        BY <1>1, <1>3, <2>1, <3>1, <3>3 DEF Places, Pred
      <4>2. nxt[t[i]] = Succ(s, i)
        BY <1>2, <1>7, <3>1, <4>1
      <4>3. i # Len(t) /\ t[i + 1] = s[i + 1]
        BY <1>1, <1>8, <2>1, <3>3 DEF Places
      <4> QED BY <3>1, <4>2, <4>3 DEF Succ
    <3> QED BY <3>2, <3>3
  <2>2. CASE i >= p
    <3>1. i + 1 \in Places(s) /\ t[i] = s[i + 1] /\ t[i] \in Nodes /\ t[i] # x
      BY <1>1, <1>8, <1>9, <2>2 DEF Places
    <3>2. CASE i = Len(t)
      <4>1. i + 1 = Len(s)
        BY <1>1, <1>8, <3>2
      <4>2. CASE p = 1
        <5>1. pred = t[i] /\ t[1] = s[2]
          BY <1>1, <1>3, <1>5, <1>8, <3>1, <4>1, <4>2 DEF Pred
        <5>2. succ = s[2]
          BY <1>1, <1>3, <1>5, <4>2 DEF Succ
        <5> QED BY <1>7, <3>2, <5>1, <5>2 DEF Succ
      <4>3. CASE p # 1
        <5>1. s[i + 1] # pred /\ t[1] = s[1]
          BY <1>1, <1>3, <1>5, <1>8, <2>2, <3>1, <4>3 DEF Pred, Places
        <5>2. nxt[t[i]] = Succ(s, i + 1)
          BY <1>2, <1>7, <3>1, <5>1
        <5> QED BY <3>2, <4>1, <5>1, <5>2 DEF Succ
      <4> QED BY <4>2, <4>3
    <3>3. CASE i # Len(t)
      <4>1. s[i + 1] # pred
        BY <1>1, <1>3, <1>5, <1>8, <2>2, <3>1, <3>3 DEF Pred, Places
      <4>2. nxt[t[i]] = Succ(s, i + 1)
        BY <1>2, <1>7, <3>1, <4>1
      <4>3. i + 1 # Len(s) /\ t[i + 1] = s[(i + 1) + 1]
        BY <1>1, <1>8, <2>2, <3>3 DEF Places
      <4> QED BY <3>3, <4>2, <4>3 DEF Succ
    <3> QED BY <3>2, <3>3
  <2> QED BY <1>8, <2>1, <2>2 DEF Places
<1>13. ASSUME NEW i \in Places(t) PROVE pvt[t[i]] = Pred(t, i)
  <2>1. CASE i < p
    <3>1. i \in Places(s) /\ t[i] = s[i] /\ t[i] \in Nodes /\ t[i] # x
      BY <1>1, <1>8, <1>9, <2>1 DEF Places
    <3>2. CASE i = 1
      <4>1. CASE p = Len(s)
        <5>1. succ = t[i] /\ pred = s[p - 1] /\ t[Len(t)] = s[p - 1]
          BY <1>1, <1>3, <1>5, <1>8, <3>1, <3>2, <4>1 DEF Succ, Pred
        <5> QED BY <1>7, <3>2, <5>1 DEF Pred
      <4>2. CASE p # Len(s)
        <5>1. s[i] # succ /\ t[Len(t)] = s[Len(s)]
          BY <1>1, <1>3, <1>5, <1>8, <2>1, <3>1, <4>2 DEF Succ, Places
        <5>2. pvt[t[i]] = Pred(s, i)
          BY <1>2, <1>7, <3>1, <5>1
        <5> QED BY <3>2, <5>1, <5>2 DEF Pred
      <4> QED BY <4>1, <4>2
    <3>3. CASE i # 1
      <4>1. s[i] # succ
        BY <1>1, <1>3, <1>5, <2>1, <3>1, <3>3 DEF Succ, Places
      <4>2. pvt[t[i]] = Pred(s, i)
        BY <1>2, <1>7, <3>1, <4>1
      <4>3. t[i - 1] = s[i - 1]
        BY <1>1, <1>8, <2>1, <3>3 DEF Places
      <4> QED BY <3>3, <4>2, <4>3 DEF Pred
    <3> QED BY <3>2, <3>3
  <2>2. CASE i >= p
    <3>1. i + 1 \in Places(s) /\ t[i] = s[i + 1] /\ t[i] \in Nodes /\ t[i] # x
      BY <1>1, <1>8, <1>9, <2>2 DEF Places
    <3>2. CASE i = p
      <4>1. succ = t[i]
        BY <1>1, <1>3, <3>1, <3>2 DEF Succ, Places
      <4>2. pvt[t[i]] = Pred(s, p)
        BY <1>3, <1>7, <4>1
      <4>3. CASE p = 1
        BY <1>1, <1>5, <1>8, <4>3, <3>2, <4>2 DEF Pred
      <4>4. CASE p # 1
        BY <1>1, <1>8, <3>2, <4>4, <4>2 DEF Places, Pred
      <4> QED BY <4>3, <4>4
    <3>3. CASE i # p
      <4>1. s[i + 1] # succ
        BY <1>1, <1>3, <1>5, <2>2, <3>1, <3>3 DEF Succ, Places
      <4>2. pvt[t[i]] = Pred(s, i + 1)
        BY <1>2, <1>7, <3>1, <4>1
      <4>3. i # 1 /\ i + 1 # 1 /\ t[i - 1] = s[(i + 1) - 1]
        BY <1>1, <1>8, <2>2, <3>3 DEF Places
      <4> QED BY <4>2, <4>3 DEF Pred
    <3> QED BY <3>2, <3>3
  <2> QED BY <1>8, <2>1, <2>2 DEF Places
<1>14. (IF h = x THEN succ ELSE h) = IF t = <<>> THEN Nothing ELSE t[1]
  <2>1. t # <<>>
    BY <1>1, <1>5, <1>8
  <2>2. CASE p = 1
    BY <1>1, <1>3, <1>5, <1>8, <1>9, <2>2, <2>1 DEF Succ
  <2>3. CASE p # 1
    <3>1. t[1] = s[1] /\ h # x
      BY <1>1, <1>5, <1>8, <1>9, <2>3 DEF Places
    <3> QED BY <1>1, <2>1, <3>1
  <2> QED BY <2>2, <2>3
<1>15. n - 1 = Len(t)
  BY <1>1, <1>8
<1>16. Ring(t, IF h = x THEN succ ELSE h, nxt, pvt, on \ {x}, n - 1)
  BY <1>7, <1>8, <1>10, <1>11, <1>12, <1>13, <1>14, <1>15 DEF Ring
<1> QED BY <1>16 DEF t, x, nxt, pvt, pred, succ

-----------------------------------------------------------------------------
\* From the head along _next, as LinkedList.Order goes.
LEMMA RingOrder ==
    ASSUME NEW s, NEW h, NEW nx, NEW pv, NEW on, NEW n, Ring(s, h, nx, pv, on, n)
    PROVE  s = LET at[i \in Nat] == IF i = 0 THEN h ELSE nx[at[i - 1]] IN [i \in 1 .. n |-> at[i - 1]]
<1> DEFINE at[i \in Nat] == IF i = 0 THEN h ELSE nx[at[i - 1]]
<1>1. /\ s \in Seq(Nodes) /\ Len(s) \in Nat /\ n = Len(s)
      /\ nx \in [Nodes -> Nodes \cup {Nothing}]
      /\ h = IF s = <<>> THEN Nothing ELSE s[1]
      /\ on = {s[i] : i \in Places(s)} /\ on \subseteq Nodes
      /\ \A i \in Places(s) : nx[s[i]] = Succ(s, i)
  BY DEF Ring, Places
<1>2. CASE s = <<>>
  <2>1. [i \in 1 .. n |-> at[i - 1]] = s
    <3> HIDE DEF at
    <3> QED BY <1>1, <1>2
  <2> QED BY <2>1
<1>3. CASE s # <<>>
  <2>1. Len(s) > 0 /\ h = s[1] /\ h \in on
    BY <1>1, <1>3 DEF Places
  <2>2. \A m \in on : nx[m] \in on
    BY <1>1, <2>1 DEF Places, Succ
  <2> DEFINE g == [m \in on |-> nx[m]]
  <2>3. g \in [on -> on]
    BY <2>2
  <2>4. PICK f \in [Nat -> on] : f[0] = h /\ \A i \in Nat : f[i + 1] = g[f[i]]
    <3> HIDE DEF g
    <3>1. h \in on
      BY <2>1
    <3>2. \A a \in on : \A k \in [on -> on] :
             \E f \in [Nat -> on] : f[0] = a /\ \A i \in Nat : f[i + 1] = k[f[i]]
      BY Recursion
    <3> QED BY <3>1, <3>2, <2>3
  <2>5. f = [i \in Nat |-> IF i = 0 THEN h ELSE nx[f[i - 1]]]
    <3>1. ASSUME NEW i \in Nat PROVE f[i] = IF i = 0 THEN h ELSE nx[f[i - 1]]
      <4>1. CASE i = 0
        BY <2>4, <4>1
      <4>2. CASE i # 0
        <5>1. i - 1 \in Nat /\ (i - 1) + 1 = i
          BY <4>2
        <5> QED BY <2>4, <4>2, <5>1
      <4> QED BY <4>1, <4>2
    <3> QED BY <3>1
  <2>6. at = [i \in Nat |-> IF i = 0 THEN h ELSE nx[at[i - 1]]]
    BY <2>5
  <2> HIDE DEF at
  <2> DEFINE T == {i \in Nat : i < n => at[i] = s[i + 1]}
  <2>7. 0 \in T
    BY <2>1, <2>6
  <2>8. ASSUME NEW i \in Nat, i \in T PROVE i + 1 \in T
    <3>1. CASE i + 1 < n
      <4>5. n \in Nat /\ n = Len(s)
        BY <1>1
      <4>1. i < n /\ i + 1 \in Places(s) /\ i + 1 # Len(s)
        BY <3>1, <4>5 DEF Places
      <4>4. at[i] = s[i + 1]
        BY <2>8, <4>1
      <4>2. at[i + 1] = nx[at[i]]
        BY <2>6
      <4>3. nx[s[i + 1]] = s[(i + 1) + 1]
        BY <1>1, <4>1 DEF Succ
      <4> QED BY <4>2, <4>3, <4>4
    <3> QED BY <3>1
  <2>9. Nat \subseteq T
    <3> HIDE DEF T
    <3> QED BY <2>7, <2>8, Induction
  <2>10. ASSUME NEW i \in 1 .. n PROVE at[i - 1] = s[i]
    BY <1>1, <2>9
  <2>11. s = [i \in 1 .. n |-> at[i - 1]]
    BY <1>1, <2>10
  <2> QED BY <2>11 DEF at
<1> QED BY <1>2, <1>3

-----------------------------------------------------------------------------
(* Walks *)

\* a is at b's place or before it.
NotAfter(s, a, b) == \E i, j \in Places(s) : i <= j /\ s[i] = a /\ s[j] = b

\* The walk w still comes by m.
Pending(s, w, m) ==
    \/ w.kind \in Forward /\ w.next # Nothing /\ NotAfter(s, w.next, m)
    \/ w.kind \in {"backward", "right"} /\ w.next # Nothing /\ NotAfter(s, m, w.next)
    \/ w.kind = "right" /\ w.node # Nothing /\ m # w.node /\ NotAfter(s, m, w.node)

WalkKinds == Forward \cup {"none", "threw", "backward", "right"}
WalkTypes(w, g) ==
    /\ w \in [kind : WalkKinds, node : Nodes \cup {Nothing}, next : Nodes \cup {Nothing}]
    /\ w.kind \in {"none", "threw"} => w = Over(w.kind)
    /\ g \in Seq(Nodes)

\* A walk w that has given g, when the nodes `stays` have stayed: it stands in the list, and what
\* stayed is either still to come or was given once.
WalkMeets(s, w, g, stays) ==
    /\ w.kind # "threw"
    /\ w.next # Nothing => \E i \in Places(s) : s[i] = w.next
    /\ w.kind = "right" /\ w.node # Nothing => w.next = Nothing /\ \E i \in Places(s) : s[i] = w.node
    /\ w.kind = "deleteAll" /\ w.next # Nothing => w.node # w.next
    /\ \A m \in stays :
          /\ \E i \in Places(s) : s[i] = m
          /\ Pending(s, w, m) => \A i \in Places(g) : g[i] # m
          /\ ~Pending(s, w, m) => \E i \in Places(g) : g[i] = m
          /\ \A i, j \in Places(g) : g[i] = m /\ g[j] = m => i = j

NodesAreSome == Nothing \notin Nodes

LinkInv == NodesAreSome /\ Ring(Order, _head, _next, _previous, attached, _size)

ListIInv == /\ LinkInv
            /\ WalkTypes(walk, given) /\ lost \in BOOLEAN /\ stayed \subseteq attached
            /\ ~lost => WalkMeets(Order, walk, given, stayed)

LEMMA SomeNodes == (LinkInv => NodesAreSome) /\ (ListIInv => NodesAreSome)
  BY DEF LinkInv, ListIInv

LEMMA NotAfterPlaces ==
    ASSUME NEW s, \A i, j \in Places(s) : s[i] = s[j] => i = j,
           NEW p \in Places(s), NEW q \in Places(s)
    PROVE  NotAfter(s, s[p], s[q]) <=> p <= q
  BY DEF NotAfter

LEMMA InsertKeepsPlaces ==
    ASSUME NEW s \in Seq(Nodes), NEW x \in Nodes, NEW p \in 1 .. Len(s) + 1, NEW a, NEW b,
           a # x, b # x
    PROVE  /\ (\E i \in Places(s) : s[i] = a) => \E i \in Places(InsertAt(s, p, x)) : InsertAt(s, p, x)[i] = a
           /\ NotAfter(InsertAt(s, p, x), a, b) <=> NotAfter(s, a, b)
<1> DEFINE t == InsertAt(s, p, x)
           up(i) == IF i < p THEN i ELSE i + 1
           down(i) == IF i < p THEN i ELSE i - 1
<1>1. /\ Len(s) \in Nat /\ Len(t) = Len(s) + 1
      /\ \A j \in 1 .. Len(s) + 1 : t[j] = IF j < p THEN s[j] ELSE IF j = p THEN x ELSE s[j - 1]
  <2>1. /\ Len(InsertAt(s, p, x)) = Len(s) + 1
        /\ \A j \in 1 .. Len(s) + 1 : InsertAt(s, p, x)[j] =
                 IF j < p THEN s[j] ELSE IF j = p THEN x ELSE s[j - 1]
    BY InsertAtIs
  <2> HIDE DEF t
  <2> QED BY <2>1 DEF t
<1> HIDE DEF t
<1>2. ASSUME NEW i \in Places(s) PROVE up(i) \in Places(t) /\ t[up(i)] = s[i]
  <2>1. CASE i < p
    BY <1>1, <2>1 DEF Places
  <2>2. CASE i >= p
    BY <1>1, <2>2 DEF Places
  <2> QED BY <1>1, <2>1, <2>2 DEF Places
<1>3. ASSUME NEW i \in Places(t), t[i] # x PROVE down(i) \in Places(s) /\ s[down(i)] = t[i]
  BY <1>1, <1>3 DEF Places
<1>4. \A i, j \in Places(s) : i <= j => up(i) <= up(j)
  BY <1>1 DEF Places
<1>5. \A i, j \in Places(t) : i <= j /\ i # p /\ j # p => down(i) <= down(j)
  BY <1>1 DEF Places
<1>6. p \in Places(t) /\ t[p] = x
  BY <1>1 DEF Places
<1> HIDE DEF up, down
<1>7. (\E i \in Places(s) : s[i] = a) => \E i \in Places(t) : t[i] = a
  BY <1>2
<1>8. ASSUME NotAfter(s, a, b) PROVE NotAfter(t, a, b)
  <2>1. PICK i, j \in Places(s) : i <= j /\ s[i] = a /\ s[j] = b
    BY <1>8 DEF NotAfter
  <2> QED BY <1>2, <1>4, <2>1 DEF NotAfter
<1>9. ASSUME NotAfter(t, a, b) PROVE NotAfter(s, a, b)
  <2>1. PICK i, j \in Places(t) : i <= j /\ t[i] = a /\ t[j] = b
    BY <1>9 DEF NotAfter
  <2> QED BY <1>3, <1>5, <1>6, <2>1 DEF NotAfter
<1> QED BY <1>7, <1>8, <1>9 DEF t

LEMMA RemoveKeepsPlaces ==
    ASSUME NEW s \in Seq(Nodes), \A i, j \in Places(s) : s[i] = s[j] => i = j,
           NEW p \in Places(s), NEW a, NEW b, a # s[p], b # s[p]
    PROVE  /\ (\E i \in Places(s) : s[i] = a) => \E i \in Places(RemoveAt(s, p)) : RemoveAt(s, p)[i] = a
           /\ NotAfter(RemoveAt(s, p), a, b) <=> NotAfter(s, a, b)
<1> DEFINE t == RemoveAt(s, p)
           up(i) == IF i < p THEN i ELSE i + 1
           down(i) == IF i < p THEN i ELSE i - 1
<1>1. /\ Len(s) \in Nat /\ Len(t) = Len(s) - 1 /\ p \in 1 .. Len(s)
      /\ \A j \in 1 .. Len(s) - 1 : t[j] = IF j < p THEN s[j] ELSE s[j + 1]
  <2>1. p \in 1 .. Len(s)
    BY DEF Places
  <2> QED BY <2>1, RemoveAtIs
<1> HIDE DEF t
<1>2. ASSUME NEW i \in Places(t) PROVE up(i) \in Places(s) /\ s[up(i)] = t[i]
  BY <1>1 DEF Places
<1>3. ASSUME NEW i \in Places(s), i # p PROVE down(i) \in Places(t) /\ t[down(i)] = s[i]
  BY <1>1, <1>3 DEF Places
<1>4. \A i, j \in Places(t) : i <= j => up(i) <= up(j)
  BY <1>1 DEF Places
<1>5. \A i, j \in Places(s) : i <= j /\ i # p /\ j # p => down(i) <= down(j)
  BY <1>1 DEF Places
<1> HIDE DEF up, down
<1>7. (\E i \in Places(s) : s[i] = a) => \E i \in Places(t) : t[i] = a
  BY <1>3
<1>8. ASSUME NotAfter(t, a, b) PROVE NotAfter(s, a, b)
  <2>1. PICK i, j \in Places(t) : i <= j /\ t[i] = a /\ t[j] = b
    BY <1>8 DEF NotAfter
  <2> QED BY <1>2, <1>4, <2>1 DEF NotAfter
<1>9. ASSUME NotAfter(s, a, b) PROVE NotAfter(t, a, b)
  <2>1. PICK i, j \in Places(s) : i <= j /\ s[i] = a /\ s[j] = b
    BY <1>9 DEF NotAfter
  <2>2. i # p /\ j # p
    BY <2>1
  <2> QED BY <1>3, <1>5, <2>1, <2>2 DEF NotAfter
<1> QED BY <1>7, <1>8, <1>9 DEF t

\* What the walk w has read and goes on from (LinkedList.Awaited).
AwaitedBy(w) == (IF w.kind = "right" THEN {w.node, w.next} ELSE {w.next}) \ {Nothing}

\* A walk goes on unimpaired when the list changes elsewhere.
LEMMA WalkSurvives ==
    ASSUME NEW s, NEW t, NEW w, NEW g, NEW stays, NEW rest \in SUBSET stays,
           WalkTypes(w, g), WalkMeets(s, w, g, stays),
           \A a \in rest \cup AwaitedBy(w) : \E i \in Places(t) : t[i] = a,
           \A a, b \in rest \cup AwaitedBy(w) : NotAfter(s, a, b) <=> NotAfter(t, a, b)
    PROVE  WalkMeets(t, w, g, rest)
<1>1. /\ w.kind # "threw"
      /\ w.kind = "right" /\ w.node # Nothing => w.next = Nothing
      /\ w.kind = "deleteAll" /\ w.next # Nothing => w.node # w.next
  BY DEF WalkMeets
<1>2. /\ w.next # Nothing => w.next \in AwaitedBy(w)
      /\ w.kind = "right" /\ w.node # Nothing => w.node \in AwaitedBy(w)
  BY DEF AwaitedBy
<1>3. /\ w.next # Nothing => \E i \in Places(t) : t[i] = w.next
      /\ w.kind = "right" /\ w.node # Nothing => \E i \in Places(t) : t[i] = w.node
  BY <1>2
<1>4. ASSUME NEW m \in rest
      PROVE  /\ \E i \in Places(t) : t[i] = m
             /\ Pending(t, w, m) => \A i \in Places(g) : g[i] # m
             /\ ~Pending(t, w, m) => \E i \in Places(g) : g[i] = m
             /\ \A i, j \in Places(g) : g[i] = m /\ g[j] = m => i = j
  <2>1. Pending(s, w, m) <=> Pending(t, w, m)
    BY <1>2, <1>4 DEF Pending
  <2>2. m \in stays /\ \E i \in Places(t) : t[i] = m
    BY <1>4
  <2> QED BY <2>1, <2>2 DEF WalkMeets
<1> QED BY <1>1, <1>3, <1>4 DEF WalkMeets

\* A walk gives the node n, and stands as v afterwards.
LEMMA WalkGives ==
    ASSUME NEW s, NEW w, NEW v, NEW g \in Seq(Nodes), NEW n \in Nodes, NEW stays, WalkMeets(s, w, g, stays),
           /\ v.kind # "threw"
           /\ v.next # Nothing => \E i \in Places(s) : s[i] = v.next
           /\ v.kind = "right" /\ v.node # Nothing => v.next = Nothing /\ \E i \in Places(s) : s[i] = v.node
           /\ v.kind = "deleteAll" /\ v.next # Nothing => v.node # v.next,
           n \in stays => Pending(s, w, n),
           \A m \in stays : Pending(s, v, m) <=> Pending(s, w, m) /\ m # n
    PROVE  WalkMeets(s, v, Append(g, n), stays)
<1> DEFINE k == Append(g, n)
<1>1. /\ Len(g) \in Nat /\ Places(k) = Places(g) \cup {Len(g) + 1} /\ k[Len(g) + 1] = n
      /\ Len(g) + 1 \notin Places(g) /\ \A i \in Places(g) : k[i] = g[i]
  BY DEF Places
<1> HIDE DEF k
<1>2. ASSUME NEW m \in stays
      PROVE  /\ \E i \in Places(s) : s[i] = m
             /\ Pending(s, v, m) => \A i \in Places(k) : k[i] # m
             /\ ~Pending(s, v, m) => \E i \in Places(k) : k[i] = m
             /\ \A i, j \in Places(k) : k[i] = m /\ k[j] = m => i = j
  <2>1. /\ \E i \in Places(s) : s[i] = m
        /\ Pending(s, w, m) => \A i \in Places(g) : g[i] # m
        /\ ~Pending(s, w, m) => \E i \in Places(g) : g[i] = m
        /\ \A i, j \in Places(g) : g[i] = m /\ g[j] = m => i = j
    BY <1>2 DEF WalkMeets
  <2>2. Pending(s, v, m) <=> Pending(s, w, m) /\ m # n
    BY <1>2
  <2>3. CASE m = n
    BY <2>1, <2>3, <1>1, <2>2
  <2>4. CASE m # n
    BY <1>1, <2>1, <2>2, <2>4
  <2> QED BY <2>3, <2>4
<1>3. WalkMeets(s, v, k, stays)
  BY <1>2 DEF WalkMeets
<1> QED BY <1>3 DEF k

LEMMA OrderIs ==
    ASSUME NEW s, Ring(s, _head, _next, _previous, attached, _size)
    PROVE  Order = s
  BY RingOrder DEF Order, first

LEMMA OrderIsNow ==
    ASSUME NodesAreSome, NEW s, Ring(s, _head', _next', _previous', attached', _size')
    PROVE  Order' = s /\ LinkInv'
<1>1. Order' = s
  BY RingOrder DEF Order, first
<1> QED BY <1>1 DEF LinkInv, NodesAreSome

\* What the circle says of its order, in one place.
LEMMA LinkFacts ==
    ASSUME LinkInv
    PROVE  LET s == Order
           IN /\ s \in Seq(Nodes) /\ Len(s) \in Nat /\ _size = Len(s)
              /\ attached = {s[i] : i \in Places(s)} /\ attached \subseteq Nodes
              /\ _head = (IF s = <<>> THEN Nothing ELSE s[1])
              /\ s = <<>> <=> _head = Nothing
              /\ s # <<>> <=> Len(s) > 0
              /\ _next \in [Nodes -> Nodes \cup {Nothing}] /\ _previous \in [Nodes -> Nodes \cup {Nothing}]
              /\ \A i, j \in Places(s) : s[i] = s[j] => i = j
              /\ \A i \in Places(s) : _next[s[i]] = Succ(s, i) /\ _previous[s[i]] = Pred(s, i) /\ s[i] \in Nodes
<1> DEFINE s == Order
<1>1. Ring(s, _head, _next, _previous, attached, _size)
  BY DEF LinkInv
<1> HIDE DEF s
<1>2. /\ s \in Seq(Nodes) /\ Len(s) \in Nat /\ _size = Len(s)
      /\ attached = {s[i] : i \in Places(s)}
      /\ _head = IF s = <<>> THEN Nothing ELSE s[1]
      /\ _next \in [Nodes -> Nodes \cup {Nothing}] /\ _previous \in [Nodes -> Nodes \cup {Nothing}]
      /\ \A i, j \in Places(s) : s[i] = s[j] => i = j
      /\ \A i \in Places(s) : _next[s[i]] = Succ(s, i) /\ _previous[s[i]] = Pred(s, i)
  BY <1>1 DEF Ring
<1>3. \A i \in Places(s) : s[i] \in Nodes
  BY <1>2 DEF Places
<1>4. s # <<>> <=> Len(s) > 0
  BY <1>2
<1>5. s # <<>> => s[1] \in Nodes
  BY <1>2, <1>4
<1>6. s = <<>> <=> _head = Nothing
  BY <1>2, <1>5 DEF LinkInv, NodesAreSome
<1> QED BY <1>2, <1>3, <1>4, <1>6 DEF s

\* Where is the place of a node of the list.
LEMMA WherePlaces ==
    ASSUME LinkInv, NEW n \in attached
    PROVE  Where(n) \in Places(Order) /\ Order[Where(n)] = n
<1> DEFINE s == Order
<1>1. s \in Seq(Nodes) /\ \E i \in Places(s) : s[i] = n
  BY LinkFacts
<1> HIDE DEF s
<1>2. DOMAIN s = Places(s)
  BY <1>1 DEF Places
<1>3. Where(n) = CHOOSE i \in DOMAIN s : s[i] = n
  BY DEF Where, s
<1> QED BY <1>1, <1>2, <1>3 DEF s

\* Where _insertNode puts a node.
Spot(adjacent, position) ==
    IF Order = <<>> THEN 1
    ELSE IF position = "before" THEN IF adjacent = Nothing THEN 1 ELSE Where(adjacent)
    ELSE IF adjacent = Nothing THEN Len(Order) + 1 ELSE Where(adjacent) + 1

LEMMA InsertSteps ==
    ASSUME LinkInv, NEW new \in Nodes, NEW adjacent \in attached \cup {Nothing},
           NEW position \in {"before", "after"}, insertNode(adjacent, new, position)
    PROVE  /\ new \notin attached /\ Spot(adjacent, position) \in 1 .. Len(Order) + 1
           /\ Order' = InsertAt(Order, Spot(adjacent, position), new)
           /\ LinkInv' /\ attached' = attached \cup {new}
<1> DEFINE s == Order
           p == Spot(adjacent, position)
<1>1. /\ s \in Seq(Nodes) /\ Len(s) \in Nat /\ _size = Len(s)
      /\ _head = (IF s = <<>> THEN Nothing ELSE s[1])
      /\ s = <<>> <=> _head = Nothing
      /\ s # <<>> <=> Len(s) > 0
      /\ \A i, j \in Places(s) : s[i] = s[j] => i = j
      /\ \A i \in Places(s) : _next[s[i]] = Succ(s, i) /\ _previous[s[i]] = Pred(s, i)
  BY LinkFacts
<1>2. Ring(s, _head, _next, _previous, attached, _size)
  BY DEF LinkInv
<1>3. adjacent # Nothing => Where(adjacent) \in Places(s) /\ s[Where(adjacent)] = adjacent
  BY WherePlaces
<1>4. new \notin attached /\ attached' = attached \cup {new} /\ _size' = _size + 1
  BY DEF insertNode
<1> HIDE DEF s
<1>5. CASE s = <<>>
  <2>1. p = 1
    BY <1>5 DEF Spot, s
  <2>2. _head' = new /\ _next' = [_next EXCEPT ![new] = new] /\ _previous' = [_previous EXCEPT ![new] = new]
    BY <1>1, <1>5 DEF insertNode, Alone
  <2>3. Ring(<<new>>, _head', _next', _previous', attached', _size')
    BY <1>2, <1>4, <1>5, <2>2, RingStarts
  <2>4. InsertAt(s, 1, new) = <<new>>
    <3>1. SubSeq(<<>>, 1, 1 - 1) = <<>> /\ SubSeq(<<>>, 1, Len(<<>>)) = <<>>
      OBVIOUS
    <3>2. (<<>> \o <<new>>) \o <<>> = <<new>>
      OBVIOUS
    <3> QED BY <1>5, <3>1, <3>2 DEF InsertAt
  <2>5. Order' = <<new>> /\ LinkInv'
    BY <1>1, <2>3, OrderIsNow, SomeNodes
  <2>6. p \in 1 .. Len(s) + 1
    BY <1>1, <2>1
  <2>7. Order' = InsertAt(s, p, new)
    BY <2>1, <2>4, <2>5
  <2> HIDE DEF p
  <2> QED BY <1>4, <2>5, <2>6, <2>7 DEF s, p
<1>6. CASE s # <<>>
  <2> DEFINE pred == IF p = 1 THEN s[Len(s)] ELSE s[p - 1]
             succ == IF p = Len(s) + 1 THEN s[1] ELSE s[p]
  <2>1. Len(s) > 0 /\ _head = s[1] /\ _head # Nothing /\ 1 \in Places(s) /\ Len(s) \in Places(s)
    BY <1>1, <1>6 DEF Places
  <2>2. _previous[_head] = s[Len(s)]
    BY <1>1, <2>1 DEF Pred
  <2>3. p \in 1 .. Len(s) + 1
    BY <1>1, <1>3, <1>6, <2>1 DEF Spot, s, Places
  <2>4. /\ _head' = (IF p = 1 THEN new ELSE _head)
        /\ _next' = [_next EXCEPT ![new] = succ, ![pred] = new]
        /\ _previous' = [_previous EXCEPT ![new] = pred, ![succ] = new]
    <3>1. CASE position = "before"
      <4> DEFINE at == IF adjacent = Nothing THEN _head ELSE adjacent
      <4>1. p \in Places(s) /\ s[p] = at /\ p # Len(s) + 1
        BY <1>1, <1>3, <1>6, <2>1, <3>1 DEF Spot, s, Places
      <4>2. pred = _previous[at] /\ succ = at
        BY <1>1, <4>1 DEF Pred
      <4>3. at = _head <=> p = 1
        BY <1>1, <2>1, <4>1
      <4>4. /\ _next' = [_next EXCEPT ![new] = at, ![_previous[at]] = new]
            /\ _previous' = [_previous EXCEPT ![new] = _previous[at], ![at] = new]
            /\ _head' = IF at = _head THEN new ELSE _head
        BY <2>1, <3>1 DEF insertNode, Between
      <4> HIDE DEF at, p, pred, succ
      <4> QED BY <4>2, <4>3, <4>4
    <3>2. CASE position = "after"
      <4> DEFINE at == IF adjacent = Nothing THEN _previous[_head] ELSE adjacent
      <4>1. p - 1 \in Places(s) /\ s[p - 1] = at /\ p # 1
        BY <1>1, <1>3, <1>6, <2>1, <2>2, <3>2 DEF Spot, s, Places
      <4>2. pred = at
        BY <4>1
      <4>3. succ = _next[at]
        <5>1. _next[at] = Succ(s, p - 1)
          BY <1>1, <4>1
        <5>2. CASE p - 1 = Len(s)
          BY <1>1, <2>3, <5>1, <5>2 DEF Succ
        <5>3. CASE p - 1 # Len(s)
          BY <1>1, <2>3, <5>3, <5>1 DEF Succ
        <5> QED BY <5>2, <5>3
      <4>4. /\ _next' = [_next EXCEPT ![new] = _next[at], ![at] = new]
            /\ _previous' = [_previous EXCEPT ![new] = at, ![_next[at]] = new]
            /\ _head' = _head
        BY <2>1, <3>2 DEF insertNode, Between, last
      <4> HIDE DEF at, p, pred, succ
      <4> QED BY <4>1, <4>2, <4>3, <4>4
    <3> QED BY <3>1, <3>2
  <2>5. Ring(InsertAt(s, p, new), _head', _next', _previous', attached', _size')
    <3> HIDE DEF p
    <3>1. /\ pred = IF p = 1 THEN s[Len(s)] ELSE s[p - 1]
          /\ succ = IF p = Len(s) + 1 THEN s[1] ELSE s[p]
      OBVIOUS
    <3> HIDE DEF pred, succ
    <3>2. Ring(InsertAt(s, p, new), IF p = 1 THEN new ELSE _head,
               [_next EXCEPT ![new] = succ, ![pred] = new],
               [_previous EXCEPT ![new] = pred, ![succ] = new], attached \cup {new}, _size + 1)
      BY <1>2, <1>4, <1>6, <2>3, <3>1, RingInserts
    <3> QED BY <1>4, <2>4, <3>2
  <2> HIDE DEF p
  <2>6. Order' = InsertAt(s, p, new) /\ LinkInv'
    BY <1>1, <2>5, OrderIsNow, SomeNodes
  <2> QED BY <1>4, <2>3, <2>6 DEF s, p
<1> QED BY <1>5, <1>6

\* _deleteNode
LEMMA DeleteSteps ==
    ASSUME LinkInv, NEW n \in attached, deleteNode(n)
    PROVE  /\ Order' = RemoveAt(Order, Where(n))
           /\ LinkInv' /\ attached' = attached \ {n}
<1> DEFINE s == Order
           p == Where(n)
<1>1. s \in Seq(Nodes)
  BY LinkFacts
<1>2. Ring(s, _head, _next, _previous, attached, _size)
  BY DEF LinkInv
<1>3. p \in Places(s) /\ s[p] = n
  BY WherePlaces
<1>4. attached' = attached \ {n} /\ _size' = _size - 1
  BY DEF deleteNode
<1> HIDE DEF s, p
<1>5. CASE _next[n] = n
  <2>1. /\ Len(s) = 1
        /\ Ring(<<>>, Nothing, [_next EXCEPT ![n] = Nothing], [_previous EXCEPT ![n] = Nothing],
                attached \ {n}, _size - 1)
    <3>1. n \in attached
      OBVIOUS
    <3> QED BY <1>2, <1>5, <3>1, RingEnds
  <2>2. /\ _head' = Nothing /\ _next' = [_next EXCEPT ![n] = Nothing]
        /\ _previous' = [_previous EXCEPT ![n] = Nothing]
    BY <1>5 DEF deleteNode
  <2>3. Ring(<<>>, _head', _next', _previous', attached', _size')
    BY <1>4, <2>1, <2>2
  <2>4. RemoveAt(s, p) = <<>>
    <3>1. p \in 1 .. Len(s) /\ Len(s) = 1
      BY <1>3, <2>1 DEF Places
    <3>2. RemoveAt(s, p) \in Seq(Nodes) /\ Len(RemoveAt(s, p)) = Len(s) - 1
      BY <1>1, <3>1, RemoveAtIs
    <3> QED BY <3>1, <3>2
  <2> QED BY <1>1, <1>4, <2>3, <2>4, OrderIsNow, SomeNodes DEF s, p
<1>6. CASE _next[n] # n
  <2>1. /\ _head' = (IF _head = n THEN _next[n] ELSE _head)
        /\ _next' = [_next EXCEPT ![_previous[n]] = _next[n], ![n] = Nothing]
        /\ _previous' = [_previous EXCEPT ![_next[n]] = _previous[n], ![n] = Nothing]
    BY <1>6 DEF deleteNode
  <2>2. Ring(RemoveAt(s, p), IF _head = n THEN _next[n] ELSE _head,
             [_next EXCEPT ![_previous[n]] = _next[n], ![n] = Nothing],
             [_previous EXCEPT ![_next[n]] = _previous[n], ![n] = Nothing], attached \ {n}, _size - 1)
    BY <1>2, <1>3, <1>6, RingRemoves
  <2>3. Ring(RemoveAt(s, p), _head', _next', _previous', attached', _size')
    BY <1>4, <2>1, <2>2
  <2> QED BY <1>1, <1>4, <2>3, OrderIsNow, SomeNodes DEF s, p
<1> QED BY <1>5, <1>6

\* node.next and node.previous of a node in its place.
LEMMA NeighboursAre ==
    ASSUME LinkInv, NEW p \in Places(Order)
    PROVE  LET s == Order
           IN /\ next(s[p]) = IF p = Len(s) THEN Nothing ELSE s[p + 1]
              /\ previous(s[p]) = IF p = 1 THEN Nothing ELSE s[p - 1]
<1> DEFINE s == Order
<1>1. /\ Len(s) \in Nat /\ _head = (IF s = <<>> THEN Nothing ELSE s[1])
      /\ s # <<>> <=> Len(s) > 0
      /\ attached = {s[i] : i \in Places(s)}
      /\ \A i, j \in Places(s) : s[i] = s[j] => i = j
      /\ \A i \in Places(s) : _next[s[i]] = Succ(s, i) /\ _previous[s[i]] = Pred(s, i)
  BY LinkFacts
<1>2. p \in Places(s)
  OBVIOUS
<1> HIDE DEF s
<1>3. _head = s[1] /\ 1 \in Places(s) /\ s[p] \in attached
  BY <1>1, <1>2 DEF Places
<1>4. p # Len(s) => p + 1 \in Places(s) /\ p + 1 # 1
  BY <1>1, <1>2 DEF Places
<1>5. p # 1 => p - 1 \in Places(s)
  BY <1>1, <1>2 DEF Places
<1>6. next(s[p]) = IF p = Len(s) THEN Nothing ELSE s[p + 1]
  BY <1>3, <1>1, <1>2, <1>4 DEF next, first, Succ
<1>7. previous(s[p]) = IF p = 1 THEN Nothing ELSE s[p - 1]
  BY <1>1, <1>2, <1>3 DEF Pred, previous, first
<1> QED BY <1>6, <1>7 DEF s

LEMMA NeighbourTypes ==
    ASSUME LinkInv, NEW n
    PROVE  next(n) \in Nodes \cup {Nothing} /\ previous(n) \in Nodes \cup {Nothing}
BY LinkFacts DEF next, previous

-----------------------------------------------------------------------------
(* What is still to come, before and after a node is given. *)

LEMMA ForwardPending ==
    ASSUME NodesAreSome, NEW s \in Seq(Nodes), \A i, j \in Places(s) : s[i] = s[j] => i = j,
           NEW p \in Places(s), NEW w, NEW v, w.kind \in Forward, v.kind = w.kind,
           w.next = s[p], v.next = IF p = Len(s) THEN Nothing ELSE s[p + 1]
    PROVE  \A q \in Places(s) : /\ Pending(s, w, s[q]) <=> p <= q
                                /\ Pending(s, v, s[q]) <=> p < q
<1> TAKE q \in Places(s)
<1>1. s[p] # Nothing /\ p \in 1 .. Len(s) /\ q \in 1 .. Len(s) /\ Len(s) \in Nat
  BY DEF NodesAreSome, Places
<1>2. w.kind \notin {"backward", "right"}
  BY DEF Forward
<1>3. Pending(s, w, s[q]) <=> p <= q
  BY NotAfterPlaces, <1>1, <1>2 DEF Pending
<1>4. CASE p = Len(s)
  BY <1>1, <1>2, <1>3, <1>4 DEF Pending
<1>5. CASE p # Len(s)
  BY <1>1, <1>5, NotAfterPlaces, <1>2, <1>3 DEF Places, NodesAreSome, Pending
<1> QED BY <1>4, <1>5

LEMMA BackwardPending ==
    ASSUME NodesAreSome, NEW s \in Seq(Nodes), \A i, j \in Places(s) : s[i] = s[j] => i = j,
           NEW p \in Places(s), NEW w, NEW v, w.kind = "backward", v.kind = w.kind,
           w.next = s[p], v.next = IF p = 1 THEN Nothing ELSE s[p - 1]
    PROVE  \A q \in Places(s) : /\ Pending(s, w, s[q]) <=> q <= p
                                /\ Pending(s, v, s[q]) <=> q < p
<1> TAKE q \in Places(s)
<1>1. s[p] # Nothing /\ p \in 1 .. Len(s) /\ q \in 1 .. Len(s) /\ Len(s) \in Nat
  BY DEF NodesAreSome, Places
<1>2. w.kind \notin Forward
  BY DEF Forward
<1>3. Pending(s, w, s[q]) <=> q <= p
  BY NotAfterPlaces, <1>1, <1>2 DEF Pending
<1>4. CASE p = 1
  BY <1>1, <1>2, <1>3, <1>4 DEF Pending
<1>5. CASE p # 1
  BY <1>1, <1>5, NotAfterPlaces, <1>2, <1>3 DEF Places, NodesAreSome, Pending
<1> QED BY <1>4, <1>5

LEMMA RightPending ==
    ASSUME NodesAreSome, NEW s \in Seq(Nodes), \A i, j \in Places(s) : s[i] = s[j] => i = j,
           NEW p \in Places(s), NEW w, w.kind = "right"
    PROVE  /\ w.node = Nothing /\ w.next = s[p] =>
                 \A q \in Places(s) : Pending(s, w, s[q]) <=> q <= p
           /\ w.node = s[p] /\ w.next = Nothing =>
                 \A q \in Places(s) : Pending(s, w, s[q]) <=> q < p
<1>1. w.kind \notin Forward
  BY DEF Forward
<1>2. s[p] # Nothing
  BY DEF NodesAreSome, Places
<1>3. \A q \in Places(s) : NotAfter(s, s[q], s[p]) <=> q <= p
  BY NotAfterPlaces
<1>4. ASSUME NEW q \in Places(s), w.node = Nothing, w.next = s[p]
      PROVE  Pending(s, w, s[q]) <=> q <= p
  BY <1>1, <1>2, <1>3, <1>4 DEF Pending
<1>5. ASSUME NEW q \in Places(s), w.node = s[p], w.next = Nothing
      PROVE  Pending(s, w, s[q]) <=> q < p
  BY <1>1, <1>2, <1>5, <1>3 DEF Pending, Places
<1> QED BY <1>4, <1>5

-----------------------------------------------------------------------------
LEMMA ListStarts == NodesAreSome /\ Init => ListIInv
<1> SUFFICES ASSUME NodesAreSome, Init PROVE ListIInv
  OBVIOUS
<1>1. /\ _head = Nothing /\ _previous = [n \in Nodes |-> Nothing] /\ _next = [n \in Nodes |-> Nothing]
      /\ attached = {} /\ _size = 0 /\ walk = Over("none") /\ given = <<>> /\ stayed = {}
      /\ lost = FALSE
  BY DEF Init
<1>2. Ring(<<>>, _head, _next, _previous, attached, _size)
  BY <1>1 DEF Ring, Places
<1>3. Order = <<>>
  BY <1>2, OrderIs
<1>4. LinkInv
  BY <1>2, <1>3 DEF LinkInv
<1>5. walk = [kind |-> "none", node |-> Nothing, next |-> Nothing]
  BY <1>1 DEF Over
<1>6. WalkTypes(walk, given)
  BY <1>1, <1>5 DEF WalkTypes, WalkKinds
<1>7. WalkMeets(Order, walk, given, stayed)
  BY <1>1, <1>5 DEF WalkMeets
<1> QED BY <1>1, <1>4, <1>6, <1>7 DEF ListIInv

\* Pieces of the invariant, for a state and for the next one.
LEMMA WalkKept ==
    ASSUME ListIInv, LinkInv', NEW rest \in SUBSET stayed,
           walk' = walk, given' = given, stayed' = rest, lost' \in BOOLEAN, rest \subseteq attached',
           ~lost' => /\ ~lost
                     /\ \A a \in rest \cup AwaitedBy(walk) :
                           \E i \in Places(Order') : Order'[i] = a
                     /\ \A a, b \in rest \cup AwaitedBy(walk) :
                           NotAfter(Order, a, b) <=> NotAfter(Order', a, b)
    PROVE  ListIInv'
<1>1. WalkTypes(walk, given) /\ WalkTypes(walk', given')
  BY DEF ListIInv
<1>2. ASSUME ~lost' PROVE WalkMeets(Order', walk, given, rest)
  BY <1>2, <1>1, WalkSurvives DEF ListIInv
<1>3. ~lost' => WalkMeets(Order', walk', given', stayed')
  BY <1>2
<1> QED BY <1>1, <1>3 DEF ListIInv

\* What the walk and the history speak of is in the list.
LEMMA WalkAttached ==
    ASSUME ListIInv, ~lost
    PROVE  \A a \in stayed \cup AwaitedBy(walk) :
              a \in attached /\ \E i \in Places(Order) : Order[i] = a
BY LinkFacts DEF ListIInv, WalkMeets, AwaitedBy

LEMMA InsertionKeeps ==
    ASSUME ListIInv, NEW new \in Nodes, NEW adjacent \in attached \cup {Nothing},
           NEW position \in {"before", "after"}, insertNode(adjacent, new, position),
           UNCHANGED <<walk, given, stayed, lost>>
    PROVE  ListIInv'
<1> DEFINE s == Order
           p == Spot(adjacent, position)
<1>0. LinkInv /\ stayed \subseteq attached /\ lost \in BOOLEAN
  BY DEF ListIInv
<1>1. /\ new \notin attached /\ p \in 1 .. Len(s) + 1
      /\ Order' = InsertAt(s, p, new)
      /\ LinkInv' /\ attached' = attached \cup {new}
  BY <1>0, InsertSteps
<1>2. s \in Seq(Nodes)
  BY <1>0, LinkFacts
<1>3. /\ walk' = walk /\ given' = given /\ stayed' = stayed /\ lost' = lost
      /\ stayed \subseteq attached' /\ lost' \in BOOLEAN
  BY <1>0, <1>1
<1>4. ASSUME ~lost
      PROVE  /\ \A a \in stayed \cup AwaitedBy(walk) :
                   \E i \in Places(Order') : Order'[i] = a
             /\ \A a, b \in stayed \cup AwaitedBy(walk) :
                   NotAfter(s, a, b) <=> NotAfter(Order', a, b)
  <2> HIDE DEF s, p
  <2>1. \A a \in stayed \cup AwaitedBy(walk) : a # new /\ \E i \in Places(s) : s[i] = a
    BY <1>1, <1>4, WalkAttached DEF s
  <2>2. ASSUME NEW a \in stayed \cup AwaitedBy(walk), NEW b \in stayed \cup AwaitedBy(walk)
        PROVE  /\ \E i \in Places(InsertAt(s, p, new)) : InsertAt(s, p, new)[i] = a
               /\ NotAfter(s, a, b) <=> NotAfter(InsertAt(s, p, new), a, b)
    BY <1>1, <1>2, <2>1, <2>2, InsertKeepsPlaces
  <2> QED BY <1>1, <2>2
<1> HIDE DEF p
<1> QED BY <1>1, <1>3, <1>4, WalkKept

LEMMA DeletionKeeps ==
    ASSUME ListIInv, NEW n \in attached, Delete(n)
    PROVE  ListIInv'
<1> DEFINE s == Order
           p == Where(n)
<1>0. LinkInv /\ stayed \subseteq attached /\ lost \in BOOLEAN
  BY DEF ListIInv
<1>1. /\ Order' = RemoveAt(s, p)
      /\ LinkInv' /\ attached' = attached \ {n}
  BY <1>0, DeleteSteps DEF Delete
<1>2. s \in Seq(Nodes) /\ \A i, j \in Places(s) : s[i] = s[j] => i = j
  BY <1>0, LinkFacts
<1>3. p \in Places(s) /\ s[p] = n
  BY <1>0, WherePlaces
<1>4. /\ walk' = walk /\ given' = given /\ stayed' = stayed \ {n}
      /\ lost' = (lost \/ n \in Awaited)
  BY DEF Delete, Leaves
<1>5. stayed \ {n} \subseteq attached' /\ lost' \in BOOLEAN /\ stayed \ {n} \in SUBSET stayed
  BY <1>0, <1>1, <1>4
<1>6. ASSUME ~lost'
      PROVE  /\ ~lost
             /\ \A a \in (stayed \ {n}) \cup AwaitedBy(walk) :
                   \E i \in Places(Order') : Order'[i] = a
             /\ \A a, b \in (stayed \ {n}) \cup AwaitedBy(walk) :
                   NotAfter(s, a, b) <=> NotAfter(Order', a, b)
  <2> HIDE DEF s, p
  <2>1. ~lost /\ n \notin Awaited
    BY <1>0, <1>4, <1>6
  <2>2. n \notin AwaitedBy(walk)
    BY <2>1 DEF Awaited, AwaitedBy
  <2>3. \A a \in (stayed \ {n}) \cup AwaitedBy(walk) : a # s[p] /\ \E i \in Places(s) : s[i] = a
    BY <1>3, <2>1, <2>2, WalkAttached DEF s
  <2>4. ASSUME NEW a \in (stayed \ {n}) \cup AwaitedBy(walk), NEW b \in (stayed \ {n}) \cup AwaitedBy(walk)
        PROVE  /\ \E i \in Places(RemoveAt(s, p)) : RemoveAt(s, p)[i] = a
               /\ NotAfter(s, a, b) <=> NotAfter(RemoveAt(s, p), a, b)
    <3>1. a # s[p] /\ b # s[p] /\ \E i \in Places(s) : s[i] = a
      BY <2>3, <2>4
    <3>2. s \in Seq(Nodes) /\ p \in Places(s)
      BY <1>2, <1>3
    <3>3. \A i, j \in Places(s) : s[i] = s[j] => i = j
      BY <1>2
    <3>4. /\ (\E i \in Places(s) : s[i] = a) => \E i \in Places(RemoveAt(s, p)) : RemoveAt(s, p)[i] = a
          /\ NotAfter(RemoveAt(s, p), a, b) <=> NotAfter(s, a, b)
      BY <3>1, <3>2, <3>3, RemoveKeepsPlaces
    <3> QED BY <3>1, <3>4
  <2>5. \A a \in (stayed \ {n}) \cup AwaitedBy(walk) : \E i \in Places(Order') : Order'[i] = a
    BY <1>1, <2>4
  <2>6. \A a, b \in (stayed \ {n}) \cup AwaitedBy(walk) : NotAfter(s, a, b) <=> NotAfter(Order', a, b)
    BY <1>1, <2>4
  <2> QED BY <2>1, <2>5, <2>6, Zenon
<1> HIDE DEF p
<1> QED BY <1>1, <1>4, <1>5, <1>6, WalkKept

LEMMA ClearKeeps == ListIInv /\ Clear => ListIInv'
<1> SUFFICES ASSUME ListIInv, Clear PROVE ListIInv'
  OBVIOUS
<1>1. /\ _head' = Nothing /\ attached' = {} /\ _size' = 0
      /\ _next' = [n \in Nodes |-> Nothing] /\ _previous' = [n \in Nodes |-> Nothing]
      /\ walk' = walk /\ given' = given /\ stayed' = {}
      /\ lost' = (lost \/ Awaited # {Nothing})
  BY DEF Clear
<1>2. Ring(<<>>, _head', _next', _previous', attached', _size')
  BY <1>1 DEF Ring, Places
<1>3. LinkInv'
  BY <1>1, <1>2, OrderIsNow, SomeNodes
<1>4. lost \in BOOLEAN
  BY DEF ListIInv
<1>5. ~lost' => ~lost /\ AwaitedBy(walk) = {}
  BY <1>1, <1>4 DEF Awaited, AwaitedBy
<1>6. lost' \in BOOLEAN /\ {} \in SUBSET stayed /\ {} \subseteq attached'
  BY <1>1, <1>4
<1> QED BY <1>1, <1>3, <1>5, <1>6, WalkKept

LEMMA RingNext ==
    ASSUME NEW s, NEW h, NEW nx, NEW pv, NEW on, NEW n, Ring(s, h, nx, pv, on, n), NEW p \in Places(s)
    PROVE  /\ s[p] \in on /\ s[p] \in Nodes
           /\ (IF s[p] \in on /\ nx[s[p]] # h THEN nx[s[p]] ELSE Nothing)
                 = IF p = Len(s) THEN Nothing ELSE s[p + 1]
BY DEF Ring, Places, Succ

LEMMA TypesGiven ==
    ASSUME NEW w, NEW g, WalkTypes(w, g), w.kind \notin {"none", "threw"}, NEW n, n \in Nodes,
           NEW x, x \in Nodes \cup {Nothing}, NEW v,
           v = [kind |-> w.kind, node |-> n, next |-> x]
    PROVE  WalkTypes(v, Append(g, n)) /\ v.kind = w.kind /\ v.node = n /\ v.next = x
BY DEF WalkTypes

LEMMA ForwardGives ==
    ASSUME NodesAreSome, NEW s \in Seq(Nodes), \A i, j \in Places(s) : s[i] = s[j] => i = j,
           NEW p \in Places(s), NEW w, NEW g \in Seq(Nodes), NEW stays,
           w.kind \in Forward, w.next = s[p], WalkMeets(s, w, g, stays),
           NEW v, v.kind = w.kind, v.node = s[p], v.next = IF p = Len(s) THEN Nothing ELSE s[p + 1]
    PROVE  /\ WalkMeets(s, v, Append(g, s[p]), stays)
           /\ v.next # s[p]
<1>1. s[p] \in Nodes /\ s[p] # Nothing /\ p \in 1 .. Len(s) /\ Len(s) \in Nat
  BY DEF NodesAreSome, Places
<1>2. \A q \in Places(s) : /\ Pending(s, w, s[q]) <=> p <= q
                           /\ Pending(s, v, s[q]) <=> p < q
  BY <1>1, ForwardPending, SomeNodes
<1>3. \A m \in stays : \E q \in Places(s) : s[q] = m
  BY DEF WalkMeets
<1>4. \A q \in Places(s) : Pending(s, v, s[q]) <=> Pending(s, w, s[q]) /\ s[q] # s[p]
  <2> TAKE q \in Places(s)
  <2>1. p < q <=> p <= q /\ q # p
    BY <1>1 DEF Places
  <2>2. s[q] # s[p] <=> q # p
    OBVIOUS
  <2> QED BY <1>2, <2>1, <2>2
<1>5. \A m \in stays : Pending(s, v, m) <=> Pending(s, w, m) /\ m # s[p]
  BY <1>3, <1>4
<1>6. Pending(s, w, s[p])
  BY <1>1, <1>2
<1>7. p # Len(s) => p + 1 \in Places(s) /\ s[p + 1] # s[p]
  BY <1>1 DEF Places
<1>8. v.kind # "threw" /\ v.kind # "right"
  BY DEF Forward
<1>9. /\ v.next # Nothing => \E i \in Places(s) : s[i] = v.next
      /\ v.next # s[p]
  BY <1>1, <1>7
<1>10. WalkMeets(s, v, Append(g, s[p]), stays)
  BY <1>1, <1>5, <1>6, <1>8, <1>9, WalkGives
<1> QED BY <1>9, <1>10

LEMMA StartKeeps ==
    ASSUME ListIInv, NEW kind \in {"forward", "drain", "deleteAll", "backward", "right"}, Walk(kind)
    PROVE  ListIInv'
<1> DEFINE s == Order
<1>1. /\ walk' = [kind |-> kind, node |-> Nothing,
                  next |-> IF kind \in Forward THEN first ELSE last]
      /\ given' = <<>> /\ stayed' = attached /\ lost' = FALSE
      /\ UNCHANGED <<_head, _previous, _next, attached, _size>>
  BY DEF Walk, Over, nodes
<1>2. LinkInv
  BY DEF ListIInv
<1>3. /\ s \in Seq(Nodes) /\ Len(s) \in Nat
      /\ attached = {s[i] : i \in Places(s)}
      /\ _head = (IF s = <<>> THEN Nothing ELSE s[1])
      /\ s = <<>> <=> _head = Nothing
      /\ s # <<>> <=> Len(s) > 0
      /\ \A i, j \in Places(s) : s[i] = s[j] => i = j
      /\ \A i \in Places(s) : _previous[s[i]] = Pred(s, i) /\ s[i] \in Nodes
  BY <1>2, LinkFacts
<1>4. Ring(s, _head', _next', _previous', attached', _size')
  BY <1>1, <1>2 DEF LinkInv
<1>5. Order' = s /\ LinkInv'
  BY <1>1, <1>4, OrderIsNow, SomeNodes
<1> HIDE DEF s
<1>6. CASE s = <<>>
  <2>1. _head = Nothing /\ attached = {}
    BY <1>3, <1>6 DEF Places
  <2>2. walk' = [kind |-> kind, node |-> Nothing, next |-> Nothing]
    BY <1>1, <2>1 DEF first, last
  <2>3. kind \in WalkKinds /\ kind \notin {"none", "threw"}
    BY DEF WalkKinds, Forward
  <2>4. WalkTypes(walk', given')
    BY <1>1, <2>2, <2>3 DEF WalkTypes
  <2>5. WalkMeets(s, walk', given', stayed')
    BY <1>1, <2>1, <2>2, <2>3 DEF WalkMeets
  <2> QED BY <1>1, <1>5, <2>1, <2>4, <2>5 DEF ListIInv
<1>7. CASE s # <<>>
  <2> DEFINE p == IF kind \in Forward THEN 1 ELSE Len(s)
  <2>1. /\ p \in Places(s) /\ _head = s[1] /\ _head # Nothing /\ 1 \in Places(s) /\ Len(s) > 0
        /\ _previous[_head] = s[Len(s)]
    BY <1>3, <1>7 DEF Places, Pred
  <2>2. walk' = [kind |-> kind, node |-> Nothing, next |-> s[p]]
    BY <1>1, <2>1 DEF first, last
  <2>3. kind \in WalkKinds /\ kind \notin {"none", "threw"}
    BY DEF WalkKinds, Forward
  <2>4. WalkTypes(walk', given')
    BY <1>1, <1>3, <2>1, <2>2, <2>3 DEF WalkTypes
  <2>5. s[p] # Nothing
    BY <1>1, <1>3, <2>1, SomeNodes DEF NodesAreSome
  <2>6. ASSUME NEW q \in Places(s) PROVE Pending(s, walk', s[q])
    <3>1. q \in 1 .. Len(s) /\ (kind \in Forward => p = 1) /\ (kind \notin Forward => p = Len(s))
      BY DEF Places
    <3>2. NotAfter(s, s[p], s[q]) <=> p <= q
      BY <1>3, <2>1, NotAfterPlaces
    <3>3. NotAfter(s, s[q], s[p]) <=> q <= p
      BY <1>3, <2>1, NotAfterPlaces
    <3>4. kind \notin Forward => kind \in {"backward", "right"}
      BY DEF Forward
    <3> HIDE DEF p
    <3>5. kind \in Forward => NotAfter(s, s[p], s[q])
      BY <1>3, <3>1, <3>2
    <3>6. kind \notin Forward => NotAfter(s, s[q], s[p])
      BY <1>3, <3>1, <3>3
    <3> QED BY <2>2, <2>5, <3>4, <3>5, <3>6 DEF Pending
  <2>7. \A m \in stayed' : Pending(s, walk', m) /\ \E i \in Places(s) : s[i] = m
    BY <1>1, <1>3, <2>6
  <2>8. \A i \in Places(given') : FALSE
    BY <1>1 DEF Places
  <2> HIDE DEF p
  <2>9. WalkMeets(s, walk', given', stayed')
    BY <2>1, <2>2, <2>3, <2>5, <2>7, <2>8 DEF WalkMeets
  <2> QED BY <1>1, <1>5, <2>4, <2>9 DEF ListIInv
<1> QED BY <1>6, <1>7

\* The state of a walk that is given a node while nothing is deleted.
LEMMA ListSame ==
    ASSUME ListIInv, UNCHANGED <<_head, _previous, _next, attached, _size>>
    PROVE  Order' = Order /\ LinkInv'
BY OrderIsNow, SomeNodes DEF LinkInv, ListIInv

LEMMA WalkOnKeeps == ListIInv /\ WalkOn => ListIInv'
<1> SUFFICES ASSUME ListIInv, WalkOn PROVE ListIInv'
  OBVIOUS
<1> DEFINE s == Order
           n == walk.next
<1>1. /\ LinkInv /\ WalkTypes(walk, given) /\ lost \in BOOLEAN /\ stayed \subseteq attached
      /\ ~lost => WalkMeets(s, walk, given, stayed)
  BY DEF ListIInv
<1>2. /\ n # Nothing /\ walk.kind \notin {"drain", "deleteAll", "right"}
      /\ walk' = [walk EXCEPT !.node = n, !.next = Ahead(walk.kind, n)]
      /\ given' = Append(given, n) /\ stayed' = stayed /\ lost' = lost
      /\ UNCHANGED <<_head, _previous, _next, attached, _size>>
  BY DEF WalkOn, Give, nodes
<1>3. n \in Nodes /\ walk.kind \in {"forward", "backward"} /\ given \in Seq(Nodes)
  BY <1>1, <1>2 DEF WalkTypes, WalkKinds, Forward, Over
<1>4. Ahead(walk.kind, n) = IF walk.kind = "forward" THEN next(n) ELSE previous(n)
  BY <1>3 DEF Ahead, Forward
<1>5. Ahead(walk.kind, n) \in Nodes \cup {Nothing}
  BY <1>1, <1>4, NeighbourTypes
<1> DEFINE x == Ahead(walk.kind, n)
<1>6. WalkTypes(walk', given') /\ walk'.kind = walk.kind /\ walk'.node = n /\ walk'.next = x
  <2> HIDE DEF n, x
  <2>1. walk' = [kind |-> walk.kind, node |-> n, next |-> x]
    BY <1>1, <1>2 DEF WalkTypes, x
  <2>2. x \in Nodes \cup {Nothing} /\ walk.kind \notin {"none", "threw"}
    BY <1>3, <1>5 DEF x
  <2>3. WalkTypes(walk, given) /\ given' = Append(given, n) /\ n \in Nodes
    BY <1>1, <1>2, <1>3
  <2> QED BY <2>1, <2>2, <2>3, TypesGiven
<1>7. Order' = s /\ LinkInv'
  BY <1>2, ListSame
<1>8. ASSUME ~lost PROVE WalkMeets(s, walk', given', stayed)
  <2>1. s \in Seq(Nodes) /\ \A i, j \in Places(s) : s[i] = s[j] => i = j
    BY <1>1, LinkFacts
  <2>2. PICK p \in Places(s) : s[p] = n
    BY <1>1, <1>2, <1>8 DEF WalkMeets
  <2>3. /\ next(s[p]) = IF p = Len(s) THEN Nothing ELSE s[p + 1]
        /\ previous(s[p]) = IF p = 1 THEN Nothing ELSE s[p - 1]
    BY <1>1, NeighboursAre
  <2>4. WalkMeets(s, walk, given, stayed)
    BY <1>1, <1>8
  <2> HIDE DEF s, n, x
  <2>5. CASE walk.kind = "forward"
    <3>1. walk'.next = IF p = Len(s) THEN Nothing ELSE s[p + 1]
      BY <1>4, <1>6, <2>2, <2>3, <2>5 DEF x
    <3>2. walk.kind \in Forward /\ walk.next = s[p]
      BY <2>2, <2>5 DEF Forward, n
    <3>3. WalkMeets(s, walk', Append(given, s[p]), stayed)
      BY <1>1, <1>3, <1>6, <2>1, <2>2, <2>4, <3>1, <3>2, ForwardGives, SomeNodes
    <3> QED BY <1>2, <2>2, <3>3
  <2>6. CASE walk.kind = "backward"
    <3>1. walk'.next = IF p = 1 THEN Nothing ELSE s[p - 1]
      BY <1>4, <1>6, <2>2, <2>3, <2>6 DEF x
    <3>2. walk.next = s[p]
      BY <2>2 DEF n
    <3>3. \A q \in Places(s) : /\ Pending(s, walk, s[q]) <=> q <= p
                               /\ Pending(s, walk', s[q]) <=> q < p
      BY <1>1, <1>6, <2>1, <2>6, <3>1, <3>2, BackwardPending, SomeNodes
    <3>4. \A q \in Places(s) : Pending(s, walk', s[q]) <=> Pending(s, walk, s[q]) /\ s[q] # s[p]
      <4> TAKE q \in Places(s)
      <4>1. q < p <=> q <= p /\ q # p
        BY DEF Places
      <4>2. s[q] # s[p] <=> q # p
        BY <2>1
      <4> QED BY <3>3, <4>1, <4>2
    <3>5. \A m \in stayed : \E q \in Places(s) : s[q] = m
      BY <2>4 DEF WalkMeets
    <3>6. \A m \in stayed : Pending(s, walk', m) <=> Pending(s, walk, m) /\ m # s[p]
      BY <3>4, <3>5
    <3>7. Pending(s, walk, s[p])
      BY <3>3 DEF Places
    <3>8. p # 1 => p - 1 \in Places(s)
      BY <2>1 DEF Places
    <3>9. /\ walk'.kind # "threw" /\ walk'.kind # "right" /\ walk'.kind # "deleteAll"
          /\ walk'.next # Nothing => \E i \in Places(s) : s[i] = walk'.next
      BY <1>6, <2>6, <3>1, <3>8
    <3>10. WalkMeets(s, walk', Append(given, n), stayed)
      BY <1>3, <2>2, <2>4, <3>6, <3>7, <3>9, WalkGives
    <3> QED BY <1>2, <3>10
  <2> QED BY <1>3, <2>5, <2>6
<1>9. attached' = attached /\ stayed' = stayed /\ lost' = lost
  BY <1>2
<1> HIDE DEF s, n, x
<1> QED BY <1>1, <1>6, <1>7, <1>8, <1>9 DEF ListIInv

\* A node is taken out of the list that the walk w does not wait for.
LEMMA RemovalMeets ==
    ASSUME NEW s, s \in Seq(Nodes), \A i, j \in Places(s) : s[i] = s[j] => i = j,
           NEW p, p \in Places(s), NEW w, NEW g, NEW stays, WalkTypes(w, g), WalkMeets(s, w, g, stays),
           s[p] \notin AwaitedBy(w)
    PROVE  WalkMeets(RemoveAt(s, p), w, g, stays \ {s[p]})
<1> DEFINE rest == stays \ {s[p]}
<1>1. \A a \in stays : \E i \in Places(s) : s[i] = a
  BY DEF WalkMeets
<1>2. \A a \in AwaitedBy(w) : \E i \in Places(s) : s[i] = a
  BY DEF WalkMeets, AwaitedBy
<1>3. \A a \in rest \cup AwaitedBy(w) : a # s[p] /\ \E i \in Places(s) : s[i] = a
  BY <1>1, <1>2
<1>4. ASSUME NEW a \in rest \cup AwaitedBy(w), NEW b \in rest \cup AwaitedBy(w)
      PROVE  /\ \E i \in Places(RemoveAt(s, p)) : RemoveAt(s, p)[i] = a
             /\ NotAfter(s, a, b) <=> NotAfter(RemoveAt(s, p), a, b)
  BY <1>3, <1>4, RemoveKeepsPlaces
<1>5. rest \in SUBSET stays
  OBVIOUS
<1> HIDE DEF rest
<1>6. WalkMeets(RemoveAt(s, p), w, g, rest)
  BY <1>4, <1>5, WalkSurvives
<1> QED BY <1>6 DEF rest

LEMMA DrainKeeps == ListIInv /\ Drain => ListIInv'
<1> SUFFICES ASSUME ListIInv, Drain PROVE ListIInv'
  OBVIOUS
<1> DEFINE s == Order
           n == walk.next
           x == next(n)
<1>1. /\ LinkInv /\ WalkTypes(walk, given) /\ lost \in BOOLEAN /\ stayed \subseteq attached
      /\ ~lost => WalkMeets(s, walk, given, stayed)
  BY DEF ListIInv
<1>2. walk.kind = "drain" /\ n # Nothing /\ stayed' = stayed \ {n} /\ lost' = lost
  BY DEF Drain
<1>3. n \in Nodes /\ given \in Seq(Nodes)
  BY <1>1, <1>2 DEF WalkTypes
<1>4. s \in Seq(Nodes) /\ \A i, j \in Places(s) : s[i] = s[j] => i = j
  BY <1>1, LinkFacts
<1>5. CASE n \in attached
  <2>1. /\ walk' = [walk EXCEPT !.node = n, !.next = x] /\ given' = Append(given, n)
        /\ deleteNode(n)
    BY <1>2, <1>5 DEF Drain, Give, Ahead, Forward
  <2> DEFINE p == Where(n)
  <2>2. /\ Order' = RemoveAt(s, p) /\ LinkInv' /\ attached' = attached \ {n}
    BY <1>1, <1>5, <2>1, DeleteSteps
  <2>3. p \in Places(s) /\ s[p] = n
    BY <1>1, <1>5, WherePlaces
  <2>4. x = IF p = Len(s) THEN Nothing ELSE s[p + 1]
    BY <1>1, <2>3, NeighboursAre
  <2>5. x \in Nodes \cup {Nothing}
    BY <1>1, NeighbourTypes
  <2> HIDE DEF s, n, x, p
  <2>6. WalkTypes(walk', given') /\ walk'.kind = walk.kind /\ walk'.node = n /\ walk'.next = x
    <3>1. walk' = [kind |-> walk.kind, node |-> n, next |-> x]
      BY <1>1, <2>1 DEF WalkTypes
    <3>2. walk.kind \notin {"none", "threw"} /\ given' = Append(given, n)
      BY <1>2, <2>1
    <3>3. WalkTypes(walk, given) /\ n \in Nodes
      BY <1>1, <1>3
    <3>4. /\ WalkTypes([kind |-> walk.kind, node |-> n, next |-> x], Append(given, n))
          /\ [kind |-> walk.kind, node |-> n, next |-> x].kind = walk.kind
          /\ [kind |-> walk.kind, node |-> n, next |-> x].node = n
          /\ [kind |-> walk.kind, node |-> n, next |-> x].next = x
      BY <2>5, <3>2, <3>3, TypesGiven
    <3> QED BY <3>1, <3>2, <3>4
  <2>7. ASSUME ~lost PROVE WalkMeets(RemoveAt(s, p), walk', given', stayed \ {n})
    <3>1. walk.kind \in Forward /\ walk.next = s[p]
      BY <1>2, <2>3 DEF Forward, n
    <3>2. WalkMeets(s, walk, given, stayed)
      BY <1>1, <2>7
    <3>3. WalkMeets(s, walk', Append(given, s[p]), stayed) /\ walk'.next # s[p]
      <4>1. walk'.next = IF p = Len(s) THEN Nothing ELSE s[p + 1]
        BY <2>4, <2>6
      <4>2. walk'.kind = walk.kind /\ walk'.node = s[p]
        BY <2>3, <2>6
      <4> QED BY <1>1, <1>3, <1>4, <2>3, <3>1, <3>2, <4>1, <4>2, ForwardGives, SomeNodes
    <3>4. WalkMeets(s, walk', given', stayed)
      BY <2>1, <2>3, <3>3
    <3>5. s[p] \notin AwaitedBy(walk')
      BY <1>2, <2>6, <3>3 DEF AwaitedBy
    <3>6. WalkMeets(RemoveAt(s, p), walk', given', stayed \ {s[p]})
      BY <1>4, <2>3, <2>6, <3>4, <3>5, RemovalMeets
    <3> QED BY <2>3, <3>6
  <2>8. ~lost' => WalkMeets(Order', walk', given', stayed')
    BY <1>2, <2>2, <2>7
  <2>9. lost' \in BOOLEAN /\ stayed' \subseteq attached'
    BY <1>1, <1>2, <2>2
  <2> QED BY <2>2, <2>6, <2>8, <2>9 DEF ListIInv
<1>6. CASE n \notin attached
  <2>1. /\ walk' = Over("threw") /\ given' = given
        /\ UNCHANGED <<_head, _previous, _next, attached, _size>>
    BY <1>2, <1>6 DEF Drain, nodes
  <2>2. lost
    <3> SUFFICES ASSUME ~lost PROVE FALSE
      BY <1>1
    <3>1. n \in AwaitedBy(walk)
      BY <1>2 DEF AwaitedBy
    <3> QED BY <1>6, <3>1, WalkAttached
  <2>3. LinkInv'
    BY <2>1, ListSame
  <2>4. WalkTypes(walk', given')
    BY <1>3, <2>1 DEF WalkTypes, WalkKinds, Over
  <2> QED BY <1>1, <1>2, <2>1, <2>2, <2>3, <2>4 DEF ListIInv
<1> QED BY <1>5, <1>6

\* deleteAll() goes on, in a list from which the node that it gave may have been deleted.
LEMMA DeleteAllGoesOn ==
    ASSUME NodesAreSome, NEW s, NEW h, NEW nx, NEW pv, NEW on, NEW n, Ring(s, h, nx, pv, on, n),
           NEW w, NEW g, NEW stays, WalkTypes(w, g), w.kind = "deleteAll",
           NEW v, NEW k,
           IF w.next = Nothing THEN v = Over("deleteAll") /\ k = g
           ELSE /\ v = [w EXCEPT !.node = w.next, !.next =
                           IF w.next \in on /\ nx[w.next] # h THEN nx[w.next] ELSE Nothing]
                /\ k = Append(g, w.next)
    PROVE  /\ WalkTypes(v, k)
           /\ WalkMeets(s, w, g, stays) => WalkMeets(s, v, k, stays)
<1>1. /\ s \in Seq(Nodes) /\ nx \in [Nodes -> Nodes \cup {Nothing}]
      /\ \A i, j \in Places(s) : s[i] = s[j] => i = j
  BY DEF Ring
<1>2. /\ w \in [kind : WalkKinds, node : Nodes \cup {Nothing}, next : Nodes \cup {Nothing}]
      /\ g \in Seq(Nodes)
  BY DEF WalkTypes
<1>3. CASE w.next = Nothing
  <2>1. v = [kind |-> "deleteAll", node |-> Nothing, next |-> Nothing] /\ k = g
    BY <1>3 DEF Over
  <2>2. v \in [kind : WalkKinds, node : Nodes \cup {Nothing}, next : Nodes \cup {Nothing}]
    BY <2>1 DEF WalkKinds, Forward
  <2>3. WalkTypes(v, k)
    BY <1>2, <2>1, <2>2 DEF WalkTypes
  <2>4. \A m : Pending(s, v, m) <=> Pending(s, w, m)
    BY <1>3, <2>1 DEF Pending
  <2>5. ASSUME WalkMeets(s, w, g, stays) PROVE WalkMeets(s, v, k, stays)
    BY <2>1, <2>4, <2>5 DEF WalkMeets
  <2> QED BY <2>3, <2>5
<1>4. CASE w.next # Nothing
  <2> DEFINE m == w.next
             x == IF m \in on /\ nx[m] # h THEN nx[m] ELSE Nothing
  <2>1. m \in Nodes /\ x \in Nodes \cup {Nothing}
    BY <1>1, <1>2, <1>4
  <2>2. v = [w EXCEPT !.node = m, !.next = x] /\ k = Append(g, m)
    BY <1>4
  <2>9. \A p \in Places(s) : s[p] = m => x = IF p = Len(s) THEN Nothing ELSE s[p + 1]
    BY RingNext
  <2>10. w.next = m
    OBVIOUS
  <2> HIDE DEF m, x
  <2>3. v = [kind |-> w.kind, node |-> m, next |-> x]
    BY <1>2, <2>2
  <2>4. WalkTypes(v, k) /\ v.kind = w.kind /\ v.node = m /\ v.next = x
    <3>1. w.kind \notin {"none", "threw"}
      OBVIOUS
    <3>2. m \in Nodes /\ x \in Nodes \cup {Nothing} /\ k = Append(g, m)
      BY <2>1, <2>2
    <3> QED BY <2>3, <3>1, <3>2, TypesGiven
  <2>5. ASSUME WalkMeets(s, w, g, stays) PROVE WalkMeets(s, v, k, stays)
    <3>1. PICK p \in Places(s) : s[p] = m
      BY <1>4, <2>5, <2>10 DEF WalkMeets
    <3>2. v.next = IF p = Len(s) THEN Nothing ELSE s[p + 1]
      BY <2>4, <2>9, <3>1
    <3>3. w.kind \in Forward /\ w.next = s[p] /\ v.node = s[p]
      BY <2>4, <2>10, <3>1 DEF Forward
    <3>4. WalkMeets(s, v, Append(g, s[p]), stays)
      BY <1>1, <1>2, <2>4, <2>5, <3>2, <3>3, ForwardGives, SomeNodes
    <3> QED BY <2>2, <3>1, <3>4
  <2> QED BY <2>4, <2>5
<1> QED BY <1>3, <1>4

LEMMA DeleteAllKeeps ==
    ASSUME ListIInv, NEW deletes \in BOOLEAN, DeleteAllOn(deletes)
    PROVE  ListIInv'
<1> DEFINE s == Order
           n == walk.node
<1>1. /\ LinkInv /\ WalkTypes(walk, given) /\ lost \in BOOLEAN /\ stayed \subseteq attached
      /\ ~lost => WalkMeets(s, walk, given, stayed)
  BY DEF ListIInv
<1>2. walk.kind = "deleteAll" /\ lost' = lost
  BY DEF DeleteAllOn
<1>3. s \in Seq(Nodes) /\ \A i, j \in Places(s) : s[i] = s[j] => i = j
  BY <1>1, LinkFacts
<1>4. /\ LinkInv' /\ stayed' \subseteq attached'
      /\ ~lost => WalkMeets(Order', walk, given, stayed')
  <2>1. CASE deletes /\ n \in attached
    <3> DEFINE p == Where(n)
    <3>1. deleteNode(n) /\ stayed' = stayed \ {n}
      BY <2>1 DEF DeleteAllOn
    <3>2. Order' = RemoveAt(s, p) /\ LinkInv' /\ attached' = attached \ {n}
      BY <1>1, <2>1, <3>1, DeleteSteps
    <3>3. p \in Places(s) /\ s[p] = n
      BY <1>1, <2>1, WherePlaces
    <3>4. n \in Nodes
      BY <1>3, <3>3 DEF Places
    <3> HIDE DEF s, p
    <3>5. ASSUME ~lost PROVE WalkMeets(RemoveAt(s, p), walk, given, stayed \ {n})
      <4>1. WalkMeets(s, walk, given, stayed)
        BY <1>1, <3>5
      <4>2. n \notin AwaitedBy(walk)
        BY <1>2, <4>1 DEF WalkMeets, AwaitedBy
      <4>3. WalkMeets(RemoveAt(s, p), walk, given, stayed \ {s[p]})
        BY <1>1, <1>3, <3>3, <4>1, <4>2, RemovalMeets
      <4> QED BY <3>3, <4>3
    <3>6. stayed' \subseteq attached'
      BY <1>1, <3>1, <3>2
    <3> QED BY <3>1, <3>2, <3>5, <3>6
  <2>2. CASE ~(deletes /\ n \in attached)
    BY <2>2, ListSame, <1>1 DEF DeleteAllOn, nodes
  <2> QED BY <2>1, <2>2
<1>5. IF walk.next = Nothing THEN walk' = Over("deleteAll") /\ given' = given
      ELSE /\ walk' = [walk EXCEPT !.node = walk.next, !.next =
                          IF walk.next \in attached' /\ _next'[walk.next] # _head'
                          THEN _next'[walk.next] ELSE Nothing]
           /\ given' = Append(given, walk.next)
  BY DEF DeleteAllOn
<1>6. Ring(Order', _head', _next', _previous', attached', _size')
  BY <1>4 DEF LinkInv
<1>7. /\ WalkTypes(walk', given')
      /\ WalkMeets(Order', walk, given, stayed') => WalkMeets(Order', walk', given', stayed')
  BY <1>1, <1>2, <1>5, <1>6, DeleteAllGoesOn, SomeNodes
<1>8. ~lost' => WalkMeets(Order', walk', given', stayed')
  BY <1>2, <1>4, <1>7
<1> QED BY <1>1, <1>2, <1>4, <1>7, <1>8 DEF ListIInv

LEMMA ReduceRightKeeps == ListIInv /\ ReduceRightOn => ListIInv'
<1> SUFFICES ASSUME ListIInv, ReduceRightOn PROVE ListIInv'
  OBVIOUS
<1> DEFINE s == Order
           n == IF walk.node = Nothing THEN walk.next ELSE previous(walk.node)
<1>1. /\ LinkInv /\ WalkTypes(walk, given) /\ lost \in BOOLEAN /\ stayed \subseteq attached
      /\ ~lost => WalkMeets(s, walk, given, stayed)
  BY DEF ListIInv
<1>2. /\ walk.kind = "right" /\ (walk.next # Nothing \/ walk.node # Nothing)
      /\ IF n = Nothing THEN walk' = Over("right") /\ given' = given
         ELSE walk' = [walk EXCEPT !.node = n, !.next = Nothing] /\ given' = Append(given, n)
      /\ stayed' = stayed /\ lost' = lost
      /\ UNCHANGED <<_head, _previous, _next, attached, _size>>
  BY DEF ReduceRightOn, Give, nodes
<1>3. /\ walk \in [kind : WalkKinds, node : Nodes \cup {Nothing}, next : Nodes \cup {Nothing}]
      /\ given \in Seq(Nodes)
  BY <1>1 DEF WalkTypes
<1>4. s \in Seq(Nodes) /\ Len(s) \in Nat /\ \A i, j \in Places(s) : s[i] = s[j] => i = j
  BY <1>1, LinkFacts
<1>5. Order' = s /\ LinkInv'
  BY <1>2, ListSame
<1>6. n \in Nodes \cup {Nothing}
  BY <1>1, NeighbourTypes, <1>3
\* In a list that holds what it awaits, the walk is at p, and gave all behind it.
<1>7. ASSUME ~lost
      PROVE  \/ walk.node # Nothing /\ walk.next = Nothing /\ \E p \in Places(s) : s[p] = walk.node
             \/ walk.node = Nothing /\ walk.next # Nothing /\ \E p \in Places(s) : s[p] = walk.next
  BY <1>1, <1>2, <1>7 DEF WalkMeets
<1>8. CASE n = Nothing
  <2>1. walk' = [kind |-> "right", node |-> Nothing, next |-> Nothing] /\ given' = given
    BY <1>2, <1>8 DEF Over
  <2>2. WalkTypes(walk', given')
    BY <1>3, <2>1 DEF WalkTypes, WalkKinds
  <2>3. ASSUME ~lost PROVE WalkMeets(s, walk', given', stayed)
    <3>1. walk.node # Nothing /\ walk.next = Nothing
      BY <1>2, <1>7, <1>8, <2>3
    <3>2. PICK p \in Places(s) : s[p] = walk.node
      BY <1>7, <2>3, <3>1
    <3>3. previous(s[p]) = Nothing
      BY <1>8, <3>1, <3>2
    <3>4. p = 1
      <4>1. p # 1 => s[p - 1] \in Nodes
        BY <1>4 DEF Places
      <4>2. previous(s[p]) = IF p = 1 THEN Nothing ELSE s[p - 1]
        BY <1>1, NeighboursAre
      <4>3. Nothing \notin Nodes
        BY <1>1, SomeNodes DEF NodesAreSome
      <4> HIDE DEF s
      <4> QED BY <3>3, <4>1, <4>2, <4>3
    <3> HIDE DEF s, n
    <3>5. \A q \in Places(s) : Pending(s, walk, s[q]) <=> q < p
      BY <1>1, <1>2, <1>4, <3>1, <3>2, RightPending, SomeNodes
    <3>6. WalkMeets(s, walk, given, stayed)
      BY <1>1, <2>3
    <3>7. \A m \in stayed : \E q \in Places(s) : s[q] = m
      BY <3>6 DEF WalkMeets
    <3>8. \A m \in stayed : ~Pending(s, walk, m)
      <4>1. \A q \in Places(s) : ~(q < p)
        BY <3>4 DEF Places
      <4> QED BY <3>5, <3>7, <4>1
    <3>9. \A m : ~Pending(s, walk', m)
      BY <2>1 DEF Pending, Forward
    <3> QED BY <2>1, <3>6, <3>8, <3>9 DEF WalkMeets
  <2> HIDE DEF s
  <2> QED BY <1>1, <1>2, <1>5, <2>2, <2>3 DEF ListIInv
<1>9. CASE n # Nothing
  <2>1. walk' = [kind |-> "right", node |-> n, next |-> Nothing] /\ given' = Append(given, n)
    BY <1>2, <1>3, <1>9
  <2>2. n \in Nodes
    BY <1>6, <1>9
  <2> HIDE DEF n
  <2>3. WalkTypes(walk', given')
    <3>1. Append(given, n) \in Seq(Nodes)
      BY <1>3, <2>2
    <3> QED BY <1>3, <2>1, <2>2, <3>1 DEF WalkTypes, WalkKinds
  <2>4. ASSUME ~lost PROVE WalkMeets(s, walk', given', stayed)
    <3>1. WalkMeets(s, walk, given, stayed)
      BY <1>1, <2>4
    <3>2. \E p \in Places(s) : /\ s[p] = n
                               /\ \A q \in Places(s) : Pending(s, walk, s[q]) <=> q <= p
      <4>1. CASE walk.node = Nothing
        <5>1. walk.next # Nothing /\ n = walk.next
          BY <1>2, <4>1 DEF n
        <5>2. PICK p \in Places(s) : s[p] = walk.next
          BY <1>7, <2>4, <4>1
        <5> HIDE DEF s
        <5>3. \A q \in Places(s) : Pending(s, walk, s[q]) <=> q <= p
          BY <1>1, <1>2, <1>4, <4>1, <5>2, RightPending, SomeNodes
        <5> QED BY <5>1, <5>2, <5>3
      <4>2. CASE walk.node # Nothing
        <5>1. walk.next = Nothing /\ n = previous(walk.node)
          BY <1>7, <2>4, <4>2 DEF n
        <5>2. PICK r \in Places(s) : s[r] = walk.node
          BY <1>7, <2>4, <4>2
        <5>3. n = IF r = 1 THEN Nothing ELSE s[r - 1]
          BY <1>1, <5>1, <5>2, NeighboursAre
        <5> HIDE DEF s
        <5>4. r # 1 /\ r - 1 \in Places(s) /\ s[r - 1] = n
          BY <1>4, <1>9, <5>3 DEF Places
        <5>5. \A q \in Places(s) : Pending(s, walk, s[q]) <=> q < r
          BY <1>1, <1>2, <1>4, <5>1, <5>2, RightPending, SomeNodes
        <5>6. \A q \in Places(s) : q < r <=> q <= r - 1
          BY <1>4 DEF Places
        <5> QED BY <5>4, <5>5, <5>6
      <4> QED BY <4>1, <4>2
    <3> HIDE DEF s
    <3>3. PICK p \in Places(s) : /\ s[p] = n
                                 /\ \A q \in Places(s) : Pending(s, walk, s[q]) <=> q <= p
      BY <3>2
    <3>4. walk'.kind = "right" /\ walk'.node = s[p] /\ walk'.next = Nothing
      BY <2>1, <3>3
    <3>5. \A q \in Places(s) : Pending(s, walk', s[q]) <=> q < p
      BY <1>1, <1>4, <3>4, RightPending, SomeNodes
    <3>6. \A q \in Places(s) : Pending(s, walk', s[q]) <=> Pending(s, walk, s[q]) /\ s[q] # n
      <4> TAKE q \in Places(s)
      <4>1. q < p <=> q <= p /\ q # p
        BY DEF Places
      <4>2. s[q] # n <=> q # p
        BY <1>4, <3>3
      <4> QED BY <3>3, <3>5, <4>1, <4>2
    <3>7. \A m \in stayed : \E q \in Places(s) : s[q] = m
      BY <3>1 DEF WalkMeets
    <3>8. \A m \in stayed : Pending(s, walk', m) <=> Pending(s, walk, m) /\ m # n
      BY <3>6, <3>7
    <3>9. Pending(s, walk, n)
      <4>1. p <= p
        BY DEF Places
      <4> QED BY <3>3, <4>1
    <3>10. WalkMeets(s, walk', Append(given, n), stayed)
      BY <1>3, <2>2, <3>1, <3>3, <3>4, <3>8, <3>9, WalkGives
    <3> QED BY <2>1, <3>10
  <2> HIDE DEF s
  <2> QED BY <1>1, <1>2, <1>5, <2>3, <2>4 DEF ListIInv
<1> QED BY <1>8, <1>9

LEMMA ListPreserves == ListIInv /\ (Next \/ UNCHANGED listVars) => ListIInv'
<1> SUFFICES ASSUME ListIInv, Next \/ UNCHANGED listVars PROVE ListIInv'
  OBVIOUS
<1>1. ASSUME NEW new \in Nodes, Push(new) \/ Unshift(new) PROVE ListIInv'
  BY <1>1, InsertionKeeps DEF Push, Unshift, walking
<1>2. ASSUME NEW new \in Nodes, NEW n \in Nodes, InsertBefore(n, new) \/ InsertAfter(n, new)
      PROVE  ListIInv'
  BY <1>2, InsertionKeeps DEF InsertBefore, InsertAfter, walking
<1>3. ASSUME NEW n, Delete(n) PROVE ListIInv'
  <2>1. n \in attached
    BY <1>3 DEF Delete, deleteNode
  <2> QED BY <1>3, <2>1, DeletionKeeps
<1>4. ASSUME NEW value, DeleteValue(value) PROVE ListIInv'
  BY <1>3, <1>4 DEF DeleteValue
<1>5. CASE Pop \/ Shift
  BY <1>3, <1>5 DEF Pop, Shift
<1>6. CASE Clear
  BY <1>6, ClearKeeps
<1>7. CASE Edit
  BY <1>1, <1>2, <1>3, <1>4, <1>5, <1>6, <1>7 DEF Edit
<1>8. ASSUME NEW kind \in {"forward", "drain", "deleteAll", "backward", "right"}, Walk(kind)
      PROVE  ListIInv'
  BY <1>8, StartKeeps
<1>9. CASE WalkOn \/ Drain \/ ReduceRightOn
  BY <1>9, WalkOnKeeps, DrainKeeps, ReduceRightKeeps
<1>10. ASSUME NEW deletes \in BOOLEAN, DeleteAllOn(deletes) PROVE ListIInv'
  BY <1>10, DeleteAllKeeps
<1>11. CASE UNCHANGED listVars
  BY <1>11, ListSame DEF listVars, nodes, walking, ListIInv
<1> QED BY <1>7, <1>8, <1>9, <1>10, <1>11 DEF Next

-----------------------------------------------------------------------------
(* What the invariant means. *)

LEMMA ListIInvTypes == ListIInv => TypeOK
<1> SUFFICES ASSUME LinkInv PROVE TypeOK
  BY DEF ListIInv
<1> DEFINE s == Order
<1>1. /\ s \in Seq(Nodes) /\ Len(s) \in Nat /\ _size = Len(s)
      /\ attached = {s[i] : i \in Places(s)}
      /\ _head = (IF s = <<>> THEN Nothing ELSE s[1])
      /\ s = <<>> <=> _head = Nothing
      /\ s # <<>> <=> Len(s) > 0
      /\ \A i, j \in Places(s) : s[i] = s[j] => i = j
      /\ \A i \in Places(s) : _next[s[i]] = Succ(s, i) /\ _previous[s[i]] = Pred(s, i) /\ s[i] \in Nodes
  BY LinkFacts
<1>7. DOMAIN s = Places(s) /\ Range(s) = {s[i] : i \in DOMAIN s}
  BY <1>1 DEF Places, Range
<1>8. Range(s) = attached
  BY <1>1, <1>7
<1>9. SUFFICES /\ _size = Cardinality(attached) /\ Range(s) = attached
               /\ \A n \in attached : _previous[_next[n]] = n /\ _next[_previous[n]] = n
               /\ _head = Nothing <=> attached = {}
  BY Zenon DEF TypeOK
<1> HIDE DEF s
<1>2. _size = Cardinality(attached)
  <2> DEFINE f == [i \in 1 .. Len(s) |-> s[i]]
  <2>1. f \in Bijection(1 .. Len(s), attached)
    <3>1. f \in [1 .. Len(s) -> attached]
      BY <1>1 DEF Places
    <3>2. \A i, j \in 1 .. Len(s) : f[i] = f[j] => i = j
      BY <1>1 DEF Places
    <3>3. \A n \in attached : \E i \in 1 .. Len(s) : f[i] = n
      BY <1>1 DEF Places
    <3> HIDE DEF f
    <3> QED BY <3>1, <3>2, <3>3 DEF Bijection, Injection, Surjection, IsInjective
  <2> HIDE DEF f
  <2>2. IsFiniteSet(1 .. Len(s)) /\ Cardinality(1 .. Len(s)) = Len(s)
    <3>1. 1 \in Int /\ Len(s) \in Int /\ Len(s) >= 0
      BY <1>1
    <3>2. IsFiniteSet(1 .. Len(s)) /\ Cardinality(1 .. Len(s)) = IF 1 > Len(s) THEN 0 ELSE Len(s) - 1 + 1
      BY <3>1, FS_Interval
    <3> QED BY <3>1, <3>2
  <2>3. ExistsBijection(1 .. Len(s), attached)
    BY <2>1 DEF ExistsBijection
  <2>4. IsFiniteSet(attached) /\ Cardinality(attached) = Cardinality(1 .. Len(s))
    BY <2>2, <2>3, FS_Bijection
  <2> QED BY <1>1, <2>2, <2>4
<1>3. ASSUME NEW i \in Places(s) PROVE _previous[_next[s[i]]] = s[i] /\ _next[_previous[s[i]]] = s[i]
  <2>1. Len(s) > 0 /\ i \in 1 .. Len(s) /\ 1 \in Places(s) /\ Len(s) \in Places(s)
    BY <1>1 DEF Places
  <2>0. _next[s[Len(s)]] = s[1] /\ _previous[s[1]] = s[Len(s)]
    <3>1. Succ(s, Len(s)) = s[1]
      BY Zenon DEF Succ
    <3>2. Pred(s, 1) = s[Len(s)]
      BY Zenon DEF Pred
    <3> QED BY <1>1, <2>1, <3>1, <3>2, Zenon
  <2>2. _previous[_next[s[i]]] = s[i]
    <3>1. CASE i = Len(s)
      BY <2>0, <3>1
    <3>2. CASE i # Len(s)
      BY <1>1, <2>1, <3>2 DEF Places, Succ, Pred
    <3> QED BY <3>1, <3>2
  <2>3. _next[_previous[s[i]]] = s[i]
    <3>1. CASE i = 1
      BY <2>0, <3>1
    <3>2. CASE i # 1
      BY <1>1, <2>1, <3>2 DEF Places, Pred, Succ
    <3> QED BY <3>1, <3>2
  <2> QED BY <2>2, <2>3
<1>4. \A n \in attached : _previous[_next[n]] = n /\ _next[_previous[n]] = n
  BY <1>1, <1>3
<1>5. _head = Nothing <=> attached = {}
  <2>1. Len(s) > 0 => s[1] \in attached
    BY <1>1 DEF Places
  <2>2. Len(s) = 0 => attached = {}
    BY <1>1 DEF Places
  <2> QED BY <1>1, <2>1, <2>2
<1> QED BY <1>2, <1>4, <1>5, <1>8

LEMMA AtMostOne ==
    ASSUME NEW S, \A i, j \in S : i = j
    PROVE  Cardinality(S) <= 1
<1>1. CASE S = {}
  BY <1>1, FS_EmptySet
<1>2. CASE S # {}
  <2>1. PICK i \in S : TRUE
    BY <1>2
  <2>2. S = {i}
    OBVIOUS
  <2>3. Cardinality({i}) = 1
    BY FS_Singleton
  <2> QED BY <2>2, <2>3
<1> QED BY <1>1, <1>2

LEMMA ListIInvSees == ListIInv => WalksSeeStayers
<1> SUFFICES ASSUME ListIInv, ~lost, given # <<>>
             PROVE  /\ \A n \in stayed : Cardinality({i \in DOMAIN given : given[i] = n}) <= 1
                    /\ walk.next = Nothing /\ walk.kind \notin {"drain", "right"}
                          => stayed \subseteq Range(given)
                    /\ walk = Over("right") => stayed \subseteq Range(given)
                    /\ walk.kind # "threw"
  BY Zenon DEF WalksSeeStayers
<1> DEFINE s == Order
<1>1. /\ WalkMeets(s, walk, given, stayed) /\ given \in Seq(Nodes)
      /\ walk \in [kind : WalkKinds, node : Nodes \cup {Nothing}, next : Nodes \cup {Nothing}]
  BY DEF ListIInv, WalkTypes
<1>2. DOMAIN given = Places(given) /\ Range(given) = {given[i] : i \in DOMAIN given}
  BY <1>1 DEF Places, Range
<1> HIDE DEF s
<1>3. ASSUME NEW n \in stayed PROVE Cardinality({i \in DOMAIN given : given[i] = n}) <= 1
  BY <1>1, <1>2, AtMostOne DEF WalkMeets
<1>4. ASSUME \A m \in stayed : ~Pending(s, walk, m) PROVE stayed \subseteq Range(given)
  BY <1>1, <1>2, <1>4 DEF WalkMeets
<1>5. ASSUME walk.next = Nothing, walk.kind \notin {"drain", "right"} PROVE stayed \subseteq Range(given)
  BY <1>5, <1>4 DEF Pending
<1>6. ASSUME walk = Over("right") PROVE stayed \subseteq Range(given)
  BY <1>6, <1>4 DEF Over, Pending
<1>7. walk.kind # "threw"
  BY <1>1 DEF WalkMeets
<1> QED BY <1>3, <1>5, <1>6, <1>7

LEMMA InsertAtEnds ==
    ASSUME NEW s, s \in Seq(Nodes), NEW x, x \in Nodes
    PROVE  /\ InsertAt(s, Len(s) + 1, x) = Append(s, x)
           /\ InsertAt(s, 1, x) = <<x>> \o s
<1>1. InsertAt(s, Len(s) + 1, x) = Append(s, x)
  <2> DEFINE t == InsertAt(s, Len(s) + 1, x)
             u == Append(s, x)
             p == Len(s) + 1
  <2>1. p \in 1 .. Len(s) + 1 /\ Len(s) \in Nat
    OBVIOUS
  <2>2. /\ t \in Seq(Nodes) /\ Len(t) = Len(s) + 1
        /\ \A j \in 1 .. Len(s) + 1 : t[j] = IF j < p THEN s[j] ELSE IF j = p THEN x ELSE s[j - 1]
    BY <2>1, InsertAtIs
  <2>3. /\ u \in Seq(Nodes) /\ Len(u) = Len(s) + 1
        /\ \A j \in 1 .. Len(s) + 1 : u[j] = IF j < p THEN s[j] ELSE x
    BY <2>1
  <2> HIDE DEF t, u
  <2>4. \A j \in 1 .. Len(t) : t[j] = u[j]
    BY <2>1, <2>2, <2>3
  <2>5. t = u
    BY <2>2, <2>3, <2>4, SeqEqual
  <2> QED BY <2>5 DEF t, u
<1>2. InsertAt(s, 1, x) = <<x>> \o s
  BY DEF InsertAt
<1> QED BY <1>1, <1>2

LEMMA ListEdits ==
    ASSUME ListIInv, Next \/ UNCHANGED listVars
    PROVE  EditAsAsked
<1> DEFINE s == Order
<1>1. LinkInv
  BY DEF ListIInv
<1>2. s \in Seq(Nodes) /\ Len(s) \in Nat /\ attached = {s[i] : i \in Places(s)}
  BY <1>1, LinkFacts
<1>3. ASSUME NEW new \in Nodes, Push(new) PROVE Order' = Append(s, new)
  <2>1. insertNode(Nothing, new, "after")
    BY <1>3 DEF Push
  <2>2. Order' = InsertAt(s, Spot(Nothing, "after"), new)
    BY <1>1, <2>1, InsertSteps
  <2>3. Spot(Nothing, "after") = Len(s) + 1
    BY <1>2 DEF Spot
  <2> HIDE DEF s
  <2> QED BY <1>2, <2>2, <2>3, InsertAtEnds
<1>4. ASSUME NEW new \in Nodes, Unshift(new) PROVE Order' = <<new>> \o s
  <2>1. insertNode(Nothing, new, "before")
    BY <1>4 DEF Unshift
  <2>2. Order' = InsertAt(s, Spot(Nothing, "before"), new)
    BY <1>1, <2>1, InsertSteps
  <2>3. Spot(Nothing, "before") = 1
    BY DEF Spot
  <2> HIDE DEF s
  <2> QED BY <1>2, <2>2, <2>3, InsertAtEnds
<1>5. ASSUME NEW new \in Nodes, NEW n \in Nodes, InsertBefore(n, new)
      PROVE  Order' = InsertAt(s, Where(n), new)
  BY <1>5, <1>1, InsertSteps, <1>2, SomeNodes DEF InsertBefore, Spot, Places, NodesAreSome
<1>6. ASSUME NEW new \in Nodes, NEW n \in Nodes, InsertAfter(n, new)
      PROVE  Order' = InsertAt(s, Where(n) + 1, new)
  BY <1>6, <1>1, InsertSteps, <1>2, SomeNodes DEF InsertAfter, Spot, Places, NodesAreSome
<1>7. ASSUME NEW n \in Nodes, Delete(n)
      PROVE  Order' = RemoveAt(s, Where(n))
  BY <1>7, <1>1, DeleteSteps DEF Delete, deleteNode
<1>8. ASSUME _head' # _head \/ _next' # _next
      PROVE  Edit \/ Drain \/ walk.kind = "deleteAll"
  <2>1. ~(UNCHANGED listVars)
    BY <1>8 DEF listVars, nodes
  <2>2. \A kind : ~Walk(kind)
    BY <1>8 DEF Walk, nodes
  <2>3. ~WalkOn /\ ~ReduceRightOn
    BY <1>8 DEF WalkOn, ReduceRightOn, nodes
  <2>4. \A deletes : DeleteAllOn(deletes) => walk.kind = "deleteAll"
    BY DEF DeleteAllOn
  <2> QED BY <2>1, <2>2, <2>3, <2>4 DEF Next
<1> QED BY <1>3, <1>4, <1>5, <1>6, <1>7, <1>8 DEF EditAsAsked

-----------------------------------------------------------------------------
LEMMA ListInvariance == ASSUME NodesAreSome PROVE Spec => []ListIInv
<1>1. Init => ListIInv
  BY ListStarts
<1>2. ListIInv /\ [Next]_listVars => ListIInv'
  BY ListPreserves
<1> QED BY <1>1, <1>2, PTL DEF Spec

\* Whatever is inserted, deleted and cleared, _next and _previous stay one circle through all
\* attached nodes, from the head, and _size their number (LinkedList.TypeOK).
THEOREM ListsAreCircles == ASSUME NodesAreSome PROVE Spec => []TypeOK
<1> QED BY ListInvariance, ListIInvTypes, PTL

\* A walk meets what stays in the list, whatever clients do to the list between two of its
\* nodes, so long as its next node is not taken away (LinkedList.WalksSeeStayers).
THEOREM WalksOfListsSee == ASSUME NodesAreSome PROVE Spec => []WalksSeeStayers
<1> QED BY ListInvariance, ListIInvSees, PTL

\* _insertNode and _deleteNode do to the order of the list what push, unshift, insertBefore,
\* insertAfter and deleteNode say, and nothing else changes the order (LinkedList.EditAsAsked).
THEOREM ListsChangeAsAsked == ASSUME NodesAreSome PROVE Spec => [][EditAsAsked]_listVars
<1>1. ListIInv /\ [Next]_listVars => [EditAsAsked]_listVars
  BY ListEdits
<1> QED BY <1>1, ListInvariance, PTL DEF Spec

-----------------------------------------------------------------------------
(***************************************************************************)
(* Sorted arrays and the multimap, whose keys and values are those of no   *)
(* list above.                                                             *)
(***************************************************************************)
CONSTANTS Keys, Values
VARIABLES _keys, _values, _map, count

Sorted == INSTANCE SortedMap
Multi == INSTANCE MultiMap WITH _size <- count

-----------------------------------------------------------------------------
(* binarySearch *)

\* What the search has to say of the places low .. high of the array: where the key is, or the
\* complement of the place that parts the smaller ones from the larger ones.
FoundIn(array, key, low, high, r) ==
    /\ r \in Int
    /\ \/ r \in low .. high /\ array[r + 1] = key
       \/ \E p \in low .. high + 1 :
             /\ r = -p - 1
             /\ \A m \in low .. p - 1 : array[m + 1] < key
             /\ \A m \in p .. high : array[m + 1] > key

Window(array, low, high) ==
    /\ array \in Seq(Int) /\ Sorted!Sorted(array)
    /\ low \in 0 .. Len(array) /\ high \in -1 .. Len(array) - 1 /\ low <= high + 1

LEMMA SortedPlaces ==
    ASSUME NEW array \in Seq(Int), Sorted!Sorted(array)
    PROVE  \A m, n \in 0 .. Len(array) - 1 :
              /\ array[m + 1] \in Int
              /\ m < n => array[m + 1] < array[n + 1]
<1> SUFFICES ASSUME NEW m \in 0 .. Len(array) - 1, NEW n \in 0 .. Len(array) - 1
             PROVE  array[m + 1] \in Int /\ (m < n => array[m + 1] < array[n + 1])
  OBVIOUS
<1>1. m + 1 \in DOMAIN array /\ n + 1 \in DOMAIN array /\ (m < n => m + 1 < n + 1)
  OBVIOUS
<1> QED BY <1>1 DEF Sorted!Sorted

\* There is one answer.
LEMMA FoundOnce ==
    ASSUME NEW array, NEW key \in Int, NEW low, NEW high, Window(array, low, high),
           NEW r, NEW q, FoundIn(array, key, low, high, r), FoundIn(array, key, low, high, q)
    PROVE  r = q
<1>1. /\ low \in Int /\ high \in Int /\ 0 <= low /\ high <= Len(array) - 1 /\ Len(array) \in Nat
      /\ r \in Int /\ q \in Int
  BY DEF Window, FoundIn
<1>2. \A m, n \in low .. high : array[m + 1] \in Int /\ (m < n => array[m + 1] < array[n + 1])
  <2>1. array \in Seq(Int) /\ Sorted!Sorted(array)
    BY DEF Window
  <2>2. \A m, n \in 0 .. Len(array) - 1 :
           array[m + 1] \in Int /\ (m < n => array[m + 1] < array[n + 1])
    BY <2>1, SortedPlaces
  <2> TAKE m, n \in low .. high
  <2>3. m \in 0 .. Len(array) - 1 /\ n \in 0 .. Len(array) - 1
    BY <1>1
  <2> QED BY <2>2, <2>3, Zenon
<1>3. CASE r \in low .. high /\ array[r + 1] = key
  <2>1. CASE q \in low .. high /\ array[q + 1] = key
    BY <1>1, <1>2, <1>3, <2>1
  <2>2. CASE ~(q \in low .. high /\ array[q + 1] = key)
    <3>1. PICK p \in low .. high + 1 : /\ \A m \in low .. p - 1 : array[m + 1] < key
                                       /\ \A m \in p .. high : array[m + 1] > key
      BY <2>2 DEF FoundIn
    <3>2. r \in low .. p - 1 \/ r \in p .. high
      BY <1>1, <1>3, <3>1
    <3> QED BY <1>1, <1>2, <1>3, <3>1, <3>2
  <2> QED BY <2>1, <2>2
<1>4. CASE ~(r \in low .. high /\ array[r + 1] = key)
  <2>1. PICK p \in low .. high + 1 : /\ r = -p - 1
                                     /\ \A m \in low .. p - 1 : array[m + 1] < key
                                     /\ \A m \in p .. high : array[m + 1] > key
    BY <1>4 DEF FoundIn
  <2>2. CASE q \in low .. high /\ array[q + 1] = key
    BY <1>1, <2>1, <2>2, <1>2
  <2>3. CASE ~(q \in low .. high /\ array[q + 1] = key)
    <3>1. PICK o \in low .. high + 1 : /\ q = -o - 1
                                       /\ \A m \in low .. o - 1 : array[m + 1] < key
                                       /\ \A m \in o .. high : array[m + 1] > key
      BY <2>3 DEF FoundIn
    <3>2. ~(p < o)
      <4> SUFFICES ASSUME p < o PROVE FALSE
        OBVIOUS
      <4>1. p \in low .. o - 1 /\ p \in p .. high /\ p \in low .. high
        BY <1>1, <2>1, <3>1
      <4> QED BY <1>2, <2>1, <3>1, <4>1
    <3>3. ~(o < p)
      <4> SUFFICES ASSUME o < p PROVE FALSE
        OBVIOUS
      <4>1. o \in low .. p - 1 /\ o \in o .. high /\ o \in low .. high
        BY <1>1, <2>1, <3>1
      <4> QED BY <1>2, <2>1, <3>1, <4>1
    <3> QED BY <1>1, <2>1, <3>1, <3>2, <3>3
  <2> QED BY <2>2, <2>3
<1> QED BY <1>3, <1>4

\* One round of the loop: the answer for the half is the answer.
LEMMA Halves ==
    ASSUME NEW array, NEW key \in Int, NEW low, NEW high, Window(array, low, high), low <= high,
           NEW middle \in low .. high
    PROVE  /\ array[middle + 1] = key => FoundIn(array, key, low, high, middle)
           /\ array[middle + 1] < key => /\ Window(array, middle + 1, high)
                                         /\ \A r : FoundIn(array, key, middle + 1, high, r)
                                                   => FoundIn(array, key, low, high, r)
           /\ array[middle + 1] > key => /\ Window(array, low, middle - 1)
                                         /\ \A r : FoundIn(array, key, low, middle - 1, r)
                                                   => FoundIn(array, key, low, high, r)
<1>1. /\ low \in Int /\ high \in Int /\ 0 <= low /\ high <= Len(array) - 1 /\ Len(array) \in Nat
      /\ middle \in Int /\ low <= middle /\ middle <= high
      /\ array \in Seq(Int) /\ Sorted!Sorted(array)
  BY DEF Window
<1>2. \A m, n \in low .. high : array[m + 1] \in Int /\ (m < n => array[m + 1] < array[n + 1])
  <2>1. array \in Seq(Int) /\ Sorted!Sorted(array)
    BY DEF Window
  <2>2. \A m, n \in 0 .. Len(array) - 1 :
           array[m + 1] \in Int /\ (m < n => array[m + 1] < array[n + 1])
    BY <2>1, SortedPlaces
  <2> TAKE m, n \in low .. high
  <2>3. m \in 0 .. Len(array) - 1 /\ n \in 0 .. Len(array) - 1
    BY <1>1
  <2> QED BY <2>2, <2>3, Zenon
<1>3. array[middle + 1] = key => FoundIn(array, key, low, high, middle)
  BY <1>1 DEF FoundIn
<1>4. Window(array, middle + 1, high) /\ Window(array, low, middle - 1)
  BY <1>1 DEF Window
<1>5. ASSUME array[middle + 1] < key, NEW r, FoundIn(array, key, middle + 1, high, r)
      PROVE  FoundIn(array, key, low, high, r)
  <2>1. r \in Int
    BY <1>5 DEF FoundIn
  <2>2. CASE r \in middle + 1 .. high /\ array[r + 1] = key
    BY <1>1, <2>1, <2>2 DEF FoundIn
  <2>3. CASE ~(r \in middle + 1 .. high /\ array[r + 1] = key)
    <3>1. PICK p \in middle + 1 .. high + 1 : /\ r = -p - 1
                                              /\ \A m \in middle + 1 .. p - 1 : array[m + 1] < key
                                              /\ \A m \in p .. high : array[m + 1] > key
      BY <1>5, <2>3 DEF FoundIn
    <3>2. p \in low .. high + 1
      BY <1>1, <3>1
    <3>3. ASSUME NEW m \in low .. p - 1 PROVE array[m + 1] < key
      <4>1. CASE m > middle
        BY <1>1, <3>1, <4>1
      <4>2. CASE m = middle
        BY <1>5, <4>2
      <4>3. CASE m < middle
        <5>1. m \in low .. high /\ middle \in low .. high
          BY <1>1, <4>3
        <5>2. array[m + 1] < array[middle + 1] /\ array[m + 1] \in Int /\ array[middle + 1] \in Int
          BY <1>2, <4>3, <5>1
        <5> QED BY <1>5, <5>2
      <4> QED BY <1>1, <3>1, <4>1, <4>2, <4>3
    <3> QED BY <2>1, <3>1, <3>2, <3>3 DEF FoundIn
  <2> QED BY <2>2, <2>3
<1>6. ASSUME array[middle + 1] > key, NEW r, FoundIn(array, key, low, middle - 1, r)
      PROVE  FoundIn(array, key, low, high, r)
  <2>1. r \in Int
    BY <1>6 DEF FoundIn
  <2>2. CASE r \in low .. middle - 1 /\ array[r + 1] = key
    BY <1>1, <2>1, <2>2 DEF FoundIn
  <2>3. CASE ~(r \in low .. middle - 1 /\ array[r + 1] = key)
    <3>1. PICK p \in low .. (middle - 1) + 1 : /\ r = -p - 1
                                               /\ \A m \in low .. p - 1 : array[m + 1] < key
                                               /\ \A m \in p .. middle - 1 : array[m + 1] > key
      BY <1>6, <2>3 DEF FoundIn
    <3>2. p \in low .. high + 1 /\ p <= middle
      BY <1>1, <3>1
    <3>3. ASSUME NEW m \in p .. high PROVE array[m + 1] > key
      <4>1. CASE m < middle
        BY <1>1, <3>1, <4>1
      <4>2. CASE m = middle
        BY <1>6, <4>2
      <4>3. CASE m > middle
        <5>1. m \in low .. high /\ middle \in low .. high
          BY <1>1, <3>1, <4>3
        <5>2. array[middle + 1] < array[m + 1] /\ array[m + 1] \in Int /\ array[middle + 1] \in Int
          BY <1>2, <4>3, <5>1
        <5> QED BY <1>6, <5>2
      <4> QED BY <1>1, <3>1, <4>1, <4>2, <4>3
    <3> QED BY <2>1, <3>1, <3>2, <3>3 DEF FoundIn
  <2> QED BY <2>2, <2>3
<1> QED BY <1>3, <1>4, <1>5, <1>6

\* There is an answer.
LEMMA FoundSome ==
    ASSUME NEW array, NEW key \in Int, NEW low, NEW high, Window(array, low, high)
    PROVE  \E r : FoundIn(array, key, low, high, r)
<1> DEFINE T == {n \in Nat : \A a, b \in Int : Window(array, a, b) /\ b - a + 1 <= n
                                => \E r : FoundIn(array, key, a, b, r)}
<1>1. ASSUME NEW a \in Int, NEW b \in Int, Window(array, a, b), a > b
      PROVE  \E r : FoundIn(array, key, a, b, r)
  <2>1. a = b + 1 /\ a \in a .. b + 1
    BY <1>1 DEF Window
  <2>2. FoundIn(array, key, a, b, -a - 1)
    BY <1>1, <2>1 DEF FoundIn
  <2> QED BY <2>2
<1>2. 0 \in T
  BY <1>1
<1>3. ASSUME NEW n \in Nat, n \in T PROVE n + 1 \in T
  <2> SUFFICES ASSUME NEW a \in Int, NEW b \in Int, Window(array, a, b), b - a + 1 <= n + 1, a <= b
               PROVE  \E r : FoundIn(array, key, a, b, r)
    BY <1>1
  <2>1. a \in a .. b /\ a + 1 \in Int /\ a - 1 \in Int
    OBVIOUS
  <2>2. /\ array[a + 1] = key => FoundIn(array, key, a, b, a)
        /\ array[a + 1] < key => /\ Window(array, a + 1, b)
                                 /\ \A r : FoundIn(array, key, a + 1, b, r)
                                           => FoundIn(array, key, a, b, r)
        /\ array[a + 1] > key => /\ Window(array, a, a - 1)
                                 /\ \A r : FoundIn(array, key, a, a - 1, r)
                                           => FoundIn(array, key, a, b, r)
    BY <2>1, Halves
  <2>3. array[a + 1] \in Int
    BY DEF Window
  <2>4. Window(array, a + 1, b) => \E r : FoundIn(array, key, a + 1, b, r)
    <3>1. b - (a + 1) + 1 <= n
      OBVIOUS
    <3> QED BY <1>3, <2>1, <3>1
  <2>5. Window(array, a, a - 1) => \E r : FoundIn(array, key, a, a - 1, r)
    BY <1>1, <2>1
  <2>6. array[a + 1] = key \/ array[a + 1] < key \/ array[a + 1] > key
    BY <2>3
  <2> QED BY <2>2, <2>4, <2>5, <2>6
<1>4. Nat \subseteq T
  <2> HIDE DEF T
  <2> QED BY <1>2, <1>3, Induction
<1>5. low \in Int /\ high \in Int /\ high - low + 1 \in Nat /\ high - low + 1 <= high - low + 1
  BY DEF Window
<1>6. high - low + 1 \in T
  BY <1>4, <1>5
<1> QED BY <1>5, <1>6

\* The search over low and high, from any two.
Halving(array, key, f, at) ==
    LET low == at[1]
        high == at[2]
        middle == low + (high - low) \div 2
    IN IF low > high THEN Sorted!Complement(low)
       ELSE IF array[middle + 1] < key THEN f[<<middle + 1, high>>]
       ELSE IF array[middle + 1] = key THEN middle
       ELSE f[<<low, middle - 1>>]

LEMMA Middle ==
    ASSUME NEW low \in Int, NEW high \in Int, low <= high
    PROVE  low + (high - low) \div 2 \in low .. high
<1> DEFINE d == high - low
<1>1. d \in Nat
  OBVIOUS
<1>2. d \div 2 \in 0 .. d
  <2> HIDE DEF d
  <2> QED BY <1>1
<1> QED BY <1>2

\* Whatever follows the rounds of the loop finds.
LEMMA HalvingFinds ==
    ASSUME NEW array, NEW key \in Int, NEW f,
           \A at \in (0 .. Len(array)) \X (-1 .. Len(array) - 1) : f[at] = Halving(array, key, f, at),
           NEW low, NEW high, Window(array, low, high)
    PROVE  FoundIn(array, key, low, high, f[<<low, high>>])
<1> DEFINE T == {n \in Nat : \A a, b \in Int : Window(array, a, b) /\ b - a + 1 <= n
                                => FoundIn(array, key, a, b, f[<<a, b>>])}
<1>0. ASSUME NEW a \in Int, NEW b \in Int, Window(array, a, b)
      PROVE  f[<<a, b>>] = Halving(array, key, f, <<a, b>>) /\ <<a, b>>[1] = a /\ <<a, b>>[2] = b
  BY <1>0 DEF Window
<1>1. ASSUME NEW a \in Int, NEW b \in Int, Window(array, a, b), a > b
      PROVE  FoundIn(array, key, a, b, f[<<a, b>>])
  <2>1. a = b + 1 /\ a \in a .. b + 1
    BY <1>1 DEF Window
  <2>2. f[<<a, b>>] = -a - 1
    BY <1>0, <1>1 DEF Halving, Sorted!Complement
  <2> QED BY <1>1, <2>1, <2>2 DEF FoundIn
<1>2. 0 \in T
  BY <1>1
<1>3. ASSUME NEW n \in Nat, n \in T PROVE n + 1 \in T
  <2> SUFFICES ASSUME NEW a \in Int, NEW b \in Int, Window(array, a, b), b - a + 1 <= n + 1, a <= b
               PROVE  FoundIn(array, key, a, b, f[<<a, b>>])
    BY <1>1
  <2> DEFINE m == a + (b - a) \div 2
  <2>1. m \in a .. b
    BY Middle
  <2>2. f[<<a, b>>] = IF array[m + 1] < key THEN f[<<m + 1, b>>]
                      ELSE IF array[m + 1] = key THEN m ELSE f[<<a, m - 1>>]
    BY <1>0 DEF Halving
  <2> HIDE DEF m
  <2>3. /\ array[m + 1] = key => FoundIn(array, key, a, b, m)
        /\ array[m + 1] < key => /\ Window(array, m + 1, b)
                                 /\ \A r : FoundIn(array, key, m + 1, b, r)
                                           => FoundIn(array, key, a, b, r)
        /\ array[m + 1] > key => /\ Window(array, a, m - 1)
                                 /\ \A r : FoundIn(array, key, a, m - 1, r)
                                           => FoundIn(array, key, a, b, r)
    BY <2>1, Halves
  <2>4. array[m + 1] \in Int
    BY <2>1 DEF Window
  <2>5. Window(array, m + 1, b) => FoundIn(array, key, m + 1, b, f[<<m + 1, b>>])
    BY <2>1, <1>3
  <2>6. Window(array, a, m - 1) => FoundIn(array, key, a, m - 1, f[<<a, m - 1>>])
    BY <2>1, <1>3
  <2>7. CASE array[m + 1] < key
    BY <2>2, <2>3, <2>5, <2>7
  <2>8. CASE array[m + 1] = key
    <3>1. ~(array[m + 1] < key)
      BY <2>4, <2>8
    <3> QED BY <2>2, <2>3, <2>8, <3>1
  <2>9. CASE array[m + 1] > key
    BY <2>4, <2>9, <2>2, <2>3, <2>6
  <2> QED BY <2>4, <2>7, <2>8, <2>9
<1>4. Nat \subseteq T
  <2> HIDE DEF T
  <2> QED BY <1>2, <1>3, Induction
<1>5. low \in Int /\ high \in Int /\ high - low + 1 \in Nat /\ high - low + 1 <= high - low + 1
  BY DEF Window
<1>6. high - low + 1 \in T
  BY <1>4, <1>5
<1> QED BY <1>5, <1>6

\* The loop ends: there is a function that follows its rounds.
LEMMA HalvingEnds ==
    ASSUME NEW array \in Seq(Int), Sorted!Sorted(array), NEW key \in Int
    PROVE  \E f : f = [at \in (0 .. Len(array)) \X (-1 .. Len(array) - 1) |-> Halving(array, key, f, at)]
<1> DEFINE W == (0 .. Len(array)) \X (-1 .. Len(array) - 1)
           G(a, b) == IF a > b THEN -a - 1 ELSE CHOOSE r : FoundIn(array, key, a, b, r)
           f == [at \in W |-> G(at[1], at[2])]
<1>1. ASSUME NEW a, NEW b, Window(array, a, b) PROVE FoundIn(array, key, a, b, G(a, b))
  <2>0. a \in Int /\ b \in Int
    BY <1>1 DEF Window
  <2>1. CASE a > b
    <3>1. a = b + 1 /\ a \in a .. b + 1 /\ -a - 1 \in Int
      BY <1>1, <2>1 DEF Window
    <3>2. \A m \in a .. a - 1 : FALSE
      BY <2>0
    <3>3. \A m \in a .. b : FALSE
      BY <2>0, <2>1
    <3>4. FoundIn(array, key, a, b, -a - 1)
      BY <3>1, <3>2, <3>3 DEF FoundIn
    <3> QED BY <2>1, <3>4
  <2>2. CASE ~(a > b)
    BY <1>1, FoundSome, <2>2
  <2> QED BY <2>1, <2>2
<1>2. ASSUME NEW a \in 0 .. Len(array), NEW b \in -1 .. Len(array) - 1
      PROVE  f[<<a, b>>] = Halving(array, key, f, <<a, b>>)
  <2> DEFINE m == a + (b - a) \div 2
             h(r) == IF a > b THEN -a - 1
                     ELSE IF array[m + 1] < key THEN f[<<m + 1, b>>]
                     ELSE IF array[m + 1] = key THEN m ELSE f[<<a, m - 1>>]
  <2>1. Halving(array, key, f, <<a, b>>) = h(0)
    BY DEF Halving, Sorted!Complement
  <2>2. f[<<a, b>>] = G(a, b)
    <3>1. <<a, b>> \in W /\ <<a, b>>[1] = a /\ <<a, b>>[2] = b
      OBVIOUS
    <3> HIDE DEF W, G
    <3> QED BY <3>1
  <2>3. CASE a > b
    BY <2>1, <2>2, <2>3
  <2>4. CASE ~(a > b)
    <3>0. a <= b /\ Len(array) \in Nat /\ Window(array, a, b) /\ a \in Int /\ b \in Int
      BY <2>4 DEF Window
    <3>1. m \in a .. b
      BY <3>0, Middle
    <3>2. m + 1 \in 0 .. Len(array) /\ m - 1 \in -1 .. Len(array) - 1 /\ array[m + 1] \in Int
      <4> HIDE DEF m
      <4> QED BY <3>0, <3>1
    <3>3. <<m + 1, b>> \in W /\ <<a, m - 1>> \in W
      BY <3>2
    <3>4. f[<<m + 1, b>>] = G(m + 1, b) /\ f[<<a, m - 1>>] = G(a, m - 1)
      <4> HIDE DEF m, G
      <4> QED BY <3>3
    <3> HIDE DEF m, f, G
    <3>5. /\ array[m + 1] = key => FoundIn(array, key, a, b, m)
          /\ array[m + 1] < key => /\ Window(array, m + 1, b)
                                   /\ \A r : FoundIn(array, key, m + 1, b, r)
                                             => FoundIn(array, key, a, b, r)
          /\ array[m + 1] > key => /\ Window(array, a, m - 1)
                                   /\ \A r : FoundIn(array, key, a, m - 1, r)
                                             => FoundIn(array, key, a, b, r)
      BY <3>0, <3>1, Halves
    <3>6. FoundIn(array, key, a, b, G(a, b))
      BY <1>1, <3>0
    <3>7. \A r : FoundIn(array, key, a, b, r) => G(a, b) = r
      BY <3>0, <3>6, FoundOnce
    <3>8. CASE array[m + 1] < key
      <4>1. FoundIn(array, key, m + 1, b, G(m + 1, b))
        BY <1>1, <3>5, <3>8
      <4>2. G(a, b) = G(m + 1, b)
        BY <3>5, <3>7, <3>8, <4>1
      <4> QED BY <2>1, <2>2, <2>4, <3>4, <3>8, <4>2
    <3>9. CASE array[m + 1] = key
      BY <3>2, <3>9, <3>5, <3>7, <2>1, <2>2, <2>4
    <3>10. CASE array[m + 1] > key
      <4>1. ~(array[m + 1] < key) /\ array[m + 1] # key
        BY <3>2, <3>10
      <4>2. FoundIn(array, key, a, m - 1, G(a, m - 1))
        BY <1>1, <3>5, <3>10
      <4>3. G(a, b) = G(a, m - 1)
        BY <3>5, <3>7, <3>10, <4>2
      <4>4. h(0) = f[<<a, m - 1>>]
        BY <2>4, <4>1
      <4> QED BY <2>1, <2>2, <3>4, <4>3, <4>4
    <3> QED BY <3>2, <3>8, <3>9, <3>10
  <2> QED BY <2>3, <2>4
<1>3. \A at \in W : f[at] = Halving(array, key, f, at)
  <2> HIDE DEF f
  <2> SUFFICES ASSUME NEW at \in W PROVE f[at] = Halving(array, key, f, at)
    OBVIOUS
  <2>1. PICK a \in 0 .. Len(array), b \in -1 .. Len(array) - 1 : at = <<a, b>>
    OBVIOUS
  <2> QED BY <1>2, <2>1
<1>4. f = [at \in W |-> Halving(array, key, f, at)]
  <2>1. f = [at \in W |-> f[at]]
    <3> HIDE DEF G, W
    <3> QED OBVIOUS
  <2> HIDE DEF f, W
  <2> QED BY <1>3, <2>1, Zenon
<1> QED BY <1>4

\* binarySearch in a sorted array: the place of the key, or the complement of the place that
\* parts the smaller ones from the larger ones.
LEMMA SearchFinds ==
    ASSUME NEW array \in Seq(Int), Sorted!Sorted(array), NEW key \in Int
    PROVE  FoundIn(array, key, 0, Len(array) - 1, Sorted!binarySearch(array, key))
<1>1. CASE array = <<>>
  <2>1. Sorted!binarySearch(array, key) = -1
    BY <1>1 DEF Sorted!binarySearch
  <2>2. Len(array) - 1 = -1
    BY <1>1
  <2>3. 0 \in 0 .. -1 + 1 /\ -1 = -0 - 1 /\ (\A m \in 0 .. 0 - 1 : FALSE) /\ \A m \in 0 .. -1 : FALSE
    OBVIOUS
  <2>4. FoundIn(array, key, 0, -1, -1)
    <3>1. -1 \in Int
      OBVIOUS
    <3>2. \E p \in 0 .. -1 + 1 :
             /\ -1 = -p - 1
             /\ \A m \in 0 .. p - 1 : array[m + 1] < key
             /\ \A m \in p .. -1 : array[m + 1] > key
      <4> WITNESS 0 \in 0 .. -1 + 1
      <4> QED BY <2>3
    <3> QED BY <3>1, <3>2, Zenon DEF FoundIn
  <2> QED BY <2>1, <2>2, <2>4
<1>2. CASE array # <<>>
  <2> DEFINE places == (0 .. Len(array)) \X (-1 .. Len(array) - 1)
             find[at \in places] ==
                LET low == at[1]
                    high == at[2]
                    middle == low + (high - low) \div 2
                IN IF low > high THEN Sorted!Complement(low)
                   ELSE IF array[middle + 1] < key THEN find[<<middle + 1, high>>]
                   ELSE IF array[middle + 1] = key THEN middle
                   ELSE find[<<low, middle - 1>>]
  <2>1. Sorted!binarySearch(array, key) = find[<<0, Len(array) - 1>>]
    BY <1>2, Zenon DEF Sorted!binarySearch
  <2>2. find = [at \in places |-> Halving(array, key, find, at)]
    <3>1. \E f : f = [at \in places |-> Halving(array, key, f, at)]
      BY HalvingEnds
    <3> HIDE DEF places
    <3> QED BY <3>1, Zenon DEF Halving
  <2> HIDE DEF find
  <2>3. \A at \in places : find[at] = Halving(array, key, find, at)
    <3> HIDE DEF places
    <3>1. \A at \in places : [a \in places |-> Halving(array, key, find, a)][at] = Halving(array, key, find, at)
      BY Zenon
    <3> QED BY <2>2, <3>1, Zenon
  <2>4. Len(array) \in Nat /\ Len(array) > 0
    BY <1>2
  <2>5. Window(array, 0, Len(array) - 1)
    BY <2>4 DEF Window
  <2>6. FoundIn(array, key, 0, Len(array) - 1, find[<<0, Len(array) - 1>>])
    BY <2>3, <2>5, HalvingFinds
  <2> QED BY <2>1, <2>6
<1> QED BY <1>1, <1>2

LEMMA SearchIs ==
    ASSUME NEW array, array \in Seq(Int), Sorted!Sorted(array), NEW key, key \in Int,
           NEW r, r = Sorted!binarySearch(array, key)
    PROVE  /\ r \in Int /\ Len(array) \in Nat
           /\ r >= 0 => r + 1 \in Places(array) /\ array[r + 1] = key
           /\ r < 0 => /\ Sorted!Complement(r) \in 0 .. Len(array)
                       /\ \A j \in Places(array) : IF j <= Sorted!Complement(r) THEN array[j] < key ELSE array[j] > key
           /\ r < 0 => \A j \in Places(array) : array[j] # key
<1>1. FoundIn(array, key, 0, Len(array) - 1, r)
  BY SearchFinds
<1>2. Len(array) \in Nat /\ r \in Int /\ \A j \in Places(array) : array[j] \in Int
  BY <1>1 DEF FoundIn, Places
<1>3. CASE r \in 0 .. Len(array) - 1 /\ array[r + 1] = key
  BY <1>2, <1>3 DEF Places
<1>4. CASE ~(r \in 0 .. Len(array) - 1 /\ array[r + 1] = key)
  <2>1. PICK p \in 0 .. (Len(array) - 1) + 1 :
           /\ r = -p - 1
           /\ \A m \in 0 .. p - 1 : array[m + 1] < key
           /\ \A m \in p .. Len(array) - 1 : array[m + 1] > key
    BY <1>1, <1>4 DEF FoundIn
  <2>2. p \in 0 .. Len(array) /\ r < 0 /\ Sorted!Complement(r) = p
    BY <1>2, <2>1 DEF Sorted!Complement
  <2>3. ASSUME NEW j \in Places(array) PROVE IF j <= p THEN array[j] < key ELSE array[j] > key
    <3>0. j - 1 \in Int /\ (j - 1) + 1 = j /\ 1 <= j /\ j <= Len(array)
      BY <1>2 DEF Places
    <3>1. CASE j <= p
      BY <2>2, <3>0, <3>1, <2>1
    <3>2. CASE ~(j <= p)
      BY <1>2, <2>2, <3>0, <3>2, <2>1
    <3> QED BY <3>1, <3>2
  <2>4. ASSUME NEW j \in Places(array) PROVE array[j] # key
    BY <1>2, <2>3
  <2> QED BY <1>2, <2>2, <2>3, <2>4
<1> QED BY <1>3, <1>4

LEMMA SortedIs ==
    ASSUME NEW s, s \in Seq(Int)
    PROVE  Sorted!Sorted(s) <=> \A i, j \in Places(s) : i < j => s[i] < s[j]
<1>1. DOMAIN s = Places(s)
  BY DEF Places
<1> QED BY <1>1 DEF Sorted!Sorted

\* Nothing is twice in a sorted array.
LEMMA SortedOnce ==
    ASSUME NEW s, s \in Seq(Int), Sorted!Sorted(s)
    PROVE  \A i, j \in Places(s) : s[i] = s[j] => i = j
BY SortedIs DEF Places

LEMMA SpliceIn ==
    ASSUME NEW S, NEW s, s \in Seq(S), NEW x, x \in S, NEW p, p \in 0 .. Len(s),
           NEW t, t = Sorted!Inserted(s, p, x)
    PROVE  /\ t \in Seq(S) /\ Len(t) = Len(s) + 1 /\ Len(s) \in Nat /\ Places(t) = 1 .. Len(s) + 1
           /\ \A j \in Places(t) : t[j] = IF j <= p THEN s[j] ELSE IF j = p + 1 THEN x ELSE s[j - 1]
<1>1. t = InsertAt(s, p + 1, x) /\ p + 1 \in 1 .. Len(s) + 1 /\ Len(s) \in Nat /\ p \in Int
  BY DEF Sorted!Inserted, Sorted!InsertAt, InsertAt
<1>2. /\ InsertAt(s, p + 1, x) \in Seq(S)
      /\ Len(InsertAt(s, p + 1, x)) = Len(s) + 1
      /\ \A j \in 1 .. Len(s) + 1 :
            InsertAt(s, p + 1, x)[j] = IF j < p + 1 THEN s[j] ELSE IF j = p + 1 THEN x ELSE s[j - 1]
  <2>1. s \in Seq(S) /\ x \in S
    OBVIOUS
  <2>2. PICK i \in 1 .. Len(s) + 1 : i = p + 1
    BY <1>1
  <2>3. /\ InsertAt(s, i, x) \in Seq(S)
        /\ Len(InsertAt(s, i, x)) = Len(s) + 1
        /\ \A j \in 1 .. Len(s) + 1 :
              InsertAt(s, i, x)[j] = IF j < i THEN s[j] ELSE IF j = i THEN x ELSE s[j - 1]
    BY <2>1, InsertAtIs, SMTT(30)
  <2> QED BY <2>2, <2>3
<1>3. Places(t) = 1 .. Len(s) + 1
  BY <1>1, <1>2 DEF Places
<1>4. ASSUME NEW j \in Places(t) PROVE t[j] = IF j <= p THEN s[j] ELSE IF j = p + 1 THEN x ELSE s[j - 1]
  <2>1. (j < p + 1 <=> j <= p) /\ j \in 1 .. Len(s) + 1
    BY <1>1, <1>3
  <2> QED BY <1>1, <1>2, <2>1
<1> QED BY <1>1, <1>2, <1>3, <1>4

LEMMA SpliceOut ==
    ASSUME NEW S, NEW s, s \in Seq(S), NEW p, p \in Int, p + 1 \in Places(s),
           NEW t, t = Sorted!Removed(s, p)
    PROVE  /\ t \in Seq(S) /\ Len(t) = Len(s) - 1 /\ Len(s) \in Nat /\ Places(t) = 1 .. Len(s) - 1
           /\ \A j \in Places(t) : t[j] = IF j <= p THEN s[j] ELSE s[j + 1]
<1>0. t = RemoveAt(s, p + 1)
  BY Zenon DEF Sorted!Removed, Sorted!RemoveAt, RemoveAt
<1>1. t = RemoveAt(s, p + 1) /\ p + 1 \in 1 .. Len(s) /\ Len(s) \in Nat
  BY <1>0 DEF Places
<1>2. /\ RemoveAt(s, p + 1) \in Seq(S)
      /\ Len(RemoveAt(s, p + 1)) = Len(s) - 1
      /\ \A j \in 1 .. Len(s) - 1 : RemoveAt(s, p + 1)[j] = IF j < p + 1 THEN s[j] ELSE s[j + 1]
  <2>1. s \in Seq(S)
    OBVIOUS
  <2>2. PICK i \in 1 .. Len(s) : i = p + 1
    BY <1>1
  <2>3. /\ RemoveAt(s, i) \in Seq(S)
        /\ Len(RemoveAt(s, i)) = Len(s) - 1
        /\ \A j \in 1 .. Len(s) - 1 : RemoveAt(s, i)[j] = IF j < i THEN s[j] ELSE s[j + 1]
    BY <2>1, RemoveAtIs, SMTT(30)
  <2> QED BY <2>2, <2>3
<1>3. Places(t) = 1 .. Len(s) - 1
  BY <1>1, <1>2 DEF Places
<1>4. ASSUME NEW j \in Places(t) PROVE t[j] = IF j <= p THEN s[j] ELSE s[j + 1]
  <2>1. (j < p + 1 <=> j <= p) /\ j \in 1 .. Len(s) - 1
    BY <1>1, <1>3
  <2> QED BY <1>1, <1>2, <2>1
<1> QED BY <1>1, <1>2, <1>3, <1>4

LEMMA InsertsSorted ==
    ASSUME NEW s, s \in Seq(Int), Sorted!Sorted(s), NEW x, x \in Int,
           NEW r, r = Sorted!binarySearch(s, x), r < 0,
           NEW p, p = Sorted!Complement(r), NEW t, t = Sorted!Inserted(s, p, x)
    PROVE  Sorted!Sorted(t)
<1>1. /\ p \in 0 .. Len(s) /\ Len(s) \in Nat
      /\ \A j \in Places(s) : IF j <= p THEN s[j] < x ELSE s[j] > x
  BY SearchIs
<1>2. /\ t \in Seq(Int) /\ Len(t) = Len(s) + 1 /\ Len(s) \in Nat /\ Places(t) = 1 .. Len(s) + 1
      /\ \A j \in Places(t) : t[j] = IF j <= p THEN s[j] ELSE IF j = p + 1 THEN x ELSE s[j - 1]
  <2>1. p \in 0 .. Len(s)
    BY <1>1
  <2> DEFINE S == Int
  <2>2. s \in Seq(S) /\ x \in S
    OBVIOUS
  <2> HIDE DEF S
  <2>4. /\ t \in Seq(S) /\ Len(t) = Len(s) + 1 /\ Len(s) \in Nat /\ Places(t) = 1 .. Len(s) + 1
        /\ \A j \in Places(t) : t[j] = IF j <= p THEN s[j] ELSE IF j = p + 1 THEN x ELSE s[j - 1]
    BY <2>1, <2>2, SpliceIn
  <2> QED BY <2>4 DEF S
<1>3. \A i, j \in Places(s) : /\ i < j => s[i] < s[j]
                              /\ s[i] \in Int
  BY SortedIs DEF Places
<1>4. ASSUME NEW i \in Places(t), NEW j \in Places(t), i < j PROVE t[i] < t[j]
  <2>4. /\ t[i] = IF i <= p THEN s[i] ELSE IF i = p + 1 THEN x ELSE s[i - 1]
        /\ t[j] = IF j <= p THEN s[j] ELSE IF j = p + 1 THEN x ELSE s[j - 1]
    BY <1>2
  <2>0. i \in Int /\ j \in Int /\ p \in Int /\ 1 <= i /\ j <= Len(s) + 1 /\ i <= Len(s) + 1 /\ 1 <= j
    BY <1>1, <1>2
  <2>1. CASE j <= p
    <3>0. i \in 1 .. Len(s) /\ j \in 1 .. Len(s) /\ i <= p
      BY <1>1, <1>4, <2>0, <2>1
    <3>1. i \in Places(s) /\ j \in Places(s) /\ t[i] = s[i] /\ t[j] = s[j]
      BY <2>1, <2>4, <3>0 DEF Places
    <3> QED BY <1>3, <1>4, <3>1
  <2>2. CASE j = p + 1
    <3>0. i \in 1 .. Len(s) /\ i <= p /\ ~(j <= p)
      BY <1>1, <1>4, <2>0, <2>2
    <3>1. i \in Places(s) /\ i <= p /\ t[i] = s[i] /\ t[j] = x
      BY <2>2, <2>4, <3>0 DEF Places
    <3> QED BY <1>1, <3>1
  <2>3. CASE j > p + 1
    <3>0. j - 1 \in 1 .. Len(s) /\ ~(j - 1 <= p) /\ ~(j <= p) /\ j # p + 1
      BY <1>1, <2>0, <2>3
    <3>1. j - 1 \in Places(s) /\ t[j] = s[j - 1] /\ ~(j - 1 <= p)
      BY <2>4, <3>0 DEF Places
    <3>2. s[j - 1] > x /\ s[j - 1] \in Int
      BY <1>1, <1>3, <3>1
    <3>3. CASE i <= p
      <4>1. i \in Places(s) /\ t[i] = s[i] /\ s[i] < x /\ s[i] \in Int
        <5>1. i \in 1 .. Len(s)
          BY <1>1, <2>0, <3>3
        <5>2. i \in Places(s) /\ t[i] = s[i]
          BY <2>4, <3>3, <5>1 DEF Places
        <5> QED BY <1>1, <1>3, <3>3, <5>2
      <4> QED BY <3>1, <3>2, <4>1
    <3>4. CASE i = p + 1
      <4>1. t[i] = x
        BY <1>2, <2>0, <3>4
      <4> QED BY <3>1, <3>2, <4>1
    <3>5. CASE i > p + 1
      <4>1. i - 1 \in Places(s) /\ t[i] = s[i - 1] /\ i - 1 < j - 1
        <5>1. i - 1 \in 1 .. Len(s) /\ i - 1 < j - 1 /\ ~(i <= p) /\ i # p + 1
          BY <1>1, <1>4, <2>0, <3>5
        <5> QED BY <2>4, <5>1 DEF Places
      <4> QED BY <1>3, <3>1, <4>1
    <3> QED BY <2>0, <3>3, <3>4, <3>5
  <2> QED BY <2>0, <2>1, <2>2, <2>3
<1> QED BY <1>2, <1>4, SortedIs

LEMMA RemovesSorted ==
    ASSUME NEW s, s \in Seq(Int), Sorted!Sorted(s), NEW p, p \in Int, p + 1 \in Places(s),
           NEW t, t = Sorted!Removed(s, p)
    PROVE  Sorted!Sorted(t)
<1>1. /\ t \in Seq(Int) /\ Len(s) \in Nat /\ Places(t) = 1 .. Len(s) - 1
      /\ \A j \in Places(t) : t[j] = IF j <= p THEN s[j] ELSE s[j + 1]
  BY SpliceOut
<1>2. \A i, j \in Places(s) : i < j => s[i] < s[j]
  BY SortedIs
<1> DEFINE at(j) == IF j <= p THEN j ELSE j + 1
<1>3. ASSUME NEW i \in Places(t), NEW j \in Places(t), i < j PROVE t[i] < t[j]
  <2>0. i \in 1 .. Len(s) - 1 /\ j \in 1 .. Len(s) - 1
    BY <1>1
  <2>1. at(i) \in Places(s) /\ at(j) \in Places(s) /\ at(i) < at(j)
    <3>1. at(i) \in 1 .. Len(s) /\ at(j) \in 1 .. Len(s)
      BY <1>1, <2>0
    <3>2. at(i) < at(j)
      BY <1>3, <2>0
    <3> QED BY <3>1, <3>2 DEF Places
  <2>2. t[i] = s[at(i)] /\ t[j] = s[at(j)]
    BY <1>1
  <2> HIDE DEF at
  <2> QED BY <1>2, <2>1, <2>2
<1> QED BY <1>1, <1>3, SortedIs

LEMMA PlaceIs ==
    ASSUME NEW s, s \in Seq(Int), Sorted!Sorted(s)
    PROVE  /\ \A i \in Places(s) : Sorted!binarySearch(s, s[i]) = i - 1
           /\ \A k \in Int : Sorted!binarySearch(s, k) >= 0 <=> \E i \in Places(s) : s[i] = k
<1>1. ASSUME NEW k, k \in Int
      PROVE  /\ Sorted!binarySearch(s, k) \in Int
             /\ Sorted!binarySearch(s, k) >= 0 => /\ Sorted!binarySearch(s, k) + 1 \in Places(s)
                                                  /\ s[Sorted!binarySearch(s, k) + 1] = k
             /\ Sorted!binarySearch(s, k) < 0 => \A j \in Places(s) : s[j] # k
  <2> DEFINE r == Sorted!binarySearch(s, k)
  <2>1. r = Sorted!binarySearch(s, k)
    OBVIOUS
  <2> HIDE DEF r
  <2>2. /\ r \in Int
        /\ r >= 0 => r + 1 \in Places(s) /\ s[r + 1] = k
        /\ r < 0 => \A j \in Places(s) : s[j] # k
    BY <1>1, <2>1, SearchIs
  <2> QED BY <2>1, <2>2
<1>2. ASSUME NEW i \in Places(s) PROVE Sorted!binarySearch(s, s[i]) = i - 1
  <2> DEFINE r == Sorted!binarySearch(s, s[i])
  <2>1. s[i] \in Int /\ i \in Int
    BY DEF Places
  <2>2. /\ r \in Int
        /\ r >= 0 => r + 1 \in Places(s) /\ s[r + 1] = s[i]
        /\ r < 0 => s[i] # s[i]
    BY <1>1, <2>1
  <2> HIDE DEF r
  <2>3. r + 1 = i
    BY <2>2, SortedOnce
  <2>4. r = i - 1
    BY <2>1, <2>2, <2>3
  <2> QED BY <2>4 DEF r
<1>3. ASSUME NEW k \in Int
      PROVE  Sorted!binarySearch(s, k) >= 0 <=> \E i \in Places(s) : s[i] = k
  BY <1>1
<1> QED BY <1>2, <1>3

-----------------------------------------------------------------------------
(* SortedMap *)

\* The keys are in order, and there are as many values.
SortedIInv == /\ _keys \in Seq(Keys) /\ Sorted!Sorted(_keys)
              /\ _values \in Seq(Values) /\ Len(_values) = Len(_keys)

AreInts(S) == S \subseteq Int

LEMMA SequencesOfInts ==
    ASSUME NEW S, AreInts(S), NEW s, s \in Seq(S)
    PROVE  s \in Seq(Int) /\ Len(s) \in Nat
<1> DEFINE T == Int
<1>1. S \subseteq T /\ s \in Seq(S)
  BY DEF AreInts
<1> HIDE DEF T
<1>2. s \in Seq(T)
  BY <1>1, SeqMonotonic
<1> QED BY <1>2 DEF T

\* A key that is not there goes into its array at the place the search tells.
LEMMA KeySpliced ==
    ASSUME NEW K, AreInts(K), NEW ks, ks \in Seq(K), Sorted!Sorted(ks), NEW k, k \in K,
           NEW r, r = Sorted!binarySearch(ks, k), r < 0, NEW p, p = Sorted!Complement(r),
           NEW kt, kt = Sorted!Inserted(ks, p, k)
    PROVE  /\ kt \in Seq(K) /\ Len(kt) = Len(ks) + 1 /\ Places(kt) = 1 .. Len(ks) + 1
           /\ p \in 0 .. Len(ks) /\ Sorted!Sorted(kt)
           /\ \A j \in Places(kt) : kt[j] = IF j <= p THEN ks[j] ELSE IF j = p + 1 THEN k ELSE ks[j - 1]
<1>1. ks \in Seq(Int) /\ k \in Int /\ Len(ks) \in Nat
  BY SequencesOfInts DEF AreInts
<1>2. p \in 0 .. Len(ks)
  BY <1>1, SearchIs
<1>3. ks \in Seq(K) /\ k \in K
  OBVIOUS
<1>4. /\ kt \in Seq(K) /\ Len(kt) = Len(ks) + 1 /\ Places(kt) = 1 .. Len(ks) + 1
      /\ \A j \in Places(kt) : kt[j] = IF j <= p THEN ks[j] ELSE IF j = p + 1 THEN k ELSE ks[j - 1]
  BY <1>2, <1>3, SpliceIn
<1>5. Sorted!Sorted(kt)
  BY <1>1, InsertsSorted
<1> QED BY <1>2, <1>4, <1>5

\* What SortedMap does to its two arrays.
LEMMA SetSteps ==
    ASSUME AreInts(Keys), SortedIInv, NEW key \in Keys, NEW value \in Values, Sorted!Set(key, value),
           NEW r, r = Sorted!binarySearch(_keys, key)
    PROVE  /\ SortedIInv'
           /\ r \in Int /\ _keys \in Seq(Int) /\ Len(_keys) \in Nat
           /\ r >= 0 => /\ r + 1 \in Places(_keys) /\ _keys[r + 1] = key /\ _keys' = _keys
                        /\ _values' = [_values EXCEPT ![r + 1] = value]
           /\ r < 0 => \E p \in 0 .. Len(_keys) :
                          /\ Places(_keys') = 1 .. Len(_keys) + 1
                          /\ \A j \in Places(_keys') :
                                /\ _keys'[j] = IF j <= p THEN _keys[j] ELSE IF j = p + 1 THEN key ELSE _keys[j - 1]
                                /\ _values'[j] = IF j <= p THEN _values[j] ELSE IF j = p + 1 THEN value ELSE _values[j - 1]
<1>0. _keys \in Seq(Keys) /\ _values \in Seq(Values) /\ Len(_values) = Len(_keys) /\ Sorted!Sorted(_keys)
  BY DEF SortedIInv
<1>1. _keys \in Seq(Int) /\ key \in Int /\ Len(_keys) \in Nat
  BY <1>0, SequencesOfInts DEF AreInts
<1>2. /\ r \in Int
      /\ r >= 0 => r + 1 \in Places(_keys) /\ _keys[r + 1] = key
      /\ r < 0 => Sorted!Complement(r) \in 0 .. Len(_keys)
  BY <1>0, <1>1, SearchIs
<1>3. CASE r >= 0
  <2>1. _keys' = _keys /\ _values' = [_values EXCEPT ![r + 1] = value]
    BY <1>3 DEF Sorted!Set, Sorted!Has, Sorted!Place
  <2>2. _values' \in Seq(Values) /\ Len(_values') = Len(_values)
    BY <1>0, <1>2, <1>3, <2>1 DEF Places
  <2>3. SortedIInv'
    BY <1>0, <2>1, <2>2 DEF SortedIInv
  <2> QED BY <1>1, <1>2, <1>3, <2>1, <2>3
<1>4. CASE ~(r >= 0)
  <2> DEFINE p == Sorted!Complement(r)
  <2>1. _keys' = Sorted!Inserted(_keys, p, key) /\ _values' = Sorted!Inserted(_values, p, value)
    BY <1>4 DEF Sorted!Set, Sorted!Has, Sorted!Place
  <2>2. r < 0 /\ p \in 0 .. Len(_keys)
    BY <1>2, <1>4
  <2>3. PICK q : q = p
    OBVIOUS
  <2>4. q = Sorted!Complement(r)
    BY <2>3
  <2> HIDE DEF p
  <2>11. _keys' = Sorted!Inserted(_keys, q, key) /\ _values' = Sorted!Inserted(_values, q, value)
    BY <2>1, <2>3
  <2>12. key \in Keys /\ value \in Values
    OBVIOUS
  <2>6. /\ _keys' \in Seq(Keys) /\ Len(_keys') = Len(_keys) + 1 /\ Places(_keys') = 1 .. Len(_keys) + 1
        /\ q \in 0 .. Len(_keys) /\ Sorted!Sorted(_keys')
        /\ \A j \in Places(_keys') :
              _keys'[j] = IF j <= q THEN _keys[j] ELSE IF j = q + 1 THEN key ELSE _keys[j - 1]
    BY <1>0, <2>2, <2>4, <2>11, <2>12, KeySpliced
  <2>7. q \in 0 .. Len(_values)
    BY <1>0, <2>6
  <2>9. /\ _values' \in Seq(Values) /\ Len(_values') = Len(_values) + 1
        /\ Places(_values') = 1 .. Len(_values) + 1
        /\ \A j \in Places(_values') :
              _values'[j] = IF j <= q THEN _values[j] ELSE IF j = q + 1 THEN value ELSE _values[j - 1]
    <3>1. _values \in Seq(Values)
      BY <1>0
    <3> QED BY <2>7, <2>11, <2>12, <3>1, SpliceIn
  <2>5. /\ _keys' \in Seq(Keys) /\ Len(_keys') = Len(_keys) + 1 /\ Places(_keys') = 1 .. Len(_keys) + 1
        /\ _values' \in Seq(Values) /\ Len(_values') = Len(_values) + 1
        /\ q \in 0 .. Len(_keys) /\ Sorted!Sorted(_keys')
    BY <2>6, <2>9
  <2>13. Places(_values') = Places(_keys')
    BY <1>0, <2>6, <2>9
  <2>10. \A j \in Places(_keys') :
           /\ _keys'[j] = IF j <= q THEN _keys[j] ELSE IF j = q + 1 THEN key ELSE _keys[j - 1]
           /\ _values'[j] = IF j <= q THEN _values[j] ELSE IF j = q + 1 THEN value ELSE _values[j - 1]
    BY <2>6, <2>9, <2>13
  <2>8. SortedIInv'
    BY <1>0, <2>5 DEF SortedIInv
  <2> QED BY <1>1, <1>2, <1>4, <2>5, <2>8, <2>10
<1> QED BY <1>3, <1>4

LEMMA DeleteKeySteps ==
    ASSUME AreInts(Keys), SortedIInv, NEW key \in Keys, Sorted!Delete(key)
    PROVE  /\ SortedIInv' /\ _keys \in Seq(Int) /\ Len(_keys) \in Nat
           /\ \E p \in Int :
                 /\ p + 1 \in Places(_keys) /\ _keys[p + 1] = key
                 /\ Places(_keys') = 1 .. Len(_keys) - 1
                 /\ \A j \in Places(_keys') : /\ _keys'[j] = IF j <= p THEN _keys[j] ELSE _keys[j + 1]
                                              /\ _values'[j] = IF j <= p THEN _values[j] ELSE _values[j + 1]
<1>0. _keys \in Seq(Keys) /\ _values \in Seq(Values) /\ Len(_values) = Len(_keys) /\ Sorted!Sorted(_keys)
  BY DEF SortedIInv
<1>1. _keys \in Seq(Int) /\ key \in Int /\ Len(_keys) \in Nat
  BY <1>0, SequencesOfInts DEF AreInts
<1>2. PICK p : p = Sorted!binarySearch(_keys, key)
  OBVIOUS
<1>3. p >= 0 /\ _keys' = Sorted!Removed(_keys, p) /\ _values' = Sorted!Removed(_values, p)
  BY <1>2 DEF Sorted!Delete, Sorted!Has, Sorted!Place
<1>4. p \in Int /\ p + 1 \in Places(_keys) /\ _keys[p + 1] = key
  BY <1>0, <1>1, <1>2, <1>3, SearchIs
<1>5. p + 1 \in Places(_values)
  BY <1>0, <1>4 DEF Places
<1>6. /\ _keys' \in Seq(Keys) /\ Len(_keys') = Len(_keys) - 1 /\ Places(_keys') = 1 .. Len(_keys) - 1
      /\ \A j \in Places(_keys') : _keys'[j] = IF j <= p THEN _keys[j] ELSE _keys[j + 1]
  BY <1>0, <1>3, <1>4, SpliceOut
<1>7. /\ _values' \in Seq(Values) /\ Len(_values') = Len(_values) - 1 /\ Places(_values') = 1 .. Len(_values) - 1
      /\ \A j \in Places(_values') : _values'[j] = IF j <= p THEN _values[j] ELSE _values[j + 1]
  BY <1>0, <1>3, <1>4, <1>5, SpliceOut
<1>8. Sorted!Sorted(_keys')
  BY <1>0, <1>1, <1>3, <1>4, RemovesSorted
<1>9. SortedIInv'
  BY <1>0, <1>6, <1>7, <1>8 DEF SortedIInv
<1>10. Places(_values') = Places(_keys')
  BY <1>0, <1>6, <1>7
<1>11. \A j \in Places(_keys') : /\ _keys'[j] = IF j <= p THEN _keys[j] ELSE _keys[j + 1]
                                 /\ _values'[j] = IF j <= p THEN _values[j] ELSE _values[j + 1]
  BY <1>6, <1>7, <1>10
<1> QED BY <1>1, <1>4, <1>6, <1>9, <1>11

LEMMA SortedStarts == Sorted!Init => SortedIInv
<1> SUFFICES ASSUME Sorted!Init PROVE SortedIInv
  OBVIOUS
<1>1. _keys = <<>> /\ _values = <<>>
  BY DEF Sorted!Init
<1> QED BY <1>1 DEF SortedIInv, Sorted!Sorted

LEMMA SortedPreserves ==
    ASSUME AreInts(Keys), SortedIInv, Sorted!Next \/ UNCHANGED Sorted!sortedVars
    PROVE  SortedIInv'
<1>1. ASSUME NEW key \in Keys, NEW value \in Values, Sorted!Set(key, value) PROVE SortedIInv'
  <2>1. PICK r : r = Sorted!binarySearch(_keys, key)
    OBVIOUS
  <2> QED BY <1>1, <2>1, SetSteps
<1>2. ASSUME NEW key \in Keys, Sorted!Delete(key) PROVE SortedIInv'
  BY <1>2, DeleteKeySteps
<1>3. CASE Sorted!Clear
  BY <1>3 DEF Sorted!Clear, SortedIInv, Sorted!Sorted
<1>4. CASE UNCHANGED Sorted!sortedVars
  BY <1>4 DEF SortedIInv, Sorted!sortedVars
<1> QED BY <1>1, <1>2, <1>3, <1>4 DEF Sorted!Next

\* A search finds what is in the array.
LEMMA FoundIsRange ==
    ASSUME NEW K, AreInts(K), NEW s, s \in Seq(K), Sorted!Sorted(s)
    PROVE  Sorted!Range(s) = {k \in K : Sorted!binarySearch(s, k) >= 0}
<1>1. s \in Seq(Int)
  BY SequencesOfInts
<1>2. \A k \in Int : Sorted!binarySearch(s, k) >= 0 <=> \E i \in Places(s) : s[i] = k
  BY <1>1, PlaceIs
<1>3. Sorted!Range(s) = {s[i] : i \in Places(s)}
  BY DEF Sorted!Range, Places
<1>4. \A i \in Places(s) : s[i] \in K
  BY DEF Places
<1>5. \A k \in K : k \in Int
  BY DEF AreInts
<1>6. \A k : k \in Sorted!Range(s) <=> k \in K /\ \E i \in Places(s) : s[i] = k
  BY <1>3, <1>4
<1>7. \A k \in K : Sorted!binarySearch(s, k) >= 0 <=> \E i \in Places(s) : s[i] = k
  BY <1>2, <1>5
<1> QED BY <1>6, <1>7

LEMMA SortedIInvSorts == ASSUME AreInts(Keys), SortedIInv PROVE Sorted!KeysSorted
BY FoundIsRange DEF SortedIInv, Sorted!KeysSorted, Sorted!Has, Sorted!Place

\* The map that two arrays stand for.
MapOf(keys, ks, vs) == [key \in {k \in keys : Sorted!binarySearch(ks, k) >= 0} |->
                           vs[Sorted!binarySearch(ks, key) + 1]]

\* Each key of the one array, with the value at its place of the other.
Keyed(m, ks, vs) ==
    /\ m = [k \in DOMAIN m |-> m[k]]
    /\ \A k : k \in DOMAIN m <=> \E i \in Places(ks) : ks[i] = k
    /\ \A i \in Places(ks) : ks[i] \in DOMAIN m /\ m[ks[i]] = vs[i]

\* What setting and deleting make of a map.
Added(m, n, key, value) == n = [k \in DOMAIN m \cup {key} |-> IF k = key THEN value ELSE m[k]]
Dropped(m, n, key) == n = [k \in DOMAIN m \cap (DOMAIN m \ {key}) |-> m[k]]

LEMMA MapIs ==
    ASSUME NEW K, AreInts(K), NEW ks, ks \in Seq(K), Sorted!Sorted(ks), NEW vs,
           NEW m, m = MapOf(K, ks, vs)
    PROVE  Keyed(m, ks, vs)
<1>1. ks \in Seq(Int) /\ \A k \in K : k \in Int
  BY SequencesOfInts DEF AreInts
<1>2. /\ \A i \in Places(ks) : Sorted!binarySearch(ks, ks[i]) = i - 1
      /\ \A k \in Int : Sorted!binarySearch(ks, k) >= 0 <=> \E i \in Places(ks) : ks[i] = k
  BY <1>1, PlaceIs
<1>3. \A i \in Places(ks) : ks[i] \in K /\ i \in Int
  BY DEF Places
<1>4. DOMAIN m = {k \in K : Sorted!binarySearch(ks, k) >= 0}
  BY DEF MapOf
<1>5. \A k : k \in DOMAIN m <=> \E i \in Places(ks) : ks[i] = k
  BY <1>1, <1>2, <1>3, <1>4
<1>6. ASSUME NEW i \in Places(ks) PROVE ks[i] \in DOMAIN m /\ m[ks[i]] = vs[i]
  BY <1>5, <1>4, <1>2, <1>3 DEF MapOf
<1>7. m = [k \in DOMAIN m |-> m[k]]
  BY DEF MapOf
<1> QED BY <1>5, <1>6, <1>7 DEF Keyed

\* A value in the place of another one.
LEMMA MapReplaced ==
    ASSUME NEW K, AreInts(K), NEW ks, ks \in Seq(K), Sorted!Sorted(ks), NEW V, NEW vs, vs \in Seq(V),
           Len(vs) = Len(ks), NEW key, NEW value, NEW r, r \in Int, r + 1 \in Places(ks), ks[r + 1] = key,
           NEW vt, vt = [vs EXCEPT ![r + 1] = value],
           NEW m, Keyed(m, ks, vs), NEW n, Keyed(n, ks, vt)
    PROVE  Added(m, n, key, value)
<1>1. /\ \A k : k \in DOMAIN m <=> \E i \in Places(ks) : ks[i] = k
      /\ \A i \in Places(ks) : ks[i] \in DOMAIN m /\ m[ks[i]] = vs[i]
  BY DEF Keyed
<1>2. /\ n = [k \in DOMAIN n |-> n[k]]
      /\ \A k : k \in DOMAIN n <=> \E i \in Places(ks) : ks[i] = k
      /\ \A i \in Places(ks) : ks[i] \in DOMAIN n /\ n[ks[i]] = vt[i]
  BY DEF Keyed
<1>3. \A i, j \in Places(ks) : ks[i] = ks[j] => i = j
  <2>1. ks \in Seq(Int)
    BY SequencesOfInts
  <2> QED BY <2>1, SortedOnce
<1>4. \A i \in Places(ks) : vt[i] = IF i = r + 1 THEN value ELSE vs[i]
  BY DEF Places
<1>5. DOMAIN n = DOMAIN m \cup {key}
  BY <1>1, <1>2
<1>6. ASSUME NEW k \in DOMAIN n PROVE n[k] = IF k = key THEN value ELSE m[k]
  <2>1. PICK i \in Places(ks) : ks[i] = k
    BY <1>2
  <2>2. k = key <=> i = r + 1
    BY <1>3, <2>1
  <2>3. n[k] = vt[i] /\ m[k] = vs[i]
    BY <1>1, <1>2, <2>1
  <2> QED BY <1>4, <2>2, <2>3
<1> QED BY <1>2, <1>5, <1>6 DEF Added

\* A key and its value at the place p.
LEMMA MapGrown ==
    ASSUME NEW K, AreInts(K), NEW ks, ks \in Seq(K), Sorted!Sorted(ks), NEW vs,
           NEW kt, kt \in Seq(K), Sorted!Sorted(kt), NEW vt, NEW key, NEW value,
           NEW p, p \in 0 .. Len(ks), Places(kt) = 1 .. Len(ks) + 1,
           \A i \in Places(ks) : ks[i] # key,
           \A j \in Places(kt) :
              /\ kt[j] = IF j <= p THEN ks[j] ELSE IF j = p + 1 THEN key ELSE ks[j - 1]
              /\ vt[j] = IF j <= p THEN vs[j] ELSE IF j = p + 1 THEN value ELSE vs[j - 1],
           NEW m, Keyed(m, ks, vs), NEW n, Keyed(n, kt, vt)
    PROVE  Added(m, n, key, value)
<1>1. /\ \A k : k \in DOMAIN m <=> \E i \in Places(ks) : ks[i] = k
      /\ \A i \in Places(ks) : ks[i] \in DOMAIN m /\ m[ks[i]] = vs[i]
  BY DEF Keyed
<1>2. /\ n = [k \in DOMAIN n |-> n[k]]
      /\ \A k : k \in DOMAIN n <=> \E i \in Places(kt) : kt[i] = k
      /\ \A i \in Places(kt) : kt[i] \in DOMAIN n /\ n[kt[i]] = vt[i]
  BY DEF Keyed
<1>3. Len(ks) \in Nat /\ p \in Int /\ 0 <= p /\ p <= Len(ks)
  BY SequencesOfInts
<1>4. ASSUME NEW i \in Places(ks)
      PROVE  \E j \in Places(kt) : kt[j] = ks[i] /\ vt[j] = vs[i]
  <2>0. i \in Int /\ 1 <= i /\ i <= Len(ks)
    BY <1>3 DEF Places
  <2>1. CASE i <= p
    <3>1. i \in Places(kt)
      BY <1>3, <2>0
    <3> QED BY <2>1, <3>1
  <2>2. CASE ~(i <= p)
    <3>1. i + 1 \in Places(kt) /\ ~(i + 1 <= p) /\ i + 1 # p + 1 /\ (i + 1) - 1 = i
      BY <1>3, <2>0, <2>2
    <3>2. kt[i + 1] = ks[(i + 1) - 1] /\ vt[i + 1] = vs[(i + 1) - 1]
      BY <3>1
    <3> QED BY <3>1, <3>2
  <2> QED BY <2>1, <2>2
<1>5. p + 1 \in Places(kt) /\ kt[p + 1] = key /\ vt[p + 1] = value
  <2>1. p + 1 \in Places(kt) /\ ~(p + 1 <= p)
    BY <1>3
  <2> QED BY <2>1
<1>6. ASSUME NEW j \in Places(kt) PROVE kt[j] = key \/ \E i \in Places(ks) : kt[j] = ks[i]
  <2>0. j \in Int /\ 1 <= j /\ j <= Len(ks) + 1
    BY <1>3
  <2>1. CASE j <= p
    <3>1. j \in Places(ks)
      BY <1>3, <2>0, <2>1 DEF Places
    <3> QED BY <2>1, <3>1
  <2>2. CASE j = p + 1
    BY <1>5, <2>2
  <2>3. CASE ~(j <= p) /\ j # p + 1
    BY <1>3, <2>0, <2>3 DEF Places
  <2> QED BY <2>1, <2>2, <2>3
<1>7. \A k : k \in DOMAIN n <=> k \in DOMAIN m \/ k = key
  <2>1. ASSUME NEW k, k \in DOMAIN n PROVE k \in DOMAIN m \/ k = key
    BY <1>1, <1>2, <1>6, <2>1, SMTT(30)
  <2>2. ASSUME NEW k, k \in DOMAIN m PROVE k \in DOMAIN n
    BY <1>1, <1>2, <1>4, <2>2
  <2>3. key \in DOMAIN n
    BY <1>2, <1>5
  <2> QED BY <2>1, <2>2, <2>3
<1>8. DOMAIN n = DOMAIN m \cup {key}
  BY <1>7
<1>9. ASSUME NEW k \in DOMAIN n PROVE n[k] = IF k = key THEN value ELSE m[k]
  <2>1. CASE k = key
    BY <1>2, <1>5, <2>1
  <2>2. CASE k # key
    <3>1. PICK i \in Places(ks) : ks[i] = k
      BY <1>1, <1>7, <2>2
    <3>2. PICK j \in Places(kt) : kt[j] = ks[i] /\ vt[j] = vs[i]
      BY <1>4
    <3>3. n[k] = vt[j] /\ m[k] = vs[i]
      BY <1>1, <1>2, <3>1, <3>2
    <3> QED BY <2>2, <3>2, <3>3
  <2> QED BY <2>1, <2>2
<1> QED BY <1>2, <1>8, <1>9 DEF Added

\* The place p taken out.
LEMMA MapShrunk ==
    ASSUME NEW K, AreInts(K), NEW ks, ks \in Seq(K), Sorted!Sorted(ks), NEW vs,
           NEW kt, kt \in Seq(K), Sorted!Sorted(kt), NEW vt, NEW key,
           NEW p, p \in Int, p + 1 \in Places(ks), ks[p + 1] = key, Places(kt) = 1 .. Len(ks) - 1,
           \A j \in Places(kt) : /\ kt[j] = IF j <= p THEN ks[j] ELSE ks[j + 1]
                                 /\ vt[j] = IF j <= p THEN vs[j] ELSE vs[j + 1],
           NEW m, Keyed(m, ks, vs), NEW n, Keyed(n, kt, vt)
    PROVE  Dropped(m, n, key)
<1>1. /\ \A k : k \in DOMAIN m <=> \E i \in Places(ks) : ks[i] = k
      /\ \A i \in Places(ks) : ks[i] \in DOMAIN m /\ m[ks[i]] = vs[i]
  BY DEF Keyed
<1>2. /\ n = [k \in DOMAIN n |-> n[k]]
      /\ \A k : k \in DOMAIN n <=> \E i \in Places(kt) : kt[i] = k
      /\ \A i \in Places(kt) : kt[i] \in DOMAIN n /\ n[kt[i]] = vt[i]
  BY DEF Keyed
<1>3. Len(ks) \in Nat /\ 0 <= p /\ p + 1 <= Len(ks)
  BY SequencesOfInts DEF Places
<1>4. \A i, j \in Places(ks) : ks[i] = ks[j] => i = j
  <2>1. ks \in Seq(Int)
    BY SequencesOfInts
  <2> QED BY <2>1, SortedOnce
<1>5. ASSUME NEW i \in Places(ks), i # p + 1
      PROVE  \E j \in Places(kt) : kt[j] = ks[i] /\ vt[j] = vs[i]
  <2>0. i \in Int /\ 1 <= i /\ i <= Len(ks)
    BY <1>3 DEF Places
  <2>1. CASE i <= p
    <3>1. i \in Places(kt)
      BY <1>3, <2>0, <2>1
    <3> QED BY <2>1, <3>1
  <2>2. CASE ~(i <= p)
    <3>1. i - 1 \in Places(kt) /\ ~(i - 1 <= p) /\ (i - 1) + 1 = i
      BY <1>3, <1>5, <2>0, <2>2
    <3>2. kt[i - 1] = ks[(i - 1) + 1] /\ vt[i - 1] = vs[(i - 1) + 1]
      BY <3>1
    <3> QED BY <3>1, <3>2
  <2> QED BY <2>1, <2>2
<1>6. ASSUME NEW j \in Places(kt) PROVE kt[j] # key /\ \E i \in Places(ks) : kt[j] = ks[i]
  <2>0. j \in Int /\ 1 <= j /\ j <= Len(ks) - 1
    BY <1>3
  <2>1. CASE j <= p
    BY <1>3, <2>0, <2>1, <1>4 DEF Places
  <2>2. CASE ~(j <= p)
    BY <1>3, <2>0, <2>2, <1>4 DEF Places
  <2> QED BY <2>1, <2>2
<1>7. \A k : k \in DOMAIN n <=> k \in DOMAIN m /\ k # key
  <2>1. ASSUME NEW k, k \in DOMAIN n PROVE k \in DOMAIN m /\ k # key
    BY <1>1, <1>2, <1>6, <2>1
  <2>2. ASSUME NEW k, k \in DOMAIN m, k # key PROVE k \in DOMAIN n
    BY <1>1, <1>2, <1>5, <2>2
  <2> QED BY <2>1, <2>2
<1>8. DOMAIN n = DOMAIN m \cap (DOMAIN m \ {key})
  BY <1>7
<1>9. ASSUME NEW k \in DOMAIN n PROVE n[k] = m[k]
  <2>1. PICK i \in Places(ks) : ks[i] = k
    BY <1>1, <1>7
  <2>2. i # p + 1
    BY <1>7, <2>1
  <2>3. PICK j \in Places(kt) : kt[j] = ks[i] /\ vt[j] = vs[i]
    BY <1>5, <2>2
  <2> QED BY <1>1, <1>2, <2>1, <2>3
<1> QED BY <1>2, <1>8, <1>9 DEF Dropped

LEMMA SortedKeyed ==
    ASSUME AreInts(Keys), NEW ks, NEW vs, ks \in Seq(Keys), Sorted!Sorted(ks)
    PROVE  Keyed(MapOf(Keys, ks, vs), ks, vs)
<1>1. PICK m : m = MapOf(Keys, ks, vs)
  OBVIOUS
<1>2. Keyed(m, ks, vs)
  BY <1>1, MapIs
<1> QED BY <1>1, <1>2

LEMMA SortedMapsSet ==
    ASSUME AreInts(Keys), SortedIInv, NEW key \in Keys, NEW value \in Values, Sorted!Set(key, value)
    PROVE  MapOf(Keys, _keys', _values')
              = [k \in DOMAIN MapOf(Keys, _keys, _values) \cup {key} |->
                    IF k = key THEN value ELSE MapOf(Keys, _keys, _values)[k]]
<1>1. PICK r : r = Sorted!binarySearch(_keys, key)
  OBVIOUS
<1>2. /\ SortedIInv'
      /\ r \in Int /\ _keys \in Seq(Int) /\ Len(_keys) \in Nat
      /\ r >= 0 => /\ r + 1 \in Places(_keys) /\ _keys[r + 1] = key /\ _keys' = _keys
                   /\ _values' = [_values EXCEPT ![r + 1] = value]
      /\ r < 0 => \E p \in 0 .. Len(_keys) :
                     /\ Places(_keys') = 1 .. Len(_keys) + 1
                     /\ \A j \in Places(_keys') :
                           /\ _keys'[j] = IF j <= p THEN _keys[j] ELSE IF j = p + 1 THEN key ELSE _keys[j - 1]
                           /\ _values'[j] = IF j <= p THEN _values[j] ELSE IF j = p + 1 THEN value ELSE _values[j - 1]
  BY <1>1, SetSteps
<1>3. _keys \in Seq(Keys) /\ _values \in Seq(Values) /\ Len(_values) = Len(_keys) /\ Sorted!Sorted(_keys)
  BY DEF SortedIInv
<1>4. _keys' \in Seq(Keys) /\ Sorted!Sorted(_keys')
  BY <1>2 DEF SortedIInv
<1>5. PICK m, n, ks, vs, kt, vt :
         /\ ks = _keys /\ vs = _values /\ kt = _keys' /\ vt = _values'
         /\ m = MapOf(Keys, ks, vs) /\ n = MapOf(Keys, kt, vt)
  OBVIOUS
<1>6. Keyed(m, ks, vs) /\ Keyed(n, kt, vt)
  BY <1>3, <1>4, <1>5, SortedKeyed
<1>8. CASE r >= 0
  <2>1. Keyed(m, ks, vs) /\ Keyed(n, ks, vt)
    BY <1>2, <1>5, <1>6, <1>8
  <2>2. ks \in Seq(Keys) /\ Sorted!Sorted(ks) /\ vs \in Seq(Values) /\ Len(vs) = Len(ks)
    BY <1>3, <1>5
  <2>3. r \in Int /\ r + 1 \in Places(ks) /\ ks[r + 1] = key /\ vt = [vs EXCEPT ![r + 1] = value]
    BY <1>2, <1>5, <1>8
  <2>4. Added(m, n, key, value)
    BY <2>1, <2>2, <2>3, MapReplaced
  <2> QED BY <1>5, <2>4 DEF Added
<1>9. CASE r < 0
  <2>1. PICK p \in 0 .. Len(_keys) :
                     /\ Places(_keys') = 1 .. Len(_keys) + 1
                     /\ \A j \in Places(_keys') :
                           /\ _keys'[j] = IF j <= p THEN _keys[j] ELSE IF j = p + 1 THEN key ELSE _keys[j - 1]
                           /\ _values'[j] = IF j <= p THEN _values[j] ELSE IF j = p + 1 THEN value ELSE _values[j - 1]
    BY <1>2, <1>9
  <2>2. \A i \in Places(ks) : ks[i] # key
    <3>1. key \in Int
      BY DEF AreInts
    <3> QED BY <1>1, <1>2, <1>3, <1>5, <1>9, <3>1, SearchIs
  <2>3. /\ ks \in Seq(Keys) /\ Sorted!Sorted(ks) /\ kt \in Seq(Keys) /\ Sorted!Sorted(kt)
        /\ Places(kt) = 1 .. Len(ks) + 1 /\ p \in 0 .. Len(ks)
    BY <1>3, <1>4, <1>5, <2>1
  <2>4. \A j \in Places(kt) :
           /\ kt[j] = IF j <= p THEN ks[j] ELSE IF j = p + 1 THEN key ELSE ks[j - 1]
           /\ vt[j] = IF j <= p THEN vs[j] ELSE IF j = p + 1 THEN value ELSE vs[j - 1]
    BY <1>5, <2>1, Zenon
  <2>5. Added(m, n, key, value)
    BY <1>6, <2>2, <2>3, <2>4, MapGrown
  <2> QED BY <1>5, <2>5 DEF Added
<1> QED BY <1>2, <1>8, <1>9

LEMMA SortedMapsDelete ==
    ASSUME AreInts(Keys), SortedIInv, NEW key \in Keys, Sorted!Delete(key)
    PROVE  MapOf(Keys, _keys', _values')
              = [k \in DOMAIN MapOf(Keys, _keys, _values) \cap (DOMAIN MapOf(Keys, _keys, _values) \ {key})
                    |-> MapOf(Keys, _keys, _values)[k]]
<1>2. /\ SortedIInv' /\ _keys \in Seq(Int) /\ Len(_keys) \in Nat
      /\ \E p \in Int :
            /\ p + 1 \in Places(_keys) /\ _keys[p + 1] = key
            /\ Places(_keys') = 1 .. Len(_keys) - 1
            /\ \A j \in Places(_keys') : /\ _keys'[j] = IF j <= p THEN _keys[j] ELSE _keys[j + 1]
                                         /\ _values'[j] = IF j <= p THEN _values[j] ELSE _values[j + 1]
  BY DeleteKeySteps
<1>3. _keys \in Seq(Keys) /\ Sorted!Sorted(_keys)
  BY DEF SortedIInv
<1>4. _keys' \in Seq(Keys) /\ Sorted!Sorted(_keys')
  BY <1>2 DEF SortedIInv
<1>5. PICK m, n, ks, vs, kt, vt :
         /\ ks = _keys /\ vs = _values /\ kt = _keys' /\ vt = _values'
         /\ m = MapOf(Keys, ks, vs) /\ n = MapOf(Keys, kt, vt)
  OBVIOUS
<1>6. Keyed(m, ks, vs) /\ Keyed(n, kt, vt)
  BY <1>3, <1>4, <1>5, SortedKeyed
<1>7. PICK p \in Int :
            /\ p + 1 \in Places(_keys) /\ _keys[p + 1] = key
            /\ Places(_keys') = 1 .. Len(_keys) - 1
            /\ \A j \in Places(_keys') : /\ _keys'[j] = IF j <= p THEN _keys[j] ELSE _keys[j + 1]
                                         /\ _values'[j] = IF j <= p THEN _values[j] ELSE _values[j + 1]
  BY <1>2
<1>8. /\ ks \in Seq(Keys) /\ Sorted!Sorted(ks) /\ kt \in Seq(Keys) /\ Sorted!Sorted(kt)
      /\ p + 1 \in Places(ks) /\ ks[p + 1] = key /\ Places(kt) = 1 .. Len(ks) - 1 /\ p \in Int
  BY <1>3, <1>4, <1>5, <1>7
<1>9. \A j \in Places(kt) : /\ kt[j] = IF j <= p THEN ks[j] ELSE ks[j + 1]
                            /\ vt[j] = IF j <= p THEN vs[j] ELSE vs[j + 1]
  BY <1>5, <1>7, Zenon
<1>10. Dropped(m, n, key)
  BY <1>6, <1>8, <1>9, MapShrunk
<1> QED BY <1>5, <1>10 DEF Dropped

\* Every step of the sorted arrays is a step of the map they stand for.
LEMMA SortedMapsNext ==
    ASSUME AreInts(Keys), SortedIInv, Sorted!Next \/ UNCHANGED Sorted!sortedVars
    PROVE  [Sorted!Map!Next]_(MapOf(Keys, _keys, _values))
<1> DEFINE m == MapOf(Keys, _keys, _values)
           n == MapOf(Keys, _keys', _values')
<1>1. /\ m = [key \in {k \in Keys : Sorted!Has(k)} |-> Sorted!Get(key)]
      /\ n = [key \in {k \in Keys : Sorted!Has(k)} |-> Sorted!Get(key)]'
  BY DEF MapOf, Sorted!Has, Sorted!Get, Sorted!Place
<1>2. ASSUME NEW key \in Keys, NEW value \in Values, Sorted!Set(key, value) PROVE Sorted!Map!Next
  <2>1. n = [k \in DOMAIN m \cup {key} |-> IF k = key THEN value ELSE m[k]]
    BY <1>2, SortedMapsSet
  <2> HIDE DEF m, n
  <2>2. Sorted!Map!Set(key, value)
    BY <1>1, <2>1 DEF Sorted!Map!Set
  <2> QED BY <2>2 DEF Sorted!Map!Next
<1>3. ASSUME NEW key \in Keys, Sorted!Delete(key) PROVE Sorted!Map!Next
  <2>1. n = [k \in DOMAIN m \cap (DOMAIN m \ {key}) |-> m[k]]
    BY <1>3, SortedMapsDelete
  <2> HIDE DEF m, n
  <2>2. Sorted!Map!Delete(key)
    BY <1>1, <2>1 DEF Sorted!Map!Delete, Sorted!Map!Restrict
  <2> QED BY <2>2 DEF Sorted!Map!Next
<1>4. CASE Sorted!Clear
  <2>1. _keys' = <<>> /\ _values' = <<>>
    BY <1>4 DEF Sorted!Clear
  <2>2. \A k : ~(k \in {k1 \in Keys : Sorted!binarySearch(_keys', k1) >= 0})
    BY <2>1 DEF Sorted!binarySearch
  <2>3. DOMAIN n = {} /\ n = [k \in DOMAIN n |-> n[k]]
    BY <2>2 DEF MapOf
  <2>4. n = [k \in DOMAIN m \cap {} |-> m[k]]
    <3> HIDE DEF m, n
    <3> QED BY <2>3
  <2> HIDE DEF m, n
  <2>5. Sorted!Map!Clear
    BY <1>1, <2>4 DEF Sorted!Map!Clear, Sorted!Map!Restrict
  <2> QED BY <2>5 DEF Sorted!Map!Next
<1>5. CASE UNCHANGED Sorted!sortedVars
  BY <1>5 DEF Sorted!sortedVars, MapOf
<1> QED BY <1>2, <1>3, <1>4, <1>5 DEF Sorted!Next

LEMMA SortedMapsStart ==
    ASSUME Sorted!Init PROVE Sorted!Map!Init
BY DEF Sorted!Init, Sorted!binarySearch, Sorted!Has, Sorted!Place, Sorted!Map!Init

\* SortedMap's arrays of keys and values are a map.
THEOREM SortedArraysAreMaps == ASSUME Keys \subseteq Int PROVE Sorted!Spec => Sorted!ImplementsMap
<1>0. AreInts(Keys)
  BY DEF AreInts
<1>1. Sorted!Init => Sorted!Map!Init
  BY SortedMapsStart
<1>2. Sorted!Init => SortedIInv
  BY SortedStarts
<1>3. SortedIInv /\ [Sorted!Next]_Sorted!sortedVars => SortedIInv'
  BY <1>0, SortedPreserves
<1>4. SortedIInv /\ [Sorted!Next]_Sorted!sortedVars
         => [Sorted!Map!Next]_([key \in {k \in Keys : Sorted!Has(k)} |-> Sorted!Get(key)])
  BY <1>0, SortedMapsNext DEF MapOf, Sorted!Has, Sorted!Get, Sorted!Place
<1> QED BY <1>1, <1>2, <1>3, <1>4, PTL DEF Sorted!Spec, Sorted!ImplementsMap, Sorted!Map!Spec

-----------------------------------------------------------------------------
(* SortedSet *)

\* The values are in order.
SetIInv == _values \in Seq(Values) /\ Sorted!Sorted(_values)

LEMMA SetPreserves ==
    ASSUME AreInts(Values), SetIInv, Sorted!SetNext \/ UNCHANGED Sorted!sortedVars
    PROVE  SetIInv'
<1>0. _values \in Seq(Values) /\ Sorted!Sorted(_values)
  BY DEF SetIInv
<1>1. _values \in Seq(Int) /\ Len(_values) \in Nat
  BY <1>0, SequencesOfInts
<1>2. ASSUME NEW value \in Values, Sorted!Add(value) PROVE SetIInv'
  <2>1. PICK r : r = Sorted!binarySearch(_values, value)
    OBVIOUS
  <2>2. value \in Int
    BY DEF AreInts
  <2>3. /\ r \in Int
        /\ r >= 0 => r + 1 \in Places(_values) /\ _values[r + 1] = value
        /\ r < 0 => Sorted!Complement(r) \in 0 .. Len(_values)
    BY <1>0, <1>1, <2>1, <2>2, SearchIs
  <2>4. CASE r >= 0
    <3>1. _values' = [_values EXCEPT ![r + 1] = value]
      BY <1>2, <2>1, <2>4 DEF Sorted!Add, Sorted!HasValue, Sorted!PlaceOf
    <3>2. _values' = _values
      BY <1>0, <2>3, <2>4, <3>1 DEF Places
    <3> QED BY <1>0, <3>2 DEF SetIInv
  <2>5. CASE ~(r >= 0)
    <3>1. PICK q : q = Sorted!Complement(r)
      OBVIOUS
    <3>2. _values' = Sorted!Inserted(_values, q, value)
      BY <1>2, <2>1, <2>5, <3>1 DEF Sorted!Add, Sorted!HasValue, Sorted!PlaceOf
    <3>3. r < 0
      BY <2>3, <2>5
    <3>4. _values' \in Seq(Values) /\ Sorted!Sorted(_values')
      BY <1>0, <2>1, <3>1, <3>2, <3>3, KeySpliced
    <3> QED BY <3>4 DEF SetIInv
  <2> QED BY <2>4, <2>5
<1>3. ASSUME NEW value \in Values, Sorted!DeleteValue(value) PROVE SetIInv'
  <2>1. PICK p : p = Sorted!binarySearch(_values, value)
    OBVIOUS
  <2>2. p >= 0 /\ _values' = Sorted!Removed(_values, p)
    BY <1>3, <2>1 DEF Sorted!DeleteValue, Sorted!HasValue, Sorted!PlaceOf
  <2>3. value \in Int
    BY DEF AreInts
  <2>4. p \in Int /\ p + 1 \in Places(_values)
    BY <1>0, <1>1, <2>1, <2>2, <2>3, SearchIs
  <2>5. _values' \in Seq(Values)
    BY <1>0, <2>2, <2>4, SpliceOut
  <2>6. Sorted!Sorted(_values')
    BY <1>0, <1>1, <2>2, <2>4, RemovesSorted
  <2> QED BY <2>5, <2>6 DEF SetIInv
<1>4. CASE Sorted!ClearValues
  <2>1. _values' = <<>>
    BY <1>4 DEF Sorted!ClearValues
  <2> QED BY <2>1 DEF SetIInv, Sorted!Sorted
<1>5. CASE UNCHANGED Sorted!sortedVars
  BY <1>5 DEF SetIInv, Sorted!sortedVars
<1> QED BY <1>2, <1>3, <1>4, <1>5 DEF Sorted!SetNext

LEMMA SetIInvSorts == ASSUME AreInts(Values), SetIInv PROVE Sorted!ValuesSorted
BY FoundIsRange DEF SetIInv, Sorted!ValuesSorted, Sorted!HasValue, Sorted!PlaceOf

\* A search finds each key of SortedMap, and no other.
THEOREM KeysStaySorted == ASSUME Keys \subseteq Int PROVE Sorted!Spec => []Sorted!KeysSorted
<1>0. AreInts(Keys)
  BY DEF AreInts
<1>1. Sorted!Init => SortedIInv
  BY SortedStarts
<1>2. SortedIInv /\ [Sorted!Next]_Sorted!sortedVars => SortedIInv'
  BY <1>0, SortedPreserves
<1>3. SortedIInv => Sorted!KeysSorted
  BY <1>0, SortedIInvSorts
<1> QED BY <1>1, <1>2, <1>3, PTL DEF Sorted!Spec

\* A search finds each value of SortedSet, and no other.
THEOREM ValuesStaySorted ==
    ASSUME Values \subseteq Int
    PROVE  Sorted!Init /\ [][Sorted!SetNext]_Sorted!sortedVars => []Sorted!ValuesSorted
<1>0. AreInts(Values)
  BY DEF AreInts
<1>1. Sorted!Init => SetIInv
  <2>1. <<>> \in Seq(Values)
    OBVIOUS
  <2> QED BY <2>1 DEF Sorted!Init, SetIInv, Sorted!Sorted
<1>2. SetIInv /\ [Sorted!SetNext]_Sorted!sortedVars => SetIInv'
  BY <1>0, SetPreserves
<1>3. SetIInv => Sorted!ValuesSorted
  BY <1>0, SetIInvSorts
<1> QED BY <1>1, <1>2, <1>3, PTL

-----------------------------------------------------------------------------
(* MultiMap *)

\* There are finitely many values, some for each key, and the count is theirs.
MultiIInv == /\ IsFiniteSet(Multi!Pairs) /\ count = Cardinality(Multi!Pairs)
             /\ \A key \in DOMAIN _map : IsFiniteSet(_map[key]) /\ _map[key] # {}

\* The pairs of a map of sets.
PairsOf(m) == UNION {{key} \X m[key] : key \in DOMAIN m}

LEMMA PairIs == ASSUME NEW m PROVE \A p : p \in PairsOf(m) <=> \E k \in DOMAIN m : \E v \in m[k] : p = <<k, v>>
BY DEF PairsOf

LEMMA PairKeyIs ==
    ASSUME NEW m, NEW k, NEW v
    PROVE  <<k, v>> \in PairsOf(m) <=> k \in DOMAIN m /\ v \in m[k]
BY PairIs

LEMMA SameCardinality == \A S : Multi!Cardinality(S) = Cardinality(S)
BY Zenon DEF Multi!Cardinality, Cardinality, Multi!IsFiniteSet, IsFiniteSet

LEMMA MultiAdd ==
    ASSUME MultiIInv, NEW key \in Keys, NEW value \in Values, Multi!Add(key, value)
    PROVE  MultiIInv'
<1>0. /\ IsFiniteSet(PairsOf(_map)) /\ count = Cardinality(PairsOf(_map))
      /\ \A k \in DOMAIN _map : IsFiniteSet(_map[k]) /\ _map[k] # {}
  BY DEF MultiIInv, Multi!Pairs, PairsOf
<1> DEFINE values == IF key \in DOMAIN _map THEN _map[key] ELSE {}
<1>1. /\ _map' = [k \in DOMAIN _map \cup {key} |-> IF k = key THEN values \cup {value} ELSE _map[k]]
      /\ count' = count + Cardinality(values \cup {value}) - Cardinality(values)
  BY SameCardinality DEF Multi!Add, Multi!With
<1>2. IsFiniteSet(values)
  BY <1>0, FS_EmptySet
<1>3. value \in values <=> <<key, value>> \in PairsOf(_map)
  BY PairKeyIs
<1>4. PairsOf(_map') = PairsOf(_map) \cup {<<key, value>>}
  <2>1. \A k, v : <<k, v>> \in PairsOf(_map') <=> <<k, v>> \in PairsOf(_map) \/ (k = key /\ v = value)
    <3> TAKE k, v
    <3>1. <<k, v>> \in PairsOf(_map') <=> k \in DOMAIN _map' /\ v \in _map'[k]
      BY PairKeyIs
    <3>2. <<k, v>> \in PairsOf(_map) <=> k \in DOMAIN _map /\ v \in _map[k]
      BY PairKeyIs
    <3> QED BY <1>1, <3>1, <3>2
  <2>2. ASSUME NEW p, p \in PairsOf(_map') PROVE p \in PairsOf(_map) \cup {<<key, value>>}
    <3>1. PICK k, v : p = <<k, v>>
      BY <2>2, PairIs
    <3> QED BY <2>1, <2>2, <3>1
  <2>3. ASSUME NEW p, p \in PairsOf(_map) PROVE p \in PairsOf(_map')
    <3>1. PICK k, v : p = <<k, v>>
      BY <2>3, PairIs
    <3> QED BY <2>1, <2>3, <3>1
  <2>4. <<key, value>> \in PairsOf(_map')
    BY <2>1
  <2> QED BY <2>2, <2>3, <2>4
<1> HIDE DEF values
<1>5. /\ IsFiniteSet(values \cup {value})
      /\ Cardinality(values \cup {value}) = IF value \in values THEN Cardinality(values) ELSE Cardinality(values) + 1
      /\ Cardinality(values) \in Nat
  BY <1>2, FS_AddElement, FS_CardinalityType
<1>6. /\ IsFiniteSet(PairsOf(_map'))
      /\ Cardinality(PairsOf(_map')) = IF <<key, value>> \in PairsOf(_map) THEN count ELSE count + 1
      /\ count \in Nat
  BY <1>0, <1>4, FS_AddElement, FS_CardinalityType
<1>7. count' = Cardinality(PairsOf(_map'))
  BY <1>1, <1>3, <1>5, <1>6
<1>8. \A k \in DOMAIN _map' : IsFiniteSet(_map'[k]) /\ _map'[k] # {}
  BY <1>0, <1>1, <1>5
<1> QED BY <1>6, <1>7, <1>8 DEF MultiIInv, Multi!Pairs, PairsOf

LEMMA MultiDelete ==
    ASSUME MultiIInv, NEW key \in Keys, Multi!Delete(key)
    PROVE  MultiIInv'
<1>0. /\ IsFiniteSet(PairsOf(_map)) /\ count = Cardinality(PairsOf(_map))
      /\ \A k \in DOMAIN _map : IsFiniteSet(_map[k]) /\ _map[k] # {}
  BY DEF MultiIInv, Multi!Pairs, PairsOf
<1>1. /\ key \in DOMAIN _map
      /\ DOMAIN _map' = DOMAIN _map \ {key} /\ \A k \in DOMAIN _map' : _map'[k] = _map[k]
      /\ count' = count - Cardinality(_map[key])
  BY SameCardinality DEF Multi!Delete, Multi!Without, Multi!Restrict
<1> DEFINE gone == {key} \X _map[key]
<1>2. PairsOf(_map') = PairsOf(_map) \ gone
  <2>1. \A k, v : <<k, v>> \in PairsOf(_map') <=> <<k, v>> \in PairsOf(_map) /\ k # key
    <3> TAKE k, v
    <3>1. <<k, v>> \in PairsOf(_map') <=> k \in DOMAIN _map' /\ v \in _map'[k]
      BY PairKeyIs
    <3>2. <<k, v>> \in PairsOf(_map) <=> k \in DOMAIN _map /\ v \in _map[k]
      BY PairKeyIs
    <3> QED BY <1>1, <3>1, <3>2
  <2>2. ASSUME NEW p, p \in PairsOf(_map') PROVE p \in PairsOf(_map) \ gone
    <3>1. PICK k, v : p = <<k, v>>
      BY <2>2, PairIs
    <3> QED BY <2>1, <2>2, <3>1
  <2>3. ASSUME NEW p, p \in PairsOf(_map) \ gone PROVE p \in PairsOf(_map')
    <3>1. PICK k \in DOMAIN _map : \E v \in _map[k] : p = <<k, v>>
      BY <2>3, PairIs
    <3>2. PICK v \in _map[k] : p = <<k, v>>
      BY <3>1
    <3>3. k # key
      BY <2>3, <3>2
    <3> QED BY <2>1, <2>3, <3>2, <3>3
  <2> QED BY <2>2, <2>3
<1>3. PairsOf(_map) \cap gone = gone
  BY <1>1, PairIs
<1>4. IsFiniteSet(_map[key]) /\ Cardinality(_map[key]) \in Nat /\ Cardinality(gone) = Cardinality(_map[key])
  <2>1. IsFiniteSet(_map[key]) /\ Cardinality(_map[key]) \in Nat
    BY <1>0, <1>1, FS_CardinalityType
  <2>2. IsFiniteSet({key}) /\ Cardinality({key}) = 1
    BY FS_Singleton
  <2>3. Cardinality(gone) = Cardinality({key}) * Cardinality(_map[key])
    BY <2>1, <2>2, FS_Product
  <2> QED BY <2>1, <2>2, <2>3
<1> HIDE DEF gone
<1>5. /\ IsFiniteSet(PairsOf(_map'))
      /\ Cardinality(PairsOf(_map')) = count - Cardinality(gone)
  BY <1>0, <1>2, <1>3, FS_Difference
<1>6. count' = Cardinality(PairsOf(_map'))
  BY <1>1, <1>4, <1>5
<1>7. \A k \in DOMAIN _map' : IsFiniteSet(_map'[k]) /\ _map'[k] # {}
  BY <1>0, <1>1
<1> QED BY <1>5, <1>6, <1>7 DEF MultiIInv, Multi!Pairs, PairsOf

LEMMA MultiDeleteValue ==
    ASSUME MultiIInv, NEW key \in Keys, NEW value \in Values, Multi!DeleteValue(key, value)
    PROVE  MultiIInv'
<1>0. /\ IsFiniteSet(PairsOf(_map)) /\ count = Cardinality(PairsOf(_map))
      /\ \A k \in DOMAIN _map : IsFiniteSet(_map[k]) /\ _map[k] # {}
  BY DEF MultiIInv, Multi!Pairs, PairsOf
<1>1. /\ key \in DOMAIN _map /\ value \in _map[key] /\ count' = count - 1
      /\ _map' = IF _map[key] = {value} THEN Multi!Without(key) ELSE Multi!With(key, _map[key] \ {value})
  BY SameCardinality DEF Multi!DeleteValue
<1>2. /\ \A k : k \in DOMAIN _map' <=> k \in DOMAIN _map /\ (k = key => _map[key] # {value})
      /\ \A k \in DOMAIN _map' : _map'[k] = IF k = key THEN _map[key] \ {value} ELSE _map[k]
  BY <1>1 DEF Multi!Without, Multi!Restrict, Multi!With
<1>3. PairsOf(_map') = PairsOf(_map) \ {<<key, value>>}
  <2>1. \A k, v : <<k, v>> \in PairsOf(_map') <=> <<k, v>> \in PairsOf(_map) /\ ~(k = key /\ v = value)
    <3> TAKE k, v
    <3>1. <<k, v>> \in PairsOf(_map') <=> k \in DOMAIN _map' /\ v \in _map'[k]
      BY PairKeyIs
    <3>2. <<k, v>> \in PairsOf(_map) <=> k \in DOMAIN _map /\ v \in _map[k]
      BY PairKeyIs
    <3>3. CASE k = key
      BY <1>1, <1>2, <3>1, <3>2, <3>3
    <3>4. CASE k # key
      BY <1>1, <1>2, <3>1, <3>2, <3>4
    <3> QED BY <3>3, <3>4
  <2>2. ASSUME NEW p, p \in PairsOf(_map') PROVE p \in PairsOf(_map) \ {<<key, value>>}
    <3>1. PICK k, v : p = <<k, v>>
      BY <2>2, PairIs
    <3> QED BY <2>1, <2>2, <3>1
  <2>3. ASSUME NEW p, p \in PairsOf(_map), p # <<key, value>> PROVE p \in PairsOf(_map')
    <3>1. PICK k, v : p = <<k, v>>
      BY <2>3, PairIs
    <3> QED BY <2>1, <2>3, <3>1
  <2> QED BY <2>2, <2>3
<1>4. <<key, value>> \in PairsOf(_map)
  BY <1>1, PairKeyIs
<1>5. IsFiniteSet(PairsOf(_map')) /\ Cardinality(PairsOf(_map')) = count - 1
  BY <1>0, <1>3, <1>4, FS_RemoveElement
<1>6. \A k \in DOMAIN _map' : IsFiniteSet(_map'[k]) /\ _map'[k] # {}
  <2>1. IsFiniteSet(_map[key] \ {value})
    BY <1>0, <1>1, FS_RemoveElement
  <2>2. key \in DOMAIN _map' => _map[key] \ {value} # {}
    BY <1>1, <1>2
  <2> QED BY <1>0, <1>2, <2>1, <2>2
<1> QED BY <1>1, <1>5, <1>6 DEF MultiIInv, Multi!Pairs, PairsOf

LEMMA MultiStarts == ASSUME Multi!Init PROVE MultiIInv
BY FS_EmptySet DEF Multi!Init, Multi!Pairs, MultiIInv

LEMMA MultiPreserves ==
    ASSUME MultiIInv, Multi!Next \/ UNCHANGED Multi!multiVars
    PROVE  MultiIInv'
<1>1. CASE Multi!Clear
  BY <1>1, FS_EmptySet DEF Multi!Clear, Multi!Restrict, Multi!Pairs, MultiIInv
<1>2. CASE UNCHANGED Multi!multiVars
  BY <1>2 DEF MultiIInv, Multi!Pairs, Multi!multiVars
<1> QED BY <1>1, <1>2, MultiAdd, MultiDelete, MultiDeleteValue DEF Multi!Next

\* MultiMap's count is that of its values, and no key is without any.
THEOREM ValuesAreCounted == Multi!Spec => []Multi!SizeCounts
<1>1. Multi!Init => MultiIInv
  BY MultiStarts
<1>2. MultiIInv /\ [Multi!Next]_Multi!multiVars => MultiIInv'
  BY MultiPreserves
<1>3. MultiIInv => Multi!SizeCounts
  BY SameCardinality DEF MultiIInv, Multi!SizeCounts
<1> QED BY <1>1, <1>2, <1>3, PTL DEF Multi!Spec

-----------------------------------------------------------------------------
(* The hash table. *)

CONSTANTS Hash, Primes, MaxEntries, MaxReuses
VARIABLES buckets, entries, object, size, freeSize, freeList, tail, cursor, reused

Table == INSTANCE HashMap

-----------------------------------------------------------------------------
(* Chains: numbers, each once, of which nx leads from one to the next and  *)
(* from the last to -1.                                                    *)

Chained(s, from, nx, S) ==
    /\ s \in Seq(Nat) /\ \A i, j \in Places(s) : s[i] = s[j] => i = j
    /\ S = {s[i] : i \in Places(s)}
    /\ from = IF Len(s) = 0 THEN -1 ELSE s[1]
    /\ \A i \in Places(s) : nx[s[i]] = IF i = Len(s) THEN -1 ELSE s[i + 1]

Chain(from, nx, S) == \E s : Chained(s, from, nx, S)

LEMMA ChainEmpty == ASSUME NEW nx PROVE Chain(-1, nx, {})
<1>1. Chained(<<>>, -1, nx, {})
  BY DEF Chained, Places
<1> QED BY <1>1 DEF Chain

LEMMA ChainTypes ==
    ASSUME NEW s, NEW from, NEW nx, NEW S, Chained(s, from, nx, S)
    PROVE  /\ Len(s) \in Nat /\ S \subseteq Nat /\ from \in S \cup {-1}
           /\ from = -1 <=> Len(s) = 0
           /\ S = {} <=> Len(s) = 0
           /\ \A x \in S : nx[x] \in S \cup {-1}
<1>1. s \in Seq(Nat) /\ Len(s) \in Nat /\ \A i \in Places(s) : s[i] \in Nat
  BY DEF Chained, Places
<1>2. S = {s[i] : i \in Places(s)} /\ S \subseteq Nat
  BY <1>1 DEF Chained
<1>3. from \in S \cup {-1} /\ (from = -1 <=> Len(s) = 0) /\ (S = {} <=> Len(s) = 0)
  <2>1. CASE Len(s) = 0
    BY <1>1, <1>2, <2>1 DEF Chained, Places
  <2>2. CASE Len(s) # 0
    <3>1. 1 \in Places(s) /\ from = s[1]
      BY <1>1, <2>2 DEF Chained, Places
    <3>2. s[1] \in S /\ s[1] \in Nat
      BY <1>1, <1>2, <3>1
    <3> QED BY <2>2, <3>1, <3>2
  <2> QED BY <2>1, <2>2
<1>4. ASSUME NEW x \in S PROVE nx[x] \in S \cup {-1}
  <2>1. PICK i \in Places(s) : x = s[i]
    BY <1>2
  <2>2. nx[x] = IF i = Len(s) THEN -1 ELSE s[i + 1]
    BY <2>1 DEF Chained
  <2>3. i # Len(s) => i + 1 \in Places(s)
    BY <1>1 DEF Places
  <2> QED BY <1>2, <2>2, <2>3
<1> QED BY <1>1, <1>2, <1>3, <1>4

LEMMA ChainKept ==
    ASSUME NEW from, NEW nx, NEW S, Chain(from, nx, S), NEW ny, \A x \in S : ny[x] = nx[x]
    PROVE  Chain(from, ny, S)
<1>0. PICK s : Chained(s, from, nx, S)
  BY DEF Chain
<1>1. ASSUME NEW i \in Places(s) PROVE ny[s[i]] = nx[s[i]]
  BY <1>0, <1>1 DEF Chained
<1>2. Chained(s, from, ny, S)
  BY <1>0, <1>1 DEF Chained
<1> QED BY <1>2 DEF Chain

LEMMA InsertFirst ==
    ASSUME NEW X, NEW s \in Seq(X), NEW x \in X
    PROVE  \E t \in Seq(X) : /\ Len(t) = Len(s) + 1 /\ t[1] = x
                             /\ \A j \in 1 .. Len(s) : t[j + 1] = s[j]
<1>0. Len(s) \in Nat
  OBVIOUS
<1>1. PICK p \in 1 .. Len(s) + 1 : p = 1
  BY <1>0
<1>2. /\ InsertAt(s, p, x) \in Seq(X)
      /\ Len(InsertAt(s, p, x)) = Len(s) + 1
      /\ \A j \in 1 .. Len(s) + 1 :
            InsertAt(s, p, x)[j] = IF j < p THEN s[j] ELSE IF j = p THEN x ELSE s[j - 1]
  BY InsertAtIs
<1>3. PICK t : t = InsertAt(s, p, x)
  OBVIOUS
<1>4. \A j \in 1 .. Len(s) + 1 : t[j] = IF j < p THEN s[j] ELSE IF j = p THEN x ELSE s[j - 1]
  BY <1>2, <1>3
<1>5. ASSUME NEW j \in 1 .. Len(s) PROVE t[j + 1] = s[j]
  BY <1>0, <1>1, <1>4
<1>6. t[1] = x
  BY <1>0, <1>1, <1>4
<1> QED BY <1>2, <1>3, <1>5, <1>6

\* One more before the first.
Pushes(nx, S, x, from, ny) ==
    x \in Nat /\ x \notin S /\ (\A y \in S : ny[y] = nx[y]) /\ ny[x] = from

LEMMA ChainPushed ==
    ASSUME NEW from, NEW nx, NEW S, Chain(from, nx, S), NEW x, NEW ny, Pushes(nx, S, x, from, ny)
    PROVE  Chain(x, ny, S \cup {x})
<1> PICK s : Chained(s, from, nx, S)
  BY DEF Chain
<1>0. s \in Seq(Nat) /\ Len(s) \in Nat /\ S = {s[i] : i \in Places(s)}
  BY DEF Chained
<1>1. PICK t \in Seq(Nat) : /\ Len(t) = Len(s) + 1 /\ t[1] = x
                            /\ \A j \in 1 .. Len(s) : t[j + 1] = s[j]
  <2>1. PICK X : X = Nat
    OBVIOUS
  <2>2. s \in Seq(X) /\ x \in X
    BY <1>0, <2>1 DEF Pushes
  <2>3. \E t \in Seq(X) : /\ Len(t) = Len(s) + 1 /\ t[1] = x
                          /\ \A j \in 1 .. Len(s) : t[j + 1] = s[j]
    BY <2>2, InsertFirst
  <2> QED BY <2>1, <2>3, Zenon
<1>2. Len(t) = Len(s) + 1 /\ \A j \in 2 .. Len(s) + 1 : t[j] = s[j - 1]
  <2>1. ASSUME NEW j \in 2 .. Len(s) + 1 PROVE t[j] = s[j - 1]
    BY <1>0, <1>1
  <2> QED BY <1>1, <2>1
<1>p. x \in Nat /\ x \notin S /\ (\A y \in S : ny[y] = nx[y]) /\ ny[x] = from
  BY DEF Pushes
<1> USE <1>p
<1>3. Places(t) = 1 .. Len(s) + 1 /\ 1 \in Places(t) /\ t[1] = x
  BY <1>0, <1>1, <1>2 DEF Places
<1>4. ASSUME NEW j \in Places(t), j # 1 PROVE j - 1 \in Places(s) /\ t[j] = s[j - 1]
  BY <1>0, <1>2, <1>3, <1>4 DEF Places
<1>5. ASSUME NEW i \in Places(s) PROVE i + 1 \in Places(t) /\ t[i + 1] = s[i]
  BY <1>0, <1>1, <1>3 DEF Places
<1>6. \A i \in Places(s) : s[i] \in S
  BY <1>0
<1>7. ASSUME NEW i \in Places(t), NEW j \in Places(t), t[i] = t[j] PROVE i = j
  <2>1. CASE i = 1 /\ j # 1
    BY <1>3, <1>4, <1>6, <1>7, <2>1
  <2>2. CASE i # 1 /\ j = 1
    BY <1>3, <1>4, <1>6, <1>7, <2>2
  <2>3. CASE i # 1 /\ j # 1
    <3>1. s[i - 1] = s[j - 1] /\ i - 1 \in Places(s) /\ j - 1 \in Places(s)
      BY <1>4, <1>7, <2>3
    <3>2. i - 1 = j - 1
      BY <3>1 DEF Chained
    <3>3. i \in Int /\ j \in Int
      BY <1>0, <1>3
    <3> QED BY <3>2, <3>3
  <2> QED BY <2>1, <2>2, <2>3, Zenon
<1>8. S \cup {x} = {t[i] : i \in Places(t)}
  <2>1. ASSUME NEW y \in S PROVE \E i \in Places(t) : y = t[i]
    <3>1. PICK i \in Places(s) : y = s[i]
      BY <1>0
    <3> QED BY <1>5, <3>1
  <2>2. ASSUME NEW i \in Places(t) PROVE t[i] \in S \cup {x}
    BY <1>3, <1>4, <1>6
  <2> QED BY <1>3, <2>1, <2>2
<1>9. ASSUME NEW i \in Places(t) PROVE ny[t[i]] = IF i = Len(t) THEN -1 ELSE t[i + 1]
  <2>1. CASE i = 1
    BY <1>3, <2>1, <1>0, <1>2, <1>5 DEF Chained, Places
  <2>2. CASE i # 1
    <3>1. i - 1 \in Places(s) /\ t[i] = s[i - 1]
      BY <1>4, <2>2
    <3>2. ny[t[i]] = IF i - 1 = Len(s) THEN -1 ELSE s[i]
      <4>1. ny[s[i - 1]] = nx[s[i - 1]]
        BY <1>6, <3>1
      <4>2. nx[s[i - 1]] = IF i - 1 = Len(s) THEN -1 ELSE s[(i - 1) + 1]
        BY <3>1 DEF Chained
      <4>3. (i - 1) + 1 = i
        BY <1>0, <1>3
      <4> QED BY <3>1, <4>1, <4>2, <4>3
    <3>3. i # Len(t) => i \in Places(s) /\ t[i + 1] = s[i]
      BY <1>0, <1>2, <1>3, <1>5, <2>2 DEF Places
    <3>4. i = Len(t) <=> i - 1 = Len(s)
      BY <1>0, <1>2, <1>3
    <3> QED BY <3>2, <3>3, <3>4
  <2> QED BY <2>1, <2>2
<1>10. Chained(t, x, ny, S \cup {x})
  <2>1. t \in Seq(Nat) /\ Len(t) # 0 /\ t[1] = x
    BY <1>0, <1>2, <1>3
  <2> QED BY <1>7, <1>8, <1>9, <2>1 DEF Chained
<1> QED BY <1>10 DEF Chain

\* One less: the one at place p, to which the chain has led from the place before.
Cuts(s, nx, p, ny) ==
    /\ p \in Places(s)
    /\ p # 1 => ny[s[p - 1]] = nx[s[p]]
    /\ \A i \in Places(s) : i # p /\ i # p - 1 => ny[s[i]] = nx[s[i]]

LEMMA ChainCut ==
    ASSUME NEW s, NEW from, NEW nx, NEW S, Chained(s, from, nx, S),
           NEW p, NEW ny, Cuts(s, nx, p, ny)
    PROVE  Chain(IF p = 1 THEN nx[s[1]] ELSE from, ny, S \ {s[p]})
<1>0. /\ s \in Seq(Nat) /\ Len(s) \in Nat /\ S = {s[i] : i \in Places(s)}
      /\ \A i, j \in Places(s) : s[i] = s[j] => i = j
      /\ p \in 1 .. Len(s)
  BY DEF Chained, Places, Cuts
<1>1. PICK t : t = RemoveAt(s, p)
  OBVIOUS
<1>2. /\ t \in Seq(Nat) /\ Len(t) = Len(s) - 1
      /\ \A j \in 1 .. Len(s) - 1 : t[j] = IF j < p THEN s[j] ELSE s[j + 1]
  BY <1>0, <1>1, RemoveAtIs
<1> /\ p \in Places(s)
    /\ p # 1 => ny[s[p - 1]] = nx[s[p]]
    /\ \A i \in Places(s) : i # p /\ i # p - 1 => ny[s[i]] = nx[s[i]]
  BY DEF Cuts
<1> DEFINE o(j) == IF j < p THEN j ELSE j + 1
<1>3. ASSUME NEW j \in Places(t) PROVE o(j) \in Places(s) /\ o(j) # p /\ t[j] = s[o(j)]
  BY <1>0, <1>2 DEF Places
<1>4. ASSUME NEW i \in Places(s), i # p PROVE \E j \in Places(t) : o(j) = i
  <2>1. CASE i < p
    <3>1. i \in Places(t)
      BY <1>0, <1>2, <2>1 DEF Places
    <3> QED BY <2>1, <3>1
  <2>2. CASE i > p
    <3>1. i - 1 \in Places(t) /\ o(i - 1) = i
      BY <1>0, <1>2, <2>2 DEF Places
    <3> QED BY <3>1
  <2>3. i \in Int /\ p \in Int
    BY <1>0 DEF Places
  <2>4. i < p \/ i > p
    BY <1>4, <2>3
  <2> QED BY <2>1, <2>2, <2>4
<1>5. ASSUME NEW i \in Places(t), NEW j \in Places(t), t[i] = t[j] PROVE i = j
  <2>1. o(i) = o(j)
    BY <1>0, <1>3, <1>5
  <2>2. i \in Int /\ j \in Int
    BY <1>0, <1>2 DEF Places
  <2> QED BY <1>0, <2>1, <2>2
<1>6. S \ {s[p]} = {t[j] : j \in Places(t)}
  <2>1. ASSUME NEW x \in S, x # s[p] PROVE \E j \in Places(t) : x = t[j]
    <3>1. PICK i \in Places(s) : x = s[i]
      BY <1>0
    <3>2. PICK j \in Places(t) : o(j) = i
      BY <1>4, <2>1, <3>1
    <3> QED BY <1>3, <3>1, <3>2
  <2>2. ASSUME NEW j \in Places(t) PROVE t[j] \in S /\ t[j] # s[p]
    BY <1>0, <1>3
  <2> QED BY <2>1, <2>2
<1>7. ASSUME NEW j \in Places(t) PROVE ny[t[j]] = IF j = Len(t) THEN -1 ELSE t[j + 1]
  <2>0. j \in 1 .. Len(t) /\ j \in 1 .. Len(s) - 1
    BY <1>2 DEF Places
  <2>1. t[j] = s[o(j)] /\ o(j) \in Places(s) /\ o(j) # p
    BY <1>3
  <2>2. j # Len(t) => t[j + 1] = s[o(j + 1)]
    BY <1>0, <1>2, <1>3, <2>0 DEF Places
  <2>3. CASE j = p - 1
    <3>1. ny[t[j]] = nx[s[p]] /\ o(j) = p - 1
      BY <1>0, <2>0, <2>1, <2>3
    <3>2. nx[s[p]] = IF p = Len(s) THEN -1 ELSE s[p + 1]
      BY DEF Chained
    <3>3. p = Len(s) <=> j = Len(t)
      BY <1>0, <1>2, <2>3
    <3>4. o(j + 1) = p + 1
      BY <1>0, <2>3
    <3> QED BY <2>2, <3>1, <3>2, <3>3, <3>4
  <2>4. CASE j # p - 1
    <3>1. o(j) # p - 1
      BY <1>0, <2>0, <2>4
    <3>2. ny[t[j]] = nx[s[o(j)]]
      BY <2>1, <3>1
    <3>3. nx[s[o(j)]] = IF o(j) = Len(s) THEN -1 ELSE s[o(j) + 1]
      BY <2>1 DEF Chained
    <3>4. o(j) = Len(s) <=> j = Len(t)
      <4>0. j \in Int /\ p \in Int /\ p <= Len(s) /\ Len(t) = Len(s) - 1 /\ Len(s) \in Int
        BY <1>0, <1>2, <2>0
      <4>1. CASE j < p - 1
        BY <4>0, <4>1
      <4>2. CASE j > p - 1
        BY <4>0, <4>2
      <4> QED BY <2>4, <4>0, <4>1, <4>2
    <3>5. o(j + 1) = o(j) + 1
      BY <1>0, <2>0, <2>4
    <3> QED BY <2>2, <3>2, <3>3, <3>4, <3>5
  <2> QED BY <2>3, <2>4
<1>8. (IF p = 1 THEN nx[s[1]] ELSE from) = IF Len(t) = 0 THEN -1 ELSE t[1]
  <2>1. CASE p = 1
    <3>0. 1 \in Places(s)
      BY <2>1
    <3>1. nx[s[1]] = IF 1 = Len(s) THEN -1 ELSE s[1 + 1]
      BY <3>0 DEF Chained
    <3>2. Len(t) = 0 <=> 1 = Len(s)
      BY <1>0, <1>2
    <3>3. Len(t) # 0 => t[1] = s[1 + 1]
      BY <1>0, <1>2, <2>1
    <3> QED BY <2>1, <3>1, <3>2, <3>3
  <2>2. CASE p # 1
    <3>0. Len(t) \in Nat \ {0} /\ p > 1 /\ 1 \in 1 .. Len(s) - 1
      <4>1. p > 1 /\ p <= Len(s) /\ Len(t) = Len(s) - 1 /\ Len(s) \in Nat /\ p \in Int
        BY <1>0, <1>2, <2>2
      <4> QED BY <4>1
    <3>1. Len(t) # 0 /\ t[1] = s[1] /\ Len(s) # 0
      BY <1>0, <1>2, <3>0
    <3> QED BY <2>2, <3>1 DEF Chained
  <2> QED BY <2>1, <2>2
<1>9. Chained(t, IF p = 1 THEN nx[s[1]] ELSE from, ny, S \ {s[p]})
  BY <1>2, <1>5, <1>6, <1>7, <1>8 DEF Chained
<1> QED BY <1>9 DEF Chain

\* What a loop passes that goes on from `from`.
Passes(at, from, nx) ==
    at[0] = from /\ \A n \in Nat : at[n + 1] = IF at[n] = -1 THEN -1 ELSE nx[at[n]]

LEMMA ChainPassed ==
    ASSUME NEW s, NEW from, NEW nx, NEW S, Chained(s, from, nx, S), NEW at, Passes(at, from, nx)
    PROVE  \A n \in Nat : at[n] = IF n < Len(s) THEN s[n + 1] ELSE -1
<1>0. Len(s) \in Nat /\ \A i \in Places(s) : s[i] \in Nat
  BY DEF Chained, Places
<1> DEFINE T == {n \in Nat : at[n] = IF n < Len(s) THEN s[n + 1] ELSE -1}
<1>1. 0 \in T
  BY <1>0 DEF Chained, Passes
<1>2. ASSUME NEW n \in Nat, n \in T PROVE n + 1 \in T
  <2>1. CASE n < Len(s)
    <3>1. n + 1 \in Places(s)
      BY <1>0, <2>1 DEF Places
    <3>2. at[n] = s[n + 1] /\ s[n + 1] # -1
      BY <1>0, <3>1, <1>2, <2>1
    <3>3. nx[s[n + 1]] = IF n + 1 = Len(s) THEN -1 ELSE s[(n + 1) + 1]
      BY <3>1 DEF Chained
    <3>4. at[n + 1] = IF n + 1 = Len(s) THEN -1 ELSE s[(n + 1) + 1]
      BY <3>2, <3>3 DEF Passes
    <3>5. n + 1 = Len(s) <=> ~(n + 1 < Len(s))
      BY <1>0, <2>1
    <3> QED BY <1>2, <3>4, <3>5
  <2>2. CASE ~(n < Len(s))
    <3>1. at[n] = -1
      BY <1>2, <2>2
    <3>2. ~(n + 1 < Len(s))
      BY <1>0, <2>2
    <3>3. at[n + 1] = -1
      BY <3>1 DEF Passes
    <3> QED BY <1>2, <3>2, <3>3
  <2> QED BY <2>1, <2>2
<1> HIDE DEF T
<1>3. Nat \subseteq T
  BY <1>1, <1>2, Induction
<1> QED BY <1>3 DEF T

LEMMA ChainCounts ==
    ASSUME NEW s, NEW from, NEW nx, NEW S, Chained(s, from, nx, S)
    PROVE  IsFiniteSet(S) /\ Cardinality(S) = Len(s)
<1>1. Len(s) \in Nat /\ S = {s[i] : i \in Places(s)} /\ \A i, j \in Places(s) : s[i] = s[j] => i = j
  BY DEF Chained
<1>2. IsFiniteSet(1 .. Len(s)) /\ Cardinality(1 .. Len(s)) = Len(s)
  <2>1. PICK n \in Nat : n = Len(s)
    BY <1>1
  <2>2. IsFiniteSet(1 .. n) /\ Cardinality(1 .. n) = IF 1 > n THEN 0 ELSE n - 1 + 1
    BY FS_Interval
  <2>3. (IF 1 > n THEN 0 ELSE n - 1 + 1) = n
    OBVIOUS
  <2> QED BY <2>1, <2>2, <2>3
<1> DEFINE f == [i \in 1 .. Len(s) |-> s[i]]
<1>3. f \in [1 .. Len(s) -> S] /\ \A x \in S : \E i \in 1 .. Len(s) : f[i] = x
  BY <1>1 DEF Places
<1>4. f \in Surjection(1 .. Len(s), S)
  BY <1>3, Zenon DEF Surjection
<1>5. f \in Injection(1 .. Len(s), S)
  BY <1>1, <1>3 DEF Places, Injection, IsInjective
<1> QED BY <1>2, <1>4, <1>5, FS_Surjection

\* Places 0 to n - 1 with a hash code are in the chain of their bucket.
InBucket(H, n, c, b) == {i \in 0 .. n - 1 : H[i] >= 0 /\ H[i] % c = b}
Bucketed(bk, H, N, n, c) ==
    /\ bk \in [0 .. c - 1 -> Int]
    /\ \A b \in 0 .. c - 1 : Chain(bk[b] - 1, N, InBucket(H, n, c, b))

LEMMA BucketOf == ASSUME NEW h \in Nat, NEW c \in Nat \ {0} PROVE h % c \in 0 .. c - 1
OBVIOUS

LEMMA BucketedKept ==
    ASSUME NEW bk, NEW H, NEW N, NEW n \in Nat, NEW c \in Nat \ {0}, Bucketed(bk, H, N, n, c),
           NEW H2, NEW N2, NEW m \in Nat,
           \A j \in 0 .. n - 1 : H2[j] = H[j] /\ (H[j] >= 0 => N2[j] = N[j]),
           n <= m, \A j \in n .. m - 1 : ~(H2[j] >= 0)
    PROVE  Bucketed(bk, H2, N2, m, c)
<1>1. ASSUME NEW b \in 0 .. c - 1
      PROVE  Chain(bk[b] - 1, N2, InBucket(H2, m, c, b))
  <2>1. Chain(bk[b] - 1, N, InBucket(H, n, c, b))
    BY DEF Bucketed
  <2>2. InBucket(H2, m, c, b) = InBucket(H, n, c, b)
    BY DEF InBucket
  <2>3. \A j \in InBucket(H, n, c, b) : N2[j] = N[j]
    BY DEF InBucket
  <2> QED BY <2>1, <2>2, <2>3, ChainKept
<1> QED BY <1>1 DEF Bucketed

\* Place i is put before the others of the bucket of its hash code h.
PutFirst(bk, H, N, n, c, H2, N2, m, i, h) ==
    /\ i \in 0 .. m - 1 /\ 0 .. m - 1 = (0 .. n - 1) \cup {i}
    /\ \A j \in 0 .. n - 1 : j # i => H2[j] = H[j] /\ (H[j] >= 0 => N2[j] = N[j])
    /\ i \in 0 .. n - 1 => ~(H[i] >= 0)
    /\ h \in Nat /\ H2[i] = h /\ N2[i] = bk[h % c] - 1

LEMMA BucketedPut ==
    ASSUME NEW bk, NEW H, NEW N, NEW n \in Nat, NEW c \in Nat \ {0}, Bucketed(bk, H, N, n, c),
           NEW H2, NEW N2, NEW m \in Nat, NEW i, NEW h, PutFirst(bk, H, N, n, c, H2, N2, m, i, h)
    PROVE  Bucketed([bk EXCEPT ![h % c] = i + 1], H2, N2, m, c)
<1>00. PICK a \in 0 .. c - 1 : a = h % c
  BY BucketOf DEF PutFirst
<1>0. /\ i \in Nat /\ i \in 0 .. m - 1 /\ a = h % c
      /\ h \in Nat /\ H2[i] = h /\ N2[i] = bk[a] - 1
      /\ \A j \in 0 .. n - 1 : j # i => H2[j] = H[j]
      /\ \A j \in 0 .. m - 1 : j # i => j \in 0 .. n - 1
      /\ \A j \in 0 .. n - 1 : j \in 0 .. m - 1
  <2>1. /\ i \in Nat /\ i \in 0 .. m - 1 /\ a = h % c
        /\ h \in Nat /\ H2[i] = h /\ N2[i] = bk[a] - 1
    BY <1>00 DEF PutFirst
  <2>2. \A j \in 0 .. n - 1 : j # i => H2[j] = H[j]
    BY DEF PutFirst
  <2>3. 0 .. m - 1 = (0 .. n - 1) \cup {i}
    BY DEF PutFirst
  <2> QED BY <2>1, <2>2, <2>3
<1> DEFINE bk2 == [bk EXCEPT ![a] = i + 1]
<1>1. bk2 \in [0 .. c - 1 -> Int] /\ bk2[a] = i + 1 /\ \A b \in 0 .. c - 1 : b # a => bk2[b] = bk[b]
  BY <1>0 DEF Bucketed
<1>2. i \notin InBucket(H, n, c, a) /\ \A b : \A j \in InBucket(H, n, c, b) : j # i /\ N2[j] = N[j]
  BY DEF InBucket, PutFirst
<1>3. ASSUME NEW b \in 0 .. c - 1, b # a
      PROVE  Chain(bk2[b] - 1, N2, InBucket(H2, m, c, b))
  <2>1. Chain(bk[b] - 1, N, InBucket(H, n, c, b))
    BY DEF Bucketed
  <2>2. InBucket(H2, m, c, b) = InBucket(H, n, c, b)
    <3>1. ASSUME NEW j \in InBucket(H2, m, c, b) PROVE j \in InBucket(H, n, c, b)
      BY <1>0, <1>3 DEF InBucket
    <3>2. ASSUME NEW j \in InBucket(H, n, c, b) PROVE j \in InBucket(H2, m, c, b)
      BY <1>2, <1>0 DEF InBucket
    <3> QED BY <3>1, <3>2
  <2>3. Chain(bk[b] - 1, N2, InBucket(H, n, c, b))
    BY <1>2, <2>1, ChainKept
  <2> QED BY <1>1, <1>3, <2>2, <2>3
<1>4. Chain(bk2[a] - 1, N2, InBucket(H2, m, c, a))
  <2>1. Chain(bk[a] - 1, N, InBucket(H, n, c, a))
    BY DEF Bucketed
  <2>2. InBucket(H2, m, c, a) = InBucket(H, n, c, a) \cup {i}
    <3>1. ASSUME NEW j \in InBucket(H2, m, c, a), j # i PROVE j \in InBucket(H, n, c, a)
      BY <1>0, <3>1 DEF InBucket
    <3>2. ASSUME NEW j \in InBucket(H, n, c, a) PROVE j \in InBucket(H2, m, c, a)
      BY <1>2, <1>0 DEF InBucket
    <3>3. i \in InBucket(H2, m, c, a)
      BY <1>0 DEF InBucket
    <3> QED BY <3>1, <3>2, <3>3
  <2>3. i \in Nat /\ N2[i] = bk[a] - 1
    BY <1>0
  <2>4. Chain(i, N2, InBucket(H, n, c, a) \cup {i})
    <3>1. PICK S, f : S = InBucket(H, n, c, a) /\ f = bk[a] - 1
      OBVIOUS
    <3>2. Chain(f, N, S) /\ Pushes(N, S, i, f, N2)
      BY <1>2, <2>1, <2>3, <3>1 DEF Pushes
    <3>3. Chain(i, N2, S \cup {i})
      BY <3>2, ChainPushed
    <3> QED BY <3>1, <3>3
  <2>5. bk2[a] - 1 = i
    BY <1>1, <2>3
  <2> QED BY <2>2, <2>4, <2>5
<1>5. Bucketed(bk2, H2, N2, m, c)
  BY <1>1, <1>3, <1>4 DEF Bucketed
<1> QED BY <1>00, <1>5

\* Place i = s[p] is taken out of the chain s of its bucket.
TakenOut(H, N, n, c, H2, N2, i, a, s, p) ==
    /\ i \in 0 .. n - 1 /\ H[i] \in Nat /\ a = H[i] % c /\ s[p] = i
    /\ ~(H2[i] >= 0)
    /\ \A j \in 0 .. n - 1 : j # i => H2[j] = H[j]
    /\ \A j \in 0 .. n - 1 : j # i /\ (p = 1 \/ j # s[p - 1]) /\ H[j] >= 0 => N2[j] = N[j]
    /\ p # 1 => N2[s[p - 1]] = N[i]

LEMMA BucketedTaken ==
    ASSUME NEW bk, NEW H, NEW N, NEW n \in Nat, NEW c \in Nat \ {0}, Bucketed(bk, H, N, n, c),
           NEW i, NEW a \in 0 .. c - 1,
           NEW s, Chained(s, bk[a] - 1, N, InBucket(H, n, c, a)), NEW p \in Places(s),
           NEW H2, NEW N2, TakenOut(H, N, n, c, H2, N2, i, a, s, p)
    PROVE  Bucketed(IF p = 1 THEN [bk EXCEPT ![a] = N[i] + 1] ELSE bk, H2, N2, n, c)
<1> DEFINE bk2 == IF p = 1 THEN [bk EXCEPT ![a] = N[i] + 1] ELSE bk
<1>0. /\ s \in Seq(Nat) /\ Len(s) \in Nat /\ p \in 1 .. Len(s)
      /\ \A q \in Places(s) : s[q] \in InBucket(H, n, c, a)
      /\ \A q, r \in Places(s) : s[q] = s[r] => q = r
      /\ p # 1 => p - 1 \in Places(s)
  BY DEF Chained, Places
<1>1. N[i] \in Int
  <2>1. i \in InBucket(H, n, c, a)
    BY <1>0 DEF TakenOut
  <2>2. N[i] \in InBucket(H, n, c, a) \cup {-1}
    BY <2>1, ChainTypes
  <2> QED BY <2>2 DEF InBucket
<1>2. bk2 \in [0 .. c - 1 -> Int] /\ \A b \in 0 .. c - 1 : b # a => bk2[b] = bk[b]
  BY <1>1 DEF Bucketed
<1>3. ASSUME NEW b \in 0 .. c - 1, b # a
      PROVE  Chain(bk2[b] - 1, N2, InBucket(H2, n, c, b))
  <2>1. Chain(bk[b] - 1, N, InBucket(H, n, c, b))
    BY DEF Bucketed
  <2>2. ASSUME NEW j \in InBucket(H, n, c, b) PROVE j # i /\ j \notin InBucket(H, n, c, a) /\ j \in 0 .. n - 1 /\ H[j] >= 0
    BY <1>3 DEF InBucket, TakenOut
  <2>3. InBucket(H2, n, c, b) = InBucket(H, n, c, b)
    BY <2>2 DEF InBucket, TakenOut
  <2>4. ASSUME NEW j \in InBucket(H, n, c, b) PROVE N2[j] = N[j]
    <3>1. p = 1 \/ j # s[p - 1]
      BY <1>0, <2>2
    <3> QED BY <2>2, <3>1 DEF TakenOut
  <2>5. Chain(bk[b] - 1, N2, InBucket(H, n, c, b))
    BY <2>1, <2>4, ChainKept
  <2> QED BY <1>2, <1>3, <2>3, <2>5
<1>4. Chain(bk2[a] - 1, N2, InBucket(H2, n, c, a))
  <2>1. InBucket(H2, n, c, a) = InBucket(H, n, c, a) \ {s[p]}
    BY DEF InBucket, TakenOut
  <2>2. ASSUME NEW q \in Places(s), q # p, q # p - 1 PROVE N2[s[q]] = N[s[q]]
    BY <1>0, <2>2 DEF InBucket, TakenOut
  <2>3. p # 1 => N2[s[p - 1]] = N[s[p]]
    BY DEF TakenOut
  <2>4. Chain(IF p = 1 THEN N[s[1]] ELSE bk[a] - 1, N2, InBucket(H, n, c, a) \ {s[p]})
    <3>1. PICK S, f : S = InBucket(H, n, c, a) /\ f = bk[a] - 1
      OBVIOUS
    <3>2. Chained(s, f, N, S) /\ Cuts(s, N, p, N2)
      BY <2>2, <2>3, <3>1 DEF Cuts
    <3>3. Chain(IF p = 1 THEN N[s[1]] ELSE f, N2, S \ {s[p]})
      BY <3>2, ChainCut
    <3> QED BY <3>1, <3>3
  <2>5. bk2[a] - 1 = IF p = 1 THEN N[s[1]] ELSE bk[a] - 1
    <3>1. p = 1 => bk2[a] = N[s[1]] + 1
      BY DEF Bucketed, TakenOut
    <3>2. p = 1 => N[s[1]] \in Int
      BY <1>1 DEF TakenOut
    <3>3. p # 1 => bk2[a] = bk[a]
      OBVIOUS
    <3> HIDE DEF bk2
    <3> QED BY <3>1, <3>2, <3>3
  <2> QED BY <2>1, <2>4, <2>5
<1>5. Bucketed(bk2, H2, N2, n, c)
  BY <1>2, <1>3, <1>4 DEF Bucketed
<1> QED BY <1>5

LEMMA NoneBucketed ==
    ASSUME NEW H, NEW N, NEW n \in Nat, NEW c \in Nat \ {0}, \A j \in 0 .. n - 1 : ~(H[j] >= 0)
    PROVE  Bucketed([b \in 0 .. c - 1 |-> 0], H, N, n, c)
<1>1. ASSUME NEW b \in 0 .. c - 1 PROVE Chain(0 - 1, N, InBucket(H, n, c, b))
  BY ChainEmpty DEF InBucket
<1> QED BY <1>1 DEF Bucketed

Unfolds(S, a, g) == \E f \in [Nat -> S] : f[0] = a /\ \A n \in Nat : f[n + 1] = g[f[n]]

LEMMA Unfolded == ASSUME NEW S, NEW a, NEW g, a \in S /\ g \in [S -> S] PROVE Unfolds(S, a, g)
BY Recursion DEF Unfolds

Maps(g, n, S) == g \in [(1 .. n) \X S -> S]
StepsUp(g, n, S, a) == \E f \in [0 .. n -> S] : f[0] = a /\ \A k \in 1 .. n : f[k] = g[<<k, f[k - 1]>>]

\* As far as n, where a step knows its number.
LEMMA StepsTo ==
    ASSUME NEW S, NEW n \in Nat, NEW a \in S, NEW g, Maps(g, n, S)
    PROVE  StepsUp(g, n, S, a)
<1> DEFINE st(p) == <<p[1] + 1, IF p[1] + 1 \in 1 .. n THEN g[<<p[1] + 1, p[2]>>] ELSE p[2]>>
<1>0. PICK W : W = Nat \X S
  OBVIOUS
<1>00. PICK h : h = [p \in W |-> st(p)]
  OBVIOUS
<1>000. PICK b : b = <<0, a>>
  OBVIOUS
<1>1. b \in W /\ h \in [W -> W]
  <2>1. ASSUME NEW p \in W PROVE st(p) \in W
    BY <1>0 DEF Maps
  <2> HIDE DEF st
  <2> QED BY <1>0, <1>00, <1>000, <2>1
<1>2. \A p \in W : h[p] = st(p)
  BY <1>00
<1>3. PICK t \in [Nat -> W] : t[0] = b /\ \A k \in Nat : t[k + 1] = h[t[k]]
  <2>1. Unfolds(W, b, h)
    BY <1>1, Unfolded
  <2> QED BY <2>1 DEF Unfolds
<1>4. \A k \in Nat : t[k][1] = k
  <2> DEFINE T == {k \in Nat : t[k][1] = k}
  <2>1. 0 \in T
    BY <1>3, <1>000
  <2>2. ASSUME NEW k \in Nat, k \in T PROVE k + 1 \in T
    <3>1. t[k] \in W /\ t[k][1] = k
      BY <1>3, <2>2
    <3>2. t[k + 1] = st(t[k])
      BY <1>2, <1>3, <3>1
    <3> QED BY <3>1, <3>2
  <2> HIDE DEF T
  <2>3. Nat \subseteq T
    BY <2>1, <2>2, Induction
  <2> QED BY <2>3 DEF T
<1> DEFINE f == [k \in 0 .. n |-> t[k][2]]
<1>5. f \in [0 .. n -> S] /\ f[0] = a
  <2>1. \A k \in Nat : t[k] \in W
    BY <1>0, <1>3
  <2>2. \A k \in 0 .. n : t[k][2] \in S
    BY <1>0, <2>1
  <2>3. 0 \in 0 .. n
    OBVIOUS
  <2> QED BY <1>3, <1>000, <2>2, <2>3
<1>6. ASSUME NEW k \in 1 .. n PROVE f[k] = g[<<k, f[k - 1]>>]
  <2>1. k - 1 \in Nat /\ k - 1 \in 0 .. n /\ k \in 0 .. n /\ (k - 1) + 1 = k
    OBVIOUS
  <2>2. t[k] = st(t[k - 1]) /\ t[k - 1][1] = k - 1
    BY <1>2, <1>3, <1>4, <2>1
  <2>3. t[k][2] = g[<<k, t[k - 1][2]>>]
    BY <2>1, <2>2
  <2> QED BY <2>1, <2>3
<1> HIDE DEF f
<1> QED BY <1>5, <1>6 DEF StepsUp

-----------------------------------------------------------------------------
(* Slots: places with a hash code H, a next place N and a key K; n of them *)
(* have been used, m of which are free, from f on.                         *)

FreeSlots(H, n) == {i \in 0 .. n - 1 : H[i] = -1}
Coded(H, K, n) ==
    /\ \A i \in 0 .. n - 1 : H[i] # -1 => K[i] \in Keys /\ Hash[K[i]] \in Nat /\ H[i] = Hash[K[i]]
    /\ \A i, j \in 0 .. n - 1 : H[i] # -1 /\ H[j] # -1 /\ K[i] = K[j] => i = j
SlotsInv(bk, H, N, K, n, c, m, f) ==
    /\ n \in Nat /\ c \in Nat \ {0} /\ n <= c /\ m \in Nat
    /\ Coded(H, K, n)
    /\ Bucketed(bk, H, N, n, c)
    /\ Chain(f, N, FreeSlots(H, n)) /\ Cardinality(FreeSlots(H, n)) = m

LEMMA SlotTypes ==
    ASSUME NEW bk, NEW H, NEW N, NEW K, NEW n, NEW c, NEW m, NEW f, SlotsInv(bk, H, N, K, n, c, m, f)
    PROVE  /\ n \in Nat /\ c \in Nat \ {0} /\ n <= c /\ m \in Nat
           /\ Coded(H, K, n) /\ Bucketed(bk, H, N, n, c)
           /\ Chain(f, N, FreeSlots(H, n)) /\ Cardinality(FreeSlots(H, n)) = m
           /\ IsFiniteSet(FreeSlots(H, n))
           /\ \A i \in 0 .. n - 1 : H[i] >= 0 <=> H[i] # -1
           /\ m = 0 <=> FreeSlots(H, n) = {}
           /\ m # 0 => f \in FreeSlots(H, n)
<1>1. /\ n \in Nat /\ c \in Nat \ {0} /\ n <= c /\ m \in Nat
      /\ Coded(H, K, n) /\ Bucketed(bk, H, N, n, c)
      /\ Chain(f, N, FreeSlots(H, n)) /\ Cardinality(FreeSlots(H, n)) = m
  BY DEF SlotsInv
<1>2. PICK s : Chained(s, f, N, FreeSlots(H, n))
  BY <1>1 DEF Chain
<1>3. IsFiniteSet(FreeSlots(H, n)) /\ m = Len(s)
  BY <1>1, <1>2, ChainCounts
<1>4. /\ f \in FreeSlots(H, n) \cup {-1}
      /\ f = -1 <=> Len(s) = 0
      /\ FreeSlots(H, n) = {} <=> Len(s) = 0
  BY <1>2, ChainTypes
<1>5. ASSUME NEW i \in 0 .. n - 1 PROVE H[i] >= 0 <=> H[i] # -1
  BY <1>1 DEF Coded
<1> QED BY <1>1, <1>3, <1>4, <1>5

\* The others keep theirs.
SameSlots(H, N, K, n, i, H2, N2, K2) ==
    \A j \in 0 .. n - 1 : j # i => H2[j] = H[j] /\ K2[j] = K[j] /\ N2[j] = N[j]
KeySlot(H2, K2, i, key) == key \in Keys /\ Hash[key] \in Nat /\ H2[i] = Hash[key] /\ K2[i] = key
NewKey(H, K, n, key) == \A i \in 0 .. n - 1 : H[i] # -1 => K[i] # key

LEMMA CodedPut ==
    ASSUME NEW H, NEW N, NEW K, NEW n \in Nat, Coded(H, K, n), NEW H2, NEW N2, NEW K2, NEW i, NEW key,
           SameSlots(H, N, K, n, i, H2, N2, K2), KeySlot(H2, K2, i, key), NewKey(H, K, n, key),
           NEW m, \A j \in 0 .. m - 1 : j # i => j \in 0 .. n - 1
    PROVE  Coded(H2, K2, m)
<1>1. \A j \in 0 .. m - 1 : j # i => j \in 0 .. n - 1 /\ H2[j] = H[j] /\ K2[j] = K[j]
  BY DEF SameSlots
<1>2. \A j \in 0 .. m - 1 : j = i => H2[j] = Hash[key] /\ K2[j] = key /\ Hash[key] \in Nat /\ key \in Keys
  BY DEF KeySlot
<1>3. \A j \in 0 .. n - 1 : H[j] # -1 => K[j] # key
  BY DEF NewKey
<1>4. \A j \in 0 .. m - 1 : H2[j] # -1 => K2[j] \in Keys /\ Hash[K2[j]] \in Nat /\ H2[j] = Hash[K2[j]]
  BY <1>1, <1>2 DEF Coded
<1>5. ASSUME NEW a \in 0 .. m - 1, NEW b \in 0 .. m - 1, H2[a] # -1, H2[b] # -1, K2[a] = K2[b]
      PROVE  a = b
  BY <1>1, <1>5, <1>2, <1>3 DEF Coded
<1> QED BY <1>4, <1>5 DEF Coded

\* A key is put into the place after the last.
LEMMA SlotAppended ==
    ASSUME NEW bk, NEW H, NEW N, NEW K, NEW n, NEW c, NEW f, SlotsInv(bk, H, N, K, n, c, 0, f), n < c,
           NEW key, NEW H2, NEW N2, NEW K2, SameSlots(H, N, K, n, n, H2, N2, K2),
           KeySlot(H2, K2, n, key), NewKey(H, K, n, key), N2[n] = bk[Hash[key] % c] - 1
    PROVE  SlotsInv([bk EXCEPT ![Hash[key] % c] = n + 1], H2, N2, K2, n + 1, c, 0, f)
<1>1. /\ n \in Nat /\ c \in Nat \ {0} /\ n + 1 \in Nat /\ n + 1 <= c
      /\ Coded(H, K, n) /\ Bucketed(bk, H, N, n, c)
      /\ Chain(f, N, FreeSlots(H, n)) /\ FreeSlots(H, n) = {}
  BY SlotTypes
<1>2. PutFirst(bk, H, N, n, c, H2, N2, n + 1, n, Hash[key])
  BY <1>1 DEF KeySlot, SameSlots, PutFirst
<1>3. Bucketed([bk EXCEPT ![Hash[key] % c] = n + 1], H2, N2, n + 1, c)
  BY <1>1, <1>2, BucketedPut
<1>4. \A j \in 0 .. (n + 1) - 1 : j # n => j \in 0 .. n - 1
  BY <1>1
<1>5. Coded(H2, K2, n + 1)
  <2>1. PICK k : k = n + 1
    OBVIOUS
  <2>2. \A j \in 0 .. k - 1 : j # n => j \in 0 .. n - 1
    BY <1>4, <2>1
  <2>3. Coded(H2, K2, k)
    BY <1>1, <2>2, CodedPut
  <2> QED BY <2>1, <2>3
<1>6. FreeSlots(H2, n + 1) = {}
  <2>1. ASSUME NEW j \in 0 .. (n + 1) - 1 PROVE H2[j] # -1
    <3>1. CASE j = n
      BY <3>1 DEF KeySlot
    <3>2. CASE j # n
      BY <1>4, <3>2, <1>1 DEF SameSlots, FreeSlots
    <3> QED BY <3>1, <3>2
  <2> QED BY <2>1 DEF FreeSlots
<1>7. Chain(f, N2, {}) /\ Cardinality({}) = 0
  BY <1>1, ChainKept, FS_EmptySet
<1> QED BY <1>1, <1>3, <1>5, <1>6, <1>7 DEF SlotsInv

\* A key is put into the first free place.
LEMMA SlotReused ==
    ASSUME NEW bk, NEW H, NEW N, NEW K, NEW n, NEW c, NEW m, NEW f, SlotsInv(bk, H, N, K, n, c, m, f), m > 0,
           NEW key, NEW H2, NEW N2, NEW K2, SameSlots(H, N, K, n, f, H2, N2, K2),
           KeySlot(H2, K2, f, key), NewKey(H, K, n, key), N2[f] = bk[Hash[key] % c] - 1
    PROVE  /\ f \in 0 .. n - 1
           /\ SlotsInv([bk EXCEPT ![Hash[key] % c] = f + 1], H2, N2, K2, n, c, m - 1, N[f])
<1>1. /\ n \in Nat /\ c \in Nat \ {0} /\ n <= c /\ m \in Nat /\ m - 1 \in Nat
      /\ Coded(H, K, n) /\ Bucketed(bk, H, N, n, c)
      /\ Chain(f, N, FreeSlots(H, n)) /\ Cardinality(FreeSlots(H, n)) = m
      /\ IsFiniteSet(FreeSlots(H, n))
      /\ f \in FreeSlots(H, n)
  BY SlotTypes
<1>2. f \in 0 .. n - 1 /\ H[f] = -1
  BY <1>1 DEF FreeSlots
<1>3. PutFirst(bk, H, N, n, c, H2, N2, n, f, Hash[key])
  BY <1>2 DEF KeySlot, SameSlots, PutFirst
<1>4. Bucketed([bk EXCEPT ![Hash[key] % c] = f + 1], H2, N2, n, c)
  BY <1>1, <1>3, BucketedPut
<1>5. Coded(H2, K2, n)
  BY <1>1, CodedPut
<1>6. FreeSlots(H2, n) = FreeSlots(H, n) \ {f}
  BY DEF SameSlots, KeySlot, FreeSlots
<1>7. Cardinality(FreeSlots(H2, n)) = m - 1
  BY <1>1, <1>6, FS_RemoveElement
<1>8. Chain(N[f], N2, FreeSlots(H, n) \ {f})
  <2>1. PICK s, S : Chained(s, f, N, S) /\ S = FreeSlots(H, n)
    BY <1>1 DEF Chain
  <2>2. /\ \A i, j \in Places(s) : s[i] = s[j] => i = j
        /\ \A i \in Places(s) : s[i] \in S
        /\ 1 \in Places(s) /\ s[1] = f /\ Len(s) \in Nat
    BY <2>1, ChainTypes, <1>2 DEF Chained, Places
  <2>3. Cuts(s, N, 1, N2)
    <3>1. ASSUME NEW i \in Places(s), i # 1 PROVE N2[s[i]] = N[s[i]]
      BY <2>1, <2>2, <3>1 DEF FreeSlots, SameSlots
    <3> QED BY <2>2, <3>1 DEF Cuts
  <2>4. Chain(IF 1 = 1 THEN N[s[1]] ELSE f, N2, S \ {s[1]})
    BY <2>1, <2>3, ChainCut
  <2> QED BY <2>1, <2>2, <2>4
<1> QED BY <1>1, <1>2, <1>4, <1>5, <1>6, <1>7, <1>8 DEF SlotsInv

\* A place is freed: it was at place p of the chain s of its bucket.
Frees(H, N, n, H2, N2, i, f, s, p) ==
    /\ i \in 0 .. n - 1 /\ H[i] # -1 /\ s[p] = i
    /\ H2[i] = -1 /\ N2[i] = f
    /\ \A j \in 0 .. n - 1 : j # i => H2[j] = H[j]
    /\ \A j \in 0 .. n - 1 : j # i /\ (p = 1 \/ j # s[p - 1]) => N2[j] = N[j]
    /\ p # 1 => N2[s[p - 1]] = N[i]

LEMMA SlotFreed ==
    ASSUME NEW bk, NEW H, NEW N, NEW K, NEW n, NEW c, NEW m, NEW f, SlotsInv(bk, H, N, K, n, c, m, f),
           NEW a \in 0 .. c - 1,
           NEW s, Chained(s, bk[a] - 1, N, InBucket(H, n, c, a)), NEW p \in Places(s),
           NEW H2, NEW N2, NEW K2, NEW i, Frees(H, N, n, H2, N2, i, f, s, p), a = H[i] % c,
           \A j \in 0 .. n - 1 : j # i => K2[j] = K[j]
    PROVE  SlotsInv(IF p = 1 THEN [bk EXCEPT ![a] = N[i] + 1] ELSE bk, H2, N2, K2, n, c, m + 1, i)
<1>1. /\ n \in Nat /\ c \in Nat \ {0} /\ n <= c /\ m \in Nat /\ m + 1 \in Nat
      /\ Coded(H, K, n) /\ Bucketed(bk, H, N, n, c)
      /\ Chain(f, N, FreeSlots(H, n)) /\ Cardinality(FreeSlots(H, n)) = m
      /\ IsFiniteSet(FreeSlots(H, n))
  BY SlotTypes
<1>2. i \in 0 .. n - 1 /\ i \in Nat /\ H[i] # -1 /\ H2[i] = -1 /\ N2[i] = f
  BY <1>1 DEF Frees
<1>3. \A j \in 0 .. n - 1 : j # i => H2[j] = H[j]
  BY DEF Frees
<1>4. TakenOut(H, N, n, c, H2, N2, i, a, s, p)
  BY <1>1, <1>2 DEF Coded, Frees, TakenOut
<1>5. Bucketed(IF p = 1 THEN [bk EXCEPT ![a] = N[i] + 1] ELSE bk, H2, N2, n, c)
  BY <1>1, <1>4, BucketedTaken
<1>6. Coded(H2, K2, n)
  BY <1>1, <1>2, <1>3 DEF Coded
<1>7. FreeSlots(H2, n) = FreeSlots(H, n) \cup {i} /\ i \notin FreeSlots(H, n)
  BY <1>2, <1>3 DEF FreeSlots
<1>8. Cardinality(FreeSlots(H2, n)) = m + 1
  <2>1. IsFiniteSet(FreeSlots(H, n)) /\ Cardinality(FreeSlots(H, n)) = m
    BY <1>1
  <2> QED BY <1>7, <2>1, FS_AddElement
<1>9. Chain(i, N2, FreeSlots(H, n) \cup {i})
  <2>1. ASSUME NEW j \in FreeSlots(H, n) PROVE N2[j] = N[j]
    <3>1. j \in 0 .. n - 1 /\ j # i /\ ~(H[j] >= 0)
      BY <1>7 DEF FreeSlots
    <3>2. p # 1 => s[p - 1] \in InBucket(H, n, c, a)
      <4>1. Len(s) \in Nat /\ \A q \in 1 .. Len(s) : s[q] \in InBucket(H, n, c, a)
        BY DEF Chained, Places
      <4>2. p # 1 => p - 1 \in 1 .. Len(s)
        BY <4>1 DEF Places
      <4> QED BY <4>1, <4>2
    <3>3. p = 1 \/ j # s[p - 1]
      BY <3>1, <3>2 DEF InBucket
    <3> QED BY <3>1, <3>3 DEF Frees
  <2>2. PICK S : S = FreeSlots(H, n)
    OBVIOUS
  <2>3. Pushes(N, S, i, f, N2)
    BY <1>2, <1>7, <2>1, <2>2 DEF Pushes
  <2>4. Chain(i, N2, S \cup {i})
    BY <1>1, <2>2, <2>3, ChainPushed
  <2> QED BY <2>2, <2>4
<1> QED BY <1>1, <1>5, <1>6, <1>7, <1>8, <1>9 DEF SlotsInv

-----------------------------------------------------------------------------
HashIn(ob, en) == [i \in Int |-> ob[en[i]].hashCode]
NextIn(ob, en) == [i \in Int |-> ob[en[i]].next]
KeyIn(ob, en) == [i \in Int |-> ob[en[i]].key]

EntryTypes(k) ==
    [next : Int, prevEntry : -1 .. k, nextEntry : -1 .. k, skipNextEntry : BOOLEAN,
     hashCode : Int, key : Keys \cup {Table!NoKey}, value : Keys \cup Values \cup {Table!NoKey}]
Objects(k) == [0 .. k -> EntryTypes(k)]

LEMMA EntryIs ==
    ASSUME NEW k, NEW r \in EntryTypes(k)
    PROVE  /\ r.next \in Int /\ r.prevEntry \in -1 .. k /\ r.nextEntry \in -1 .. k
           /\ r.skipNextEntry \in BOOLEAN /\ r.hashCode \in Int
           /\ \A v \in Int : /\ [r EXCEPT !.next = v] \in EntryTypes(k)
                           /\ [r EXCEPT !.next = v].next = v
                           /\ [r EXCEPT !.next = v].prevEntry = r.prevEntry
                           /\ [r EXCEPT !.next = v].nextEntry = r.nextEntry
                           /\ [r EXCEPT !.next = v].skipNextEntry = r.skipNextEntry
                           /\ [r EXCEPT !.next = v].hashCode = r.hashCode
                           /\ [r EXCEPT !.next = v].key = r.key
                           /\ [r EXCEPT !.next = v].value = r.value
BY DEF EntryTypes

LEMMA ObjectsAre == \A k, ob : ob \in Objects(k) => \A x \in 0 .. k : ob[x] \in EntryTypes(k)
BY DEF Objects

\* n places hold entry objects, each one of its own.
Placed(en, n, k) == /\ \A i \in 0 .. n - 1 : en[i] \in 1 .. k
                    /\ \A i, j \in 0 .. n - 1 : en[i] = en[j] => i = j

\* Only next indices have changed, and not those of freed entries.
UpToNext(o, ob, k) ==
    /\ o \in Objects(k)
    /\ \A x \in 0 .. k : /\ o[x].prevEntry = ob[x].prevEntry
                         /\ o[x].nextEntry = ob[x].nextEntry
                         /\ o[x].skipNextEntry = ob[x].skipNextEntry
                         /\ o[x].hashCode = ob[x].hashCode
                         /\ o[x].key = ob[x].key /\ o[x].value = ob[x].value
                         /\ ob[x].hashCode < 0 => o[x].next = ob[x].next

Accumulated(c, k) == [buckets : [0 .. c - 1 -> Int], object : Objects(k)]
Relinked(acc, ob, ar, j, c, k) ==
    /\ acc \in Accumulated(c, k)
    /\ UpToNext(acc.object, ob, k)
    /\ Bucketed(acc.buckets, HashIn(ob, ar), NextIn(acc.object, ar), j, c)

\* One turn of the loop of Rehash.
Relink(acc, ob, ar, j, c) ==
    LET e == ar[j - 1]
        b == ob[e].hashCode % c
    IN IF e = -1 \/ ob[e].hashCode < 0 THEN acc
       ELSE [buckets |-> [acc.buckets EXCEPT ![b] = j],
             object |-> [acc.object EXCEPT ![e].next = acc.buckets[b] - 1]]

LEMMA RelinkTypes ==
    ASSUME NEW k \in Nat, NEW ob \in Objects(k), NEW ar, NEW n \in Nat, Placed(ar, n, k),
           NEW c \in Nat \ {0}, NEW acc \in Accumulated(c, k), NEW j \in 1 .. n
    PROVE  Relink(acc, ob, ar, j, c) \in Accumulated(c, k)
<1> PICK e : e = ar[j - 1]
  OBVIOUS
<1>1. e \in 1 .. k /\ e \in 0 .. k /\ e # -1 /\ ob[e].hashCode \in Int
  BY ObjectsAre, EntryIs DEF Placed
<1>2. CASE ob[e].hashCode < 0
  BY <1>2 DEF Relink
<1>3. CASE ~(ob[e].hashCode < 0)
  <2>1. PICK b \in 0 .. c - 1 : b = ob[e].hashCode % c
    <3>1. PICK h \in Nat : h = ob[e].hashCode
      BY <1>1, <1>3
    <3> QED BY <3>1, BucketOf
  <2>2. acc.buckets \in [0 .. c - 1 -> Int] /\ acc.object \in Objects(k)
    BY DEF Accumulated
  <2>3. PICK v \in Int : v = acc.buckets[b] - 1
    BY <2>2
  <2>4. [acc.object[e] EXCEPT !.next = v] \in EntryTypes(k)
    BY <1>1, <2>2, ObjectsAre, EntryIs
  <2>5. [acc.object EXCEPT ![e] = [acc.object[e] EXCEPT !.next = v]] \in Objects(k)
    <3>1. PICK E : E = EntryTypes(k)
      OBVIOUS
    <3>2. PICK y \in E : y = [acc.object[e] EXCEPT !.next = v]
      BY <2>4, <3>1
    <3>3. acc.object \in [0 .. k -> E]
      BY <2>2, <3>1 DEF Objects
    <3>4. [acc.object EXCEPT ![e] = y] \in [0 .. k -> E]
      BY <3>3
    <3> QED BY <3>1, <3>2, <3>4 DEF Objects
  <2>6. [acc.buckets EXCEPT ![b] = j] \in [0 .. c - 1 -> Int]
    BY <2>2
  <2>7. Relink(acc, ob, ar, j, c) = [buckets |-> [acc.buckets EXCEPT ![b] = j],
                                     object |-> [acc.object EXCEPT ![e] = [acc.object[e] EXCEPT !.next = v]]]
    BY <1>1, <1>3, <2>1, <2>3 DEF Relink
  <2> QED BY <2>5, <2>6, <2>7 DEF Accumulated
<1> QED BY <1>2, <1>3

LEMMA RelinkGoesOn ==
    ASSUME NEW k \in Nat, NEW ob, ob \in Objects(k), NEW ar, NEW n \in Nat, Placed(ar, n, k),
           NEW c \in Nat \ {0}, NEW j \in 1 .. n, NEW acc, Relinked(acc, ob, ar, j - 1, c, k)
    PROVE  Relinked(Relink(acc, ob, ar, j, c), ob, ar, j, c, k)
<1> PICK e, r : e = ar[j - 1] /\ r = Relink(acc, ob, ar, j, c)
  OBVIOUS
<1>0. acc \in Accumulated(c, k)
  BY DEF Relinked
<1>1. r \in Accumulated(c, k)
  BY <1>0, RelinkTypes
<1>2. e \in 1 .. k /\ e \in 0 .. k /\ e # -1 /\ j \in Nat /\ j - 1 \in Nat
  BY DEF Placed
<1>3. /\ UpToNext(acc.object, ob, k)
      /\ Bucketed(acc.buckets, HashIn(ob, ar), NextIn(acc.object, ar), j - 1, c)
  BY DEF Relinked
<1>h. PICK h \in Int : h = ob[e].hashCode
  BY <1>2, ObjectsAre, EntryIs
<1>4. CASE h < 0
  <2>1. r = acc
    BY <1>4, <1>h DEF Relink
  <2>2. Bucketed(acc.buckets, HashIn(ob, ar), NextIn(acc.object, ar), j, c)
    <3>1. PICK H, N : H = HashIn(ob, ar) /\ N = NextIn(acc.object, ar)
      OBVIOUS
    <3>2. H[j - 1] = h
      BY <1>h, <3>1 DEF HashIn
    <3>3. \A i \in j - 1 .. j - 1 : ~(H[i] >= 0)
      BY <1>4, <3>2
    <3>4. Bucketed(acc.buckets, H, N, j - 1, c) /\ j - 1 <= j
      BY <1>2, <1>3, <3>1
    <3>5. Bucketed(acc.buckets, H, N, j, c)
      BY <1>2, <3>3, <3>4, BucketedKept
    <3> QED BY <3>1, <3>5
  <2> QED BY <1>1, <1>3, <2>1, <2>2 DEF Relinked
<1>5. CASE ~(h < 0)
  <2>1. PICK b \in 0 .. c - 1 : b = h % c
    <3>1. h \in Nat
      BY <1>5
    <3>2. h % c \in 0 .. c - 1
      BY <3>1, BucketOf
    <3> QED BY <3>2
  <2>2. acc.buckets \in [0 .. c - 1 -> Int] /\ acc.object \in Objects(k)
    BY <1>0 DEF Accumulated
  <2>3. PICK v \in Int : v = acc.buckets[b] - 1
    BY <2>2
  <2>4. r = [buckets |-> [acc.buckets EXCEPT ![b] = j],
             object |-> [acc.object EXCEPT ![e] = [acc.object[e] EXCEPT !.next = v]]]
    BY <1>2, <1>5, <1>h, <2>1, <2>3 DEF Relink
  <2>5. PICK y : y = [acc.object[e] EXCEPT !.next = v]
    OBVIOUS
  <2>6. /\ acc.object[e] \in EntryTypes(k)
        /\ y.next = v /\ y.prevEntry = acc.object[e].prevEntry
        /\ y.nextEntry = acc.object[e].nextEntry /\ y.skipNextEntry = acc.object[e].skipNextEntry
        /\ y.hashCode = acc.object[e].hashCode /\ y.key = acc.object[e].key
        /\ y.value = acc.object[e].value
    <3>1. acc.object[e] \in EntryTypes(k)
      BY <1>2, <2>2, ObjectsAre
    <3> QED BY <2>5, <3>1, EntryIs
  <2>7. /\ r.buckets = [acc.buckets EXCEPT ![b] = j]
        /\ r.object[e] = y /\ \A x \in 0 .. k : x # e => r.object[x] = acc.object[x]
    BY <1>2, <2>2, <2>4, <2>5, SMTT(30) DEF Objects
  <2>8. UpToNext(r.object, ob, k)
    <3>1. r.object \in Objects(k)
      BY <1>1 DEF Accumulated
    <3>2. ASSUME NEW x \in 0 .. k
          PROVE  /\ r.object[x].prevEntry = ob[x].prevEntry
                 /\ r.object[x].nextEntry = ob[x].nextEntry
                 /\ r.object[x].skipNextEntry = ob[x].skipNextEntry
                 /\ r.object[x].hashCode = ob[x].hashCode
                 /\ r.object[x].key = ob[x].key /\ r.object[x].value = ob[x].value
                 /\ ob[x].hashCode < 0 => r.object[x].next = ob[x].next
      BY <1>3, <1>5, <1>h, <2>6, <2>7 DEF UpToNext
    <3> QED BY <3>1, <3>2 DEF UpToNext
  <2>9. Bucketed(r.buckets, HashIn(ob, ar), NextIn(r.object, ar), j, c)
    <3>1. PICK H, N, N2, B : /\ H = HashIn(ob, ar) /\ N = NextIn(acc.object, ar)
                             /\ N2 = NextIn(r.object, ar) /\ B = acc.buckets
      OBVIOUS
    <3>2. H[j - 1] = h /\ N2[j - 1] = v
      BY <1>2, <1>h, <2>6, <2>7, <3>1 DEF HashIn, NextIn
    <3>3. ASSUME NEW i \in 0 .. (j - 1) - 1 PROVE N2[i] = N[i]
      BY <2>7, <3>1 DEF Placed, NextIn
    <3>4. PutFirst(B, H, N, j - 1, c, H, N2, j, j - 1, h)
      BY <1>2, <1>5, <2>1, <2>3, <3>1, <3>2, <3>3 DEF PutFirst
    <3>5. Bucketed(B, H, N, j - 1, c)
      BY <1>3, <3>1
    <3>6. Bucketed([B EXCEPT ![h % c] = (j - 1) + 1], H, N2, j, c)
      BY <1>2, <3>4, <3>5, BucketedPut
    <3>7. (j - 1) + 1 = j
      BY <1>2
    <3> QED BY <2>1, <2>7, <3>1, <3>6, <3>7
  <2> QED BY <1>1, <2>8, <2>9 DEF Relinked
<1> QED BY <1>4, <1>5

LEMMA RehashIs ==
    ASSUME NEW k \in Nat, object \in Objects(k), NEW ar, NEW n \in Nat, Placed(ar, n, k), NEW c \in Nat \ {0}
    PROVE  Relinked(Table!Rehash(ar, n, c), object, ar, n, c, k)
<1> DEFINE a == [buckets |-> Table!Empty(c, 0), object |-> object]
           rec(d) == [i \in 0 .. n |-> IF i = 0 THEN a ELSE Relink(d[i - 1], object, ar, i, c)]
           d0 == CHOOSE d : d = rec(d)
<1>1. a \in Accumulated(c, k)
  BY DEF Table!Empty, Accumulated
<1>2. Relinked(a, object, ar, 0, c, k)
  <2>1. UpToNext(object, object, k)
    BY DEF UpToNext
  <2>2. Bucketed([b \in 0 .. c - 1 |-> 0], HashIn(object, ar), NextIn(object, ar), 0, c)
    <3>1. PICK H, N : H = HashIn(object, ar) /\ N = NextIn(object, ar)
      OBVIOUS
    <3>2. \A j \in 0 .. 0 - 1 : ~(H[j] >= 0)
      OBVIOUS
    <3>3. Bucketed([b \in 0 .. c - 1 |-> 0], H, N, 0, c)
      BY <3>2, NoneBucketed
    <3> QED BY <3>1, <3>3
  <2>3. a.buckets = [b \in 0 .. c - 1 |-> 0] /\ a.object = object
    BY DEF Table!Empty
  <2> QED BY <1>1, <2>1, <2>2, <2>3 DEF Relinked
<1> HIDE DEF a
<1>3. d0 = rec(d0)
  <2> DEFINE g == [p \in (1 .. n) \X Accumulated(c, k) |-> Relink(p[2], object, ar, p[1], c)]
  <2>1. Maps(g, n, Accumulated(c, k))
    <3>1. ASSUME NEW p \in (1 .. n) \X Accumulated(c, k)
          PROVE  Relink(p[2], object, ar, p[1], c) \in Accumulated(c, k)
      BY RelinkTypes
    <3> QED BY <3>1 DEF Maps
  <2>2. \A j \in 1 .. n : \A x \in Accumulated(c, k) : g[<<j, x>>] = Relink(x, object, ar, j, c)
    OBVIOUS
  <2> HIDE DEF g
  <2>3. PICK f \in [0 .. n -> Accumulated(c, k)] : f[0] = a /\ \A j \in 1 .. n : f[j] = g[<<j, f[j - 1]>>]
    <3>1. StepsUp(g, n, Accumulated(c, k), a)
      BY <1>1, <2>1, StepsTo
    <3> QED BY <3>1 DEF StepsUp
  <2>4. f = rec(f)
    <3>1. ASSUME NEW i \in 0 .. n
          PROVE  f[i] = IF i = 0 THEN a ELSE Relink(f[i - 1], object, ar, i, c)
      <4>1. CASE i = 0
        BY <2>3, <4>1
      <4>2. CASE i # 0
        <5>1. i \in 1 .. n /\ i - 1 \in 0 .. n
          BY <4>2
        <5>2. f[i] = g[<<i, f[i - 1]>>] /\ f[i - 1] \in Accumulated(c, k)
          BY <2>3, <5>1
        <5> QED BY <2>2, <4>2, <5>1, <5>2
      <4> QED BY <4>1, <4>2
    <3> QED BY <2>3, <3>1
  <2> HIDE DEF rec
  <2> QED BY <2>4
<1>4. d0[0] = a /\ \A i \in 1 .. n : d0[i] = Relink(d0[i - 1], object, ar, i, c)
  <2> HIDE DEF d0
  <2>1. \A i \in 0 .. n : d0[i] = IF i = 0 THEN a ELSE Relink(d0[i - 1], object, ar, i, c)
    BY <1>3
  <2>2. 0 \in 0 .. n /\ \A i \in 1 .. n : i \in 0 .. n /\ i # 0
    OBVIOUS
  <2> QED BY <2>1, <2>2
<1>5. Table!Rehash(ar, n, c) = d0[n]
  BY Zenon DEF Table!Rehash, Relink, Table!Nothing, a
<1> HIDE DEF d0
<1> DEFINE T == {i \in Nat : i <= n => Relinked(d0[i], object, ar, i, c, k)}
<1>6. 0 \in T
  BY <1>2, <1>4
<1>7. ASSUME NEW i \in Nat, i \in T PROVE i + 1 \in T
  <2> SUFFICES ASSUME i + 1 <= n PROVE Relinked(d0[i + 1], object, ar, i + 1, c, k)
    OBVIOUS
  <2>1. PICK j \in 1 .. n : j = i + 1 /\ j - 1 = i
    OBVIOUS
  <2>2. Relinked(d0[j - 1], object, ar, j - 1, c, k)
    BY <1>7, <2>1
  <2>3. Relinked(Relink(d0[j - 1], object, ar, j, c), object, ar, j, c, k)
    BY <2>2, RelinkGoesOn
  <2> QED BY <1>4, <2>1, <2>3
<1> HIDE DEF T
<1>8. n \in T
  BY <1>6, <1>7, Induction
<1> QED BY <1>5, <1>8 DEF T

\* The entries that trimming moves.
UsedIn(ob, en, i) == {en[j] : j \in {l \in 0 .. i - 1 : ~(ob[en[l]].hashCode < 0)}}
Moved(s, ob, en, i, k) == /\ s \in Seq(1 .. k) /\ Len(s) <= i
                          /\ \A a, b \in Places(s) : s[a] = s[b] => a = b
                          /\ {s[a] : a \in Places(s)} = UsedIn(ob, en, i)
MoveOn(s, ob, en, i) == IF ob[en[i - 1]].hashCode < 0 THEN s ELSE Append(s, en[i - 1])

LEMMA MovesOn ==
    ASSUME NEW k \in Nat, NEW ob, NEW en, NEW n \in Nat, Placed(en, n, k), NEW j \in 1 .. n,
           NEW s, Moved(s, ob, en, j - 1, k)
    PROVE  Moved(MoveOn(s, ob, en, j), ob, en, j, k)
<1> PICK e : e = en[j - 1]
  OBVIOUS
<1>1. e \in 1 .. k /\ j \in Nat /\ j - 1 \in 0 .. n - 1
  BY DEF Placed
<1>2. /\ s \in Seq(1 .. k) /\ Len(s) <= j - 1 /\ Len(s) \in Nat
      /\ \A a, b \in Places(s) : s[a] = s[b] => a = b
      /\ {s[a] : a \in Places(s)} = UsedIn(ob, en, j - 1)
  BY DEF Moved
<1>3. CASE ob[e].hashCode < 0
  <2>1. UsedIn(ob, en, j) = UsedIn(ob, en, j - 1)
    BY <1>1, <1>3 DEF UsedIn
  <2> QED BY <1>1, <1>2, <1>3, <2>1 DEF Moved, MoveOn
<1>4. CASE ~(ob[e].hashCode < 0)
  <2>1. PICK t : t = Append(s, e)
    OBVIOUS
  <2>2. /\ t \in Seq(1 .. k) /\ Len(t) = Len(s) + 1 /\ t[Len(s) + 1] = e
        /\ \A a \in 1 .. Len(s) : t[a] = s[a]
    BY <1>1, <1>2, <2>1
  <2>3. UsedIn(ob, en, j) = UsedIn(ob, en, j - 1) \cup {e}
    <3>1. ASSUME NEW x \in UsedIn(ob, en, j), x # e PROVE x \in UsedIn(ob, en, j - 1)
      <4>1. PICK l \in 0 .. j - 1 : x = en[l] /\ ~(ob[en[l]].hashCode < 0)
        BY DEF UsedIn
      <4>2. l # j - 1 /\ l \in 0 .. (j - 1) - 1
        BY <1>1, <3>1, <4>1
      <4> QED BY <4>1, <4>2 DEF UsedIn
    <3>2. ASSUME NEW x \in UsedIn(ob, en, j - 1) PROVE x \in UsedIn(ob, en, j)
      <4>1. PICK l \in 0 .. (j - 1) - 1 : x = en[l] /\ ~(ob[en[l]].hashCode < 0)
        BY DEF UsedIn
      <4>2. l \in 0 .. j - 1
        BY <1>1, <4>1
      <4> QED BY <4>1, <4>2 DEF UsedIn
    <3>3. e \in UsedIn(ob, en, j)
      <4>1. j - 1 \in 0 .. j - 1
        BY <1>1
      <4> QED BY <1>4, <4>1 DEF UsedIn
    <3> QED BY <3>1, <3>2, <3>3
  <2>4. e \notin UsedIn(ob, en, j - 1)
    <3>1. ASSUME NEW l \in 0 .. (j - 1) - 1 PROVE en[l] # e
      BY <1>1 DEF Placed
    <3> QED BY <3>1 DEF UsedIn
  <2>5. \A a \in 1 .. Len(s) : s[a] # e
    BY <1>2, <2>4 DEF Places
  <2>6. ASSUME NEW a \in 1 .. Len(s) + 1, NEW b \in 1 .. Len(s) + 1, t[a] = t[b] PROVE a = b
    <3>1. CASE a \in 1 .. Len(s) /\ b \in 1 .. Len(s)
      BY <1>2, <2>2, <2>6, <3>1 DEF Places
    <3>2. CASE a = Len(s) + 1 /\ b \in 1 .. Len(s)
      BY <2>2, <2>5, <2>6, <3>2
    <3>3. CASE a \in 1 .. Len(s) /\ b = Len(s) + 1
      BY <2>2, <2>5, <2>6, <3>3
    <3>4. (a \in 1 .. Len(s) \/ a = Len(s) + 1) /\ (b \in 1 .. Len(s) \/ b = Len(s) + 1)
      BY <1>2
    <3> QED BY <3>1, <3>2, <3>3, <3>4
  <2>7. {t[a] : a \in Places(t)} = {s[a] : a \in Places(s)} \cup {e}
    <3>1. Places(t) = 1 .. Len(s) + 1 /\ Places(s) = 1 .. Len(s)
      BY <2>2 DEF Places
    <3>2. ASSUME NEW a \in Places(t) PROVE t[a] \in {s[b] : b \in Places(s)} \cup {e}
      <4>1. a \in 1 .. Len(s) \/ a = Len(s) + 1
        BY <1>2, <3>1
      <4> QED BY <2>2, <3>1, <4>1
    <3>3. ASSUME NEW a \in Places(s) PROVE \E b \in Places(t) : s[a] = t[b]
      <4>1. a \in Places(t) /\ t[a] = s[a]
        BY <1>2, <2>2, <3>1
      <4> QED BY <4>1
    <3>4. Len(s) + 1 \in Places(t)
      BY <1>2, <3>1
    <3> QED BY <2>2, <3>2, <3>3, <3>4
  <2>8. MoveOn(s, ob, en, j) = t
    BY <1>4, <2>1 DEF MoveOn
  <2>9. \A a, b \in Places(t) : t[a] = t[b] => a = b
    BY <2>2, <2>6 DEF Places
  <2>10. {t[a] : a \in Places(t)} = UsedIn(ob, en, j)
    BY <1>2, <2>3, <2>7
  <2>11. Len(t) <= j
    BY <1>1, <1>2, <2>2
  <2> QED BY <2>2, <2>8, <2>9, <2>10, <2>11 DEF Moved
<1> QED BY <1>3, <1>4

LEMMA InUseIs ==
    ASSUME NEW k \in Nat, size \in Nat, Placed(entries, size, k)
    PROVE  Moved(Table!InUse, object, entries, size, k)
<1> PICK n, ob, en : n = size /\ ob = object /\ en = entries
  OBVIOUS
<1>0. n \in Nat /\ Placed(en, n, k)
  OBVIOUS
<1> DEFINE rec(d) == [i \in 0 .. n |-> IF i = 0 THEN <<>> ELSE MoveOn(d[i - 1], ob, en, i)]
           d0 == CHOOSE d : d = rec(d)
<1>1. Moved(<<>>, ob, en, 0, k)
  BY DEF UsedIn, Places, Moved
<1>2. d0 = rec(d0)
  <2> DEFINE g == [p \in (1 .. n) \X Seq(1 .. k) |-> MoveOn(p[2], ob, en, p[1])]
  <2>1. Maps(g, n, Seq(1 .. k))
    <3>1. ASSUME NEW j \in 1 .. n, NEW s \in Seq(1 .. k) PROVE MoveOn(s, ob, en, j) \in Seq(1 .. k)
      <4>1. en[j - 1] \in 1 .. k
        BY <1>0 DEF Placed
      <4>2. PICK e, X : e = en[j - 1] /\ X = 1 .. k
        OBVIOUS
      <4>3. e \in X /\ s \in Seq(X)
        BY <4>1, <4>2
      <4>4. Append(s, e) \in Seq(X)
        BY <4>3
      <4> QED BY <4>2, <4>3, <4>4 DEF MoveOn
    <3>2. ASSUME NEW p \in (1 .. n) \X Seq(1 .. k)
          PROVE  MoveOn(p[2], ob, en, p[1]) \in Seq(1 .. k)
      BY <3>1
    <3> QED BY <3>2 DEF Maps
  <2>2. \A j \in 1 .. n : \A x \in Seq(1 .. k) : g[<<j, x>>] = MoveOn(x, ob, en, j)
    OBVIOUS
  <2> HIDE DEF g
  <2>3. PICK f \in [0 .. n -> Seq(1 .. k)] : f[0] = <<>> /\ \A j \in 1 .. n : f[j] = g[<<j, f[j - 1]>>]
    <3>1. <<>> \in Seq(1 .. k)
      OBVIOUS
    <3>2. StepsUp(g, n, Seq(1 .. k), <<>>)
      BY <1>0, <2>1, <3>1, StepsTo
    <3> QED BY <3>2 DEF StepsUp
  <2>4. f = rec(f)
    <3>1. ASSUME NEW i \in 0 .. n
          PROVE  f[i] = IF i = 0 THEN <<>> ELSE MoveOn(f[i - 1], ob, en, i)
      <4>1. CASE i = 0
        BY <2>3, <4>1
      <4>2. CASE i # 0
        <5>1. i \in 1 .. n /\ i - 1 \in 0 .. n
          BY <1>0, <4>2
        <5>2. f[i] = g[<<i, f[i - 1]>>] /\ f[i - 1] \in Seq(1 .. k)
          BY <2>3, <5>1
        <5> QED BY <2>2, <4>2, <5>1, <5>2
      <4> QED BY <4>1, <4>2
    <3> QED BY <2>3, <3>1
  <2> HIDE DEF rec
  <2> QED BY <2>4
<1>3. d0[0] = <<>> /\ \A i \in 1 .. n : d0[i] = MoveOn(d0[i - 1], ob, en, i)
  <2> HIDE DEF d0
  <2>1. \A i \in 0 .. n : d0[i] = IF i = 0 THEN <<>> ELSE MoveOn(d0[i - 1], ob, en, i)
    BY <1>2
  <2>2. 0 \in 0 .. n /\ \A i \in 1 .. n : i \in 0 .. n /\ i # 0
    BY <1>0
  <2> QED BY <2>1, <2>2
<1>4. Table!InUse = d0[n]
  BY Zenon DEF Table!InUse, MoveOn
<1> HIDE DEF d0
<1> DEFINE T == {i \in Nat : i <= n => Moved(d0[i], ob, en, i, k)}
<1>5. 0 \in T
  BY <1>1, <1>3
<1>6. ASSUME NEW i \in Nat, i \in T PROVE i + 1 \in T
  <2> SUFFICES ASSUME i + 1 <= n PROVE Moved(d0[i + 1], ob, en, i + 1, k)
    OBVIOUS
  <2>1. PICK j \in 1 .. n : j = i + 1 /\ j - 1 = i
    BY <1>0
  <2>2. Moved(d0[j - 1], ob, en, j - 1, k)
    BY <1>0, <1>6, <2>1
  <2>3. Moved(MoveOn(d0[j - 1], ob, en, j), ob, en, j, k)
    BY <1>0, <2>2, MovesOn
  <2> QED BY <1>3, <2>1, <2>3
<1> HIDE DEF T
<1>7. n \in T
  BY <1>0, <1>5, <1>6, Induction
<1> QED BY <1>0, <1>4, <1>7 DEF T

\* What the loops over a chain pass.
Trail(from, ob, en) ==
    CHOOSE at : at = [n \in Nat |-> IF n = 0 THEN from
                                    ELSE IF at[n - 1] = -1 THEN -1 ELSE ob[en[at[n - 1]]].next]

LEMMA TrailPasses ==
    ASSUME NEW from, NEW ob, NEW en, NEW S, Chain(from, NextIn(ob, en), S)
    PROVE  Passes(Trail(from, ob, en), from, NextIn(ob, en))
<1> DEFINE rec(at) == [n \in Nat |-> IF n = 0 THEN from
                                     ELSE IF at[n - 1] = -1 THEN -1 ELSE ob[en[at[n - 1]]].next]
<1> PICK nx : nx = NextIn(ob, en)
  OBVIOUS
<1> PICK C : C = S \cup {-1}
  OBVIOUS
<1>1. from \in C /\ C \subseteq Int /\ -1 \in C /\ \A x \in S : nx[x] \in C
  <2>1. PICK s : Chained(s, from, nx, S)
    BY DEF Chain
  <2>2. S \subseteq Nat /\ from \in S \cup {-1} /\ \A x \in S : nx[x] \in S \cup {-1}
    BY <2>1, ChainTypes
  <2> QED BY <2>2
<1> DEFINE g == [x \in C |-> IF x = -1 THEN -1 ELSE nx[x]]
<1>2. g \in [C -> C] /\ \A x \in C : g[x] = IF x = -1 THEN -1 ELSE nx[x]
  BY <1>1
<1> HIDE DEF g
<1>3. PICK f \in [Nat -> C] : f[0] = from /\ \A n \in Nat : f[n + 1] = g[f[n]]
  <2>1. Unfolds(C, from, g)
    BY <1>1, <1>2, Unfolded
  <2> QED BY <2>1 DEF Unfolds
<1>4. f = rec(f)
  <2>1. ASSUME NEW n \in Nat
        PROVE  f[n] = IF n = 0 THEN from ELSE IF f[n - 1] = -1 THEN -1 ELSE ob[en[f[n - 1]]].next
    <3>1. CASE n = 0
      BY <1>3, <3>1
    <3>2. CASE n # 0
      <4>1. n - 1 \in Nat /\ (n - 1) + 1 = n
        BY <3>2
      <4>2. f[n] = g[f[n - 1]] /\ f[n - 1] \in C /\ f[n - 1] \in Int
        BY <1>1, <1>3, <4>1
      <4>3. nx[f[n - 1]] = ob[en[f[n - 1]]].next
        BY <4>2 DEF NextIn
      <4> QED BY <1>2, <3>2, <4>2, <4>3
    <3> QED BY <3>1, <3>2
  <2> QED BY <1>3, <2>1
<1> HIDE DEF rec
<1>5. PICK at : at = Trail(from, ob, en) /\ at = rec(at)
  BY <1>4 DEF Trail, rec
<1>6. \A n \in Nat : at[n] = IF n = 0 THEN from
                             ELSE IF at[n - 1] = -1 THEN -1 ELSE ob[en[at[n - 1]]].next
  BY <1>5 DEF rec
<1>7. ASSUME NEW n \in Nat
      PROVE  at[n + 1] = IF at[n] = -1 THEN -1 ELSE ob[en[at[n]]].next
  BY <1>6
<1>8. at[0] = from
  BY <1>6
<1> DEFINE T == {n \in Nat : at[n] \in C}
<1>9. Nat \subseteq T
  <2>1. 0 \in T
    BY <1>1, <1>8
  <2>2. ASSUME NEW n \in Nat, n \in T PROVE n + 1 \in T
    <3>1. at[n] \in C /\ at[n] \in Int
      BY <1>1, <2>2
    <3>2. at[n] # -1 => ob[en[at[n]]].next \in C
      BY <1>1, <3>1 DEF NextIn
    <3> QED BY <1>1, <1>7, <3>2
  <2> HIDE DEF T
  <2> QED BY <2>1, <2>2, Induction
<1>10. ASSUME NEW n \in Nat PROVE at[n + 1] = IF at[n] = -1 THEN -1 ELSE nx[at[n]]
  BY <1>1, <1>9, <1>7 DEF NextIn
<1> QED BY <1>5, <1>8, <1>10 DEF Passes

-----------------------------------------------------------------------------
(* The table *)

TablesAreGiven == (\A key \in Keys : Hash[key] \in Nat) /\ Primes \subseteq Nat \ {0}

\* Capacity c, entry objects 0 to k.
Tabled(bk, en, ob, n, m, f, t, c, k) ==
    /\ k \in Nat /\ c \in Primes /\ ob \in Objects(k) /\ t \in -1 .. k
    /\ en \in [0 .. c - 1 -> Int] /\ Placed(en, n, k)
    /\ \A i \in 0 .. c - 1 : i >= n => en[i] = -1
    /\ SlotsInv(bk, HashIn(ob, en), NextIn(ob, en), KeyIn(ob, en), n, c, m, f)

TableInv ==
    /\ TablesAreGiven
    /\ \E c, k : Tabled(buckets, entries, object, size, freeSize, freeList, tail, c, k)

LEMMA TableCardinality == \A S : Table!Cardinality(S) = Cardinality(S)
BY Zenon DEF Table!Cardinality, Cardinality, Table!IsFiniteSet, IsFiniteSet

LEMMA IntervalCardinality == \A n \in Nat : Cardinality(0 .. n - 1) = n
<1> SUFFICES ASSUME NEW n \in Nat PROVE Cardinality(0 .. n - 1) = n
  OBVIOUS
<1>1. Cardinality(0 .. n - 1) = IF 0 > n - 1 THEN 0 ELSE (n - 1) - 0 + 1
  BY FS_Interval
<1> QED BY <1>1

LEMMA TableSizes ==
    ASSUME TablesAreGiven, NEW c, NEW k,
           Tabled(buckets, entries, object, size, freeSize, freeList, tail, c, k)
    PROVE  /\ c \in Nat \ {0} /\ k \in Nat /\ size \in Nat /\ size <= c /\ freeSize \in Nat
           /\ DOMAIN buckets = 0 .. c - 1 /\ DOMAIN entries = 0 .. c - 1 /\ DOMAIN object = 0 .. k
           /\ Table!Capacity = c /\ Table!Cardinality(DOMAIN object) = k + 1
<1>1. c \in Nat \ {0} /\ k \in Nat
  BY DEF Tabled, TablesAreGiven
<1>2. /\ size \in Nat /\ size <= c /\ freeSize \in Nat
      /\ Bucketed(buckets, HashIn(object, entries), NextIn(object, entries), size, c)
  BY DEF Tabled, SlotsInv
<1>3. DOMAIN buckets = 0 .. c - 1 /\ DOMAIN entries = 0 .. c - 1 /\ DOMAIN object = 0 .. k
  BY <1>2 DEF Bucketed, Tabled, Objects
<1>4. Table!Capacity = c
  BY <1>1, <1>3, TableCardinality, IntervalCardinality DEF Table!Capacity
<1>5. Table!Cardinality(DOMAIN object) = k + 1
  BY <1>1, <1>3, TableCardinality, IntervalCardinality
<1> QED BY <1>1, <1>2, <1>3, <1>4, <1>5

\* What Table!Chain gives: the places of the bucket, and -1 after them.
Follows(ch, s, c) == /\ Len(s) \in Nat /\ Len(s) <= c
                     /\ DOMAIN ch = 1 .. c
                     /\ \A n \in 1 .. c : ch[n] = IF n <= Len(s) THEN s[n] ELSE -1

LEMMA ChainIs ==
    ASSUME TablesAreGiven, NEW c, NEW k,
           Tabled(buckets, entries, object, size, freeSize, freeList, tail, c, k),
           NEW key, Hash[key] \in Nat, NEW b, b = Hash[key] % c
    PROVE  /\ b \in 0 .. c - 1
           /\ \E s : /\ Chained(s, buckets[b] - 1, NextIn(object, entries),
                                InBucket(HashIn(object, entries), size, c, b))
                     /\ Follows(Table!Chain(key), s, c)
<1>1. /\ c \in Nat \ {0} /\ size \in Nat /\ size <= c /\ Table!Capacity = c
  BY TableSizes
<1>2. b \in 0 .. c - 1
  BY <1>1, BucketOf
<1> PICK H, N, from, S : /\ H = HashIn(object, entries) /\ N = NextIn(object, entries)
                         /\ from = buckets[b] - 1 /\ S = InBucket(H, size, c, b)
  OBVIOUS
<1>3. Chain(from, N, S)
  BY <1>2 DEF Tabled, SlotsInv, Bucketed
<1>4. PICK s : Chained(s, from, N, S)
  BY <1>3 DEF Chain
<1>5. PICK at : at = Trail(from, object, entries) /\ Passes(at, from, N)
  BY <1>3, TrailPasses
<1>6. \A n \in Nat : at[n] = IF n < Len(s) THEN s[n + 1] ELSE -1
  BY <1>4, <1>5, ChainPassed
<1>7. IsFiniteSet(S) /\ Cardinality(S) = Len(s)
  BY <1>4, ChainCounts
<1>8. Len(s) \in Nat /\ Len(s) <= c
  <2>1. IsFiniteSet(0 .. size - 1) /\ Cardinality(0 .. size - 1) = size
    BY <1>1, IntervalCardinality, FS_Interval
  <2>2. S \subseteq 0 .. size - 1
    BY DEF InBucket
  <2>3. Cardinality(S) <= size
    BY <2>1, <2>2, FS_Subset, ZenonT(30)
  <2>4. Len(s) \in Nat
    BY <1>4, ChainTypes
  <2> QED BY <1>1, <1>7, <2>3, <2>4, SMTT(30)
<1>9. Table!Chain(key) = [n \in 1 .. c |-> at[n - 1]]
  BY <1>1, <1>5 DEF Table!Chain, Trail
<1>10. ASSUME NEW n \in 1 .. c
       PROVE  at[n - 1] = IF n <= Len(s) THEN s[n] ELSE -1
  BY <1>1, <1>8, <1>6
<1>11. Follows(Table!Chain(key), s, c)
  BY <1>8, <1>9, <1>10 DEF Follows
<1> QED BY <1>2, <1>4, <1>11

FoundAs(ob, en, n, key, i) ==
    \/ i = -1 /\ NewKey(HashIn(ob, en), KeyIn(ob, en), n, key)
    \/ i \in 0 .. n - 1 /\ HashIn(ob, en)[i] # -1 /\ KeyIn(ob, en)[i] = key

LEMMA Finds ==
    ASSUME TableInv, NEW key, Hash[key] \in Nat
    PROVE  FoundAs(object, entries, size, key, Table!findEntryIndex(key))
<1>0. TablesAreGiven
  BY DEF TableInv
<1> PICK c, k : Tabled(buckets, entries, object, size, freeSize, freeList, tail, c, k)
  BY DEF TableInv
<1> PICK b, H, N, K, i : /\ b = Hash[key] % c /\ H = HashIn(object, entries)
                         /\ N = NextIn(object, entries) /\ K = KeyIn(object, entries)
                         /\ i = Table!findEntryIndex(key)
  OBVIOUS
<1>1. PICK s : /\ Chained(s, buckets[b] - 1, N, InBucket(H, size, c, b))
               /\ Follows(Table!Chain(key), s, c)
  BY <1>0, ChainIs
<1>2. Coded(H, K, size) /\ size \in Nat
  BY DEF Tabled, SlotsInv
<1> PICK S, ch : S = InBucket(H, size, c, b) /\ ch = Table!Chain(key)
  OBVIOUS
<1>3. Table!Range(ch) \ {-1} = S
  <2>1. /\ Len(s) \in Nat /\ Len(s) <= c /\ DOMAIN ch = 1 .. c
        /\ \A n \in 1 .. c : ch[n] = IF n <= Len(s) THEN s[n] ELSE -1
    BY <1>1 DEF Follows
  <2>2. S = {s[n] : n \in 1 .. Len(s)} /\ S \subseteq Nat
    BY <1>1, ChainTypes DEF Chained, Places
  <2>3. c \in Int
    BY <1>0, TableSizes
  <2>4. ASSUME NEW x \in Table!Range(ch), x # -1 PROVE x \in S
    <3>1. PICK n \in 1 .. c : x = ch[n]
      BY <2>1 DEF Table!Range
    <3>2. n <= Len(s) /\ x = s[n]
      BY <2>1, <2>4, <3>1
    <3>3. n \in 1 .. Len(s)
      BY <3>2, <2>1
    <3> QED BY <2>2, <3>2, <3>3
  <2>5. ASSUME NEW x \in S PROVE x \in Table!Range(ch) /\ x # -1
    <3>1. PICK n \in 1 .. Len(s) : x = s[n]
      BY <2>2
    <3>2. n \in 1 .. c /\ ch[n] = x
      BY <2>1, <2>3, <3>1
    <3>3. x \in Nat
      BY <2>2
    <3> QED BY <2>1, <3>2, <3>3 DEF Table!Range
  <2> QED BY <2>4, <2>5
<1> DEFINE found == {j \in S : Table!Matches(j, key)}
<1>4. i = IF found = {} THEN -1 ELSE CHOOSE j \in found : TRUE
  <2>1. {j \in Table!Range(Table!Chain(key)) \ {-1} : Table!Matches(j, key)} = found
    BY <1>3
  <2>2. i = LET fo == {j \in Table!Range(Table!Chain(key)) \ {-1} : Table!Matches(j, key)}
            IN IF fo = {} THEN -1 ELSE CHOOSE j \in fo : TRUE
    BY Zenon DEF Table!findEntryIndex
  <2> HIDE DEF found
  <2> QED BY <2>1, <2>2
<1>5. \A j \in S : j \in 0 .. size - 1 /\ H[j] >= 0 /\ H[j] % c = b
  BY DEF InBucket
<1>6. \A j \in 0 .. size - 1 : Table!Matches(j, key) <=> H[j] = Hash[key] /\ K[j] = key
  <2>1. ASSUME NEW j \in 0 .. size - 1
        PROVE  Table!Matches(j, key) <=> H[j] = Hash[key] /\ K[j] = key
    BY <1>2 DEF HashIn, KeyIn, Table!Matches
  <2> QED BY <2>1
<1>7. CASE found = {}
  <2>1. i = -1
    BY <1>4, <1>7
  <2>2. ASSUME NEW j \in 0 .. size - 1, H[j] # -1, K[j] = key PROVE FALSE
    BY <1>2, <2>2, <1>6, <1>7 DEF Coded, InBucket
  <2> QED BY <2>1, <2>2 DEF FoundAs, NewKey
<1>8. CASE found # {}
  <2>1. i \in found
    <3> HIDE DEF found
    <3> QED BY <1>4, <1>8
  <2>2. i \in S /\ i \in 0 .. size - 1 /\ H[i] = Hash[key] /\ K[i] = key /\ H[i] >= 0
    BY <1>5, <1>6, <2>1
  <2>3. H[i] # -1
    BY <2>2
  <2> QED BY <2>2, <2>3 DEF FoundAs
<1> QED BY <1>7, <1>8

LEMMA FindIs ==
    ASSUME TableInv, NEW key, key \in Keys
    PROVE  FoundAs(object, entries, size, key, Table!findEntryIndex(key))
BY Finds DEF TableInv, TablesAreGiven

\* What is no key is not found.
LEMMA FindsKeys ==
    ASSUME TableInv, NEW key, key \notin Keys, Hash[key] \in Nat
    PROVE  Table!findEntryIndex(key) = -1
<1>1. PICK c, k : Tabled(buckets, entries, object, size, freeSize, freeList, tail, c, k)
  BY DEF TableInv
<1>2. Coded(HashIn(object, entries), KeyIn(object, entries), size)
  BY <1>1 DEF Tabled, SlotsInv
<1> QED BY <1>2, Finds DEF FoundAs, Coded

LEMMA FreeListedIs ==
    ASSUME TablesAreGiven, NEW c, NEW k,
           Tabled(buckets, entries, object, size, freeSize, freeList, tail, c, k)
    PROVE  /\ Table!FreeListed = FreeSlots(HashIn(object, entries), size)
           /\ Table!Freed = FreeSlots(HashIn(object, entries), size)
<1> PICK H, N, F : H = HashIn(object, entries) /\ N = NextIn(object, entries) /\ F = FreeSlots(H, size)
  OBVIOUS
<1>1. size \in Nat /\ freeSize \in Nat /\ Chain(freeList, N, F) /\ Cardinality(F) = freeSize
  BY DEF Tabled, SlotsInv
<1>2. PICK s : Chained(s, freeList, N, F)
  BY <1>1 DEF Chain
<1>3. PICK at : at = Trail(freeList, object, entries) /\ Passes(at, freeList, N)
  BY <1>1, TrailPasses
<1>4. \A n \in Nat : at[n] = IF n < Len(s) THEN s[n + 1] ELSE -1
  BY <1>2, <1>3, ChainPassed
<1>5. Len(s) = freeSize /\ F = {s[n] : n \in 1 .. freeSize}
  <2>1. Cardinality(F) = Len(s)
    BY <1>2, ChainCounts
  <2>2. F = {s[n] : n \in 1 .. Len(s)}
    BY <1>2 DEF Chained, Places
  <2> QED BY <1>1, <2>1, <2>2
<1>6. Table!FreeListed = {at[n] : n \in 0 .. freeSize - 1}
  BY <1>3 DEF Table!FreeListed, Trail
<1>7. {at[n] : n \in 0 .. freeSize - 1} = F
  <2>1. ASSUME NEW n \in 0 .. freeSize - 1 PROVE at[n] \in F
    BY <1>1, <1>5, <1>4
  <2>2. ASSUME NEW n \in 1 .. freeSize PROVE n - 1 \in 0 .. freeSize - 1 /\ at[n - 1] = s[n]
    BY <1>1, <1>5, <1>4
  <2> QED BY <1>5, <2>1, <2>2
<1>8. Table!Freed = F
  BY <1>1 DEF HashIn, Table!Freed, FreeSlots
<1> QED BY <1>6, <1>7, <1>8

\* The keys that are found are those of the places in use, each once.
LEMMA FoundAreUsed ==
    ASSUME TableInv
    PROVE  Table!Cardinality({key \in Keys : Table!findEntryIndex(key) # -1}) = size - freeSize
<1>0. TablesAreGiven
  BY DEF TableInv
<1> PICK c, k : Tabled(buckets, entries, object, size, freeSize, freeList, tail, c, k)
  BY DEF TableInv
<1> PICK H, K, F : H = HashIn(object, entries) /\ K = KeyIn(object, entries) /\ F = FreeSlots(H, size)
  OBVIOUS
<1>1. size \in Nat /\ freeSize \in Nat /\ Cardinality(F) = freeSize /\ Coded(H, K, size)
  BY DEF Tabled, SlotsInv
<1> PICK U, G : U = (0 .. size - 1) \ F /\ G = {key \in Keys : Table!findEntryIndex(key) # -1}
  OBVIOUS
<1>2. IsFiniteSet(0 .. size - 1) /\ Cardinality(0 .. size - 1) = size
  BY <1>1, FS_Interval, IntervalCardinality
<1>3. F \subseteq 0 .. size - 1 /\ IsFiniteSet(F) /\ IsFiniteSet(U)
  BY <1>2, FS_Subset DEF FreeSlots
<1>4. Cardinality(U) = size - freeSize
  <2>1. U \cup F = 0 .. size - 1 /\ U \cap F = {}
    BY <1>3
  <2>2. Cardinality(U \cup F) = Cardinality(U) + Cardinality(F) - Cardinality(U \cap F)
    BY <1>3, FS_Union
  <2>3. Cardinality(U \cap F) = 0
    BY <2>1, FS_EmptySet
  <2>4. Cardinality(U) \in Nat
    BY <1>3, FS_CardinalityType
  <2>5. size = Cardinality(U) + freeSize - 0
    BY <1>1, <1>2, <2>1, <2>2, <2>3
  <2> QED BY <1>1, <2>4, <2>5
<1>5. \A i : i \in U <=> i \in 0 .. size - 1 /\ H[i] # -1
  BY DEF FreeSlots
<1>6. \A key \in Keys : FoundAs(object, entries, size, key, Table!findEntryIndex(key))
  BY FindIs
<1>7. \A key \in G : Table!findEntryIndex(key) \in U /\ K[Table!findEntryIndex(key)] = key
  BY <1>5, <1>6 DEF FoundAs
<1>8. \A i \in U : K[i] \in G
  <2>1. ASSUME NEW i \in U PROVE K[i] \in G
    BY <1>1, <1>5, <1>6 DEF Coded, NewKey, FoundAs
  <2> QED BY <2>1
<1> DEFINE f == [i \in U |-> K[i]]
<1>9. f \in Surjection(U, G)
  BY <1>8, <1>7 DEF Surjection
<1>10. f \in Injection(U, G)
  <2>1. f \in [U -> G]
    BY <1>8
  <2>2. \A i, j \in U : (f[i] = f[j]) => (i = j)
    BY <1>1, <1>5 DEF Coded
  <2> HIDE DEF f
  <2> QED BY <2>1, <2>2, Zenon DEF Injection, IsInjective
<1> HIDE DEF f
<1>11. Cardinality(G) = Cardinality(U)
  BY <1>3, <1>9, <1>10, FS_Surjection
<1> QED BY <1>4, <1>11, TableCardinality

LEMMA TableTypes == ASSUME TableInv PROVE Table!TypeOK
<1>0. TablesAreGiven
  BY DEF TableInv
<1> PICK c, k : Tabled(buckets, entries, object, size, freeSize, freeList, tail, c, k)
  BY DEF TableInv
<1>1. /\ c \in Nat \ {0} /\ size \in Nat /\ size <= c /\ freeSize \in Nat /\ Table!Capacity = c
  BY <1>0, TableSizes
<1> PICK F : F = FreeSlots(HashIn(object, entries), size)
  OBVIOUS
<1>2. Table!FreeListed = F /\ Table!Freed = F
  BY <1>0, FreeListedIs
<1>3. Cardinality(F) = freeSize
  BY DEF Tabled, SlotsInv
<1>4. freeSize <= size
  <2>1. F \in SUBSET (0 .. size - 1)
    BY DEF FreeSlots
  <2>2. IsFiniteSet(0 .. size - 1) /\ Cardinality(0 .. size - 1) = size
    BY <1>1, FS_Interval, IntervalCardinality
  <2> QED BY <1>3, <2>1, <2>2, FS_Subset
<1>5. Table!Cardinality(Table!Freed) = freeSize
  BY <1>2, <1>3, TableCardinality
<1>6. Table!Cardinality({key \in Keys : Table!findEntryIndex(key) # -1}) = size - freeSize
  BY FoundAreUsed
<1> QED BY <1>1, <1>2, <1>4, <1>5, <1>6 DEF Table!TypeOK

\* New buckets: next indices have changed, but not those of the free places.
LEMMA SlotsRebucketed ==
    ASSUME NEW bk, NEW H, NEW N, NEW K, NEW n, NEW c, NEW m, NEW f, SlotsInv(bk, H, N, K, n, c, m, f),
           NEW d, d \in Nat \ {0}, n <= d, NEW bk2, NEW H2, NEW N2, NEW K2, Bucketed(bk2, H2, N2, n, d),
           \A i \in 0 .. n - 1 : H2[i] = H[i] /\ K2[i] = K[i] /\ (H[i] = -1 => N2[i] = N[i])
    PROVE  SlotsInv(bk2, H2, N2, K2, n, d, m, f)
<1>1. /\ n \in Nat /\ m \in Nat /\ Coded(H, K, n)
      /\ Chain(f, N, FreeSlots(H, n)) /\ Cardinality(FreeSlots(H, n)) = m
  BY SlotTypes
<1>2. FreeSlots(H2, n) = FreeSlots(H, n)
  BY DEF FreeSlots
<1>3. Chain(f, N2, FreeSlots(H, n))
  BY <1>1, ChainKept DEF FreeSlots
<1>4. Coded(H2, K2, n)
  BY <1>1 DEF Coded
<1> QED BY <1>1, <1>2, <1>3, <1>4 DEF SlotsInv

LEMMA SlotsKept ==
    ASSUME NEW bk, NEW H, NEW N, NEW K, NEW n, NEW c, NEW m, NEW f, SlotsInv(bk, H, N, K, n, c, m, f),
           NEW H2, NEW N2, NEW K2,
           \A i \in 0 .. n - 1 : H2[i] = H[i] /\ K2[i] = K[i] /\ N2[i] = N[i]
    PROVE  SlotsInv(bk, H2, N2, K2, n, c, m, f)
<1>1. n \in Nat /\ c \in Nat \ {0} /\ n <= c /\ Bucketed(bk, H, N, n, c)
  BY SlotTypes
<1>2. Bucketed(bk, H2, N2, n, c)
  BY <1>1, BucketedKept
<1>3. \A i \in 0 .. n - 1 : H2[i] = H[i] /\ K2[i] = K[i] /\ (H[i] = -1 => N2[i] = N[i])
  OBVIOUS
<1> QED BY <1>1, <1>2, <1>3, SlotsRebucketed

LEMMA NoSlots ==
    ASSUME NEW H, NEW N, NEW K, NEW c, c \in Nat \ {0}
    PROVE  SlotsInv([b \in 0 .. c - 1 |-> 0], H, N, K, 0, c, 0, -1)
BY NoneBucketed, ChainEmpty, FS_EmptySet DEF FreeSlots, Coded, SlotsInv

LEMMA PrimeIs ==
    ASSUME TablesAreGiven, NEW n \in Int, \E p \in Primes : p >= n
    PROVE  /\ Table!getPrime(n) \in Primes /\ Table!getPrime(n) >= n
           /\ Table!getPrime(n) \in Nat \ {0}
<1> DEFINE T == {p \in Primes : p >= n}
<1>1. T \in SUBSET Nat /\ T # {} /\ Primes \subseteq Nat \ {0}
  BY DEF TablesAreGiven
<1>2. PICK x \in T : \A y \in T : x <= y
  <2> HIDE DEF T
  <2> QED BY <1>1, SmallestNat
<1>3. \E p \in Primes : p >= n /\ \A q \in Primes : q >= n => p <= q
  BY <1>2
<1>4. Table!getPrime(n) \in Primes /\ Table!getPrime(n) >= n
  <2> DEFINE P(p) == p >= n /\ \A q \in Primes : q >= n => p <= q
  <2>1. Table!getPrime(n) = CHOOSE p \in Primes : P(p)
    BY DEF Table!getPrime
  <2>2. \E p \in Primes : P(p)
    BY <1>3
  <2>3. Table!getPrime(n) \in Primes /\ P(Table!getPrime(n))
    <3> HIDE DEF P
    <3> QED BY <2>1, <2>2
  <2> QED BY <2>3
<1> QED BY <1>1, <1>4

-----------------------------------------------------------------------------
\* What is in the table.
Contents(ob, en, n) ==
    {<<ob[en[i]].key, ob[en[i]].value>> : i \in {j \in 0 .. n - 1 : ob[en[j]].hashCode # -1}}

\* The entries in use, and what a walk over the entries reads.
Used(ob, en, n) == {en[j] : j \in {l \in 0 .. n - 1 : ob[en[l]].hashCode # -1}}
InTable == Used(object, entries, size)

NextOf(ob, k) == [x \in 0 .. k |-> ob[x].nextEntry]
PrevOf(ob, k) == [x \in 0 .. k |-> ob[x].prevEntry]
SkipOf(ob, k) == [x \in 0 .. k |-> ob[x].skipNextEntry]
KeyOf(ob, k) == [x \in 0 .. k |-> ob[x].key]

\* Nothing that a walk reads has changed.
LinksKept(o, ob, k) ==
    \A x \in 0 .. k : /\ o[x].prevEntry = ob[x].prevEntry /\ o[x].nextEntry = ob[x].nextEntry
                      /\ o[x].skipNextEntry = ob[x].skipNextEntry /\ o[x].key = ob[x].key

KeepsLinks ==
    \E k \in Nat : /\ object \in Objects(k) /\ object' \in Objects(k) /\ LinksKept(object', object, k)
                  /\ tail' = tail /\ InTable' = InTable

SamePlaces(o, e, ob, en, n) ==
    \A i \in 0 .. n - 1 : e[i] = en[i] /\ o[e[i]].hashCode = ob[en[i]].hashCode

LEMMA UsedKept ==
    ASSUME NEW ob, NEW en, NEW n, NEW o, NEW e, SamePlaces(o, e, ob, en, n)
    PROVE  Used(o, e, n) = Used(ob, en, n)
BY DEF Used, SamePlaces

SameEntries(o, e, ob, en, n) ==
    \A i \in 0 .. n - 1 : /\ o[e[i]].hashCode = ob[en[i]].hashCode
                          /\ o[e[i]].key = ob[en[i]].key /\ o[e[i]].value = ob[en[i]].value

LEMMA ContentsKept ==
    ASSUME NEW ob, NEW en, NEW n, NEW o, NEW e, SameEntries(o, e, ob, en, n)
    PROVE  Contents(o, e, n) = Contents(ob, en, n)
<1> USE DEF SameEntries
<1>1. \A j \in 0 .. n - 1 : o[e[j]].hashCode # -1 <=> ob[en[j]].hashCode # -1
  OBVIOUS
<1>2. Contents(o, e, n) \subseteq Contents(ob, en, n)
  BY <1>1 DEF Contents
<1>3. Contents(ob, en, n) \subseteq Contents(o, e, n)
  BY <1>1 DEF Contents
<1> QED BY <1>2, <1>3

\* Growing: all places stay.
LEMMA Resized ==
    ASSUME TablesAreGiven, NEW c, NEW k,
           Tabled(buckets, entries, object, size, freeSize, freeList, tail, c, k),
           NEW d, d \in Primes, d >= c, NEW r, r = Table!resizeHashData(d)
    PROVE  /\ Tabled(r.buckets, r.entries, r.object, size, freeSize, freeList, tail, d, k)
           /\ UpToNext(r.object, object, k)
           /\ Contents(r.object, r.entries, size) = Contents(object, entries, size)
           /\ LinksKept(r.object, object, k) /\ Used(r.object, r.entries, size) = InTable
<1>1. /\ c \in Nat \ {0} /\ k \in Nat /\ size \in Nat /\ size <= c /\ freeSize \in Nat
      /\ DOMAIN entries = 0 .. c - 1
  BY TableSizes
<1>2. d \in Nat \ {0} /\ size <= d
  <2>1. d \in Nat \ {0}
    BY DEF TablesAreGiven
  <2> QED BY <1>1, <2>1
<1>3. /\ object \in Objects(k) /\ tail \in -1 .. k /\ Placed(entries, size, k)
      /\ entries \in [0 .. c - 1 -> Int] /\ \A i \in 0 .. c - 1 : i >= size => entries[i] = -1
      /\ SlotsInv(buckets, HashIn(object, entries), NextIn(object, entries), KeyIn(object, entries),
                  size, c, freeSize, freeList)
  BY DEF Tabled
<1>4. PICK q : q = Table!Rehash(entries, size, d) /\ Relinked(q, object, entries, size, d, k)
  BY <1>1, <1>2, <1>3, RehashIs
<1>5. PICK g : g = [i \in 0 .. d - 1 |-> IF i \in 0 .. c - 1 THEN entries[i] ELSE -1]
  OBVIOUS
<1>6. r.buckets = q.buckets /\ r.object = q.object /\ r.entries = g
  BY <1>1, <1>4, <1>5 DEF Table!resizeHashData, Table!Grown, Table!Nothing
<1>7. /\ UpToNext(q.object, object, k) /\ q.object \in Objects(k)
      /\ Bucketed(q.buckets, HashIn(object, entries), NextIn(q.object, entries), size, d)
  BY <1>4 DEF Relinked, UpToNext
<1>8. /\ g \in [0 .. d - 1 -> Int] /\ \A i \in 0 .. d - 1 : i >= size => g[i] = -1
      /\ \A i \in 0 .. size - 1 : i \in Int /\ i \in 0 .. c - 1 /\ g[i] = entries[i] /\ entries[i] \in 0 .. k
  BY <1>1, <1>2, <1>3, <1>5 DEF Placed
<1>9. Placed(g, size, k)
  BY <1>3, <1>8 DEF Placed
<1>10. \A i \in 0 .. size - 1 : /\ q.object[g[i]].hashCode = object[entries[i]].hashCode
                                /\ q.object[g[i]].key = object[entries[i]].key
                                /\ q.object[g[i]].value = object[entries[i]].value
                                /\ q.object[g[i]].next = q.object[entries[i]].next
                                /\ object[entries[i]].hashCode = -1 =>
                                      q.object[g[i]].next = object[entries[i]].next
  BY <1>7, <1>8 DEF UpToNext
<1>11. SlotsInv(q.buckets, HashIn(q.object, g), NextIn(q.object, g), KeyIn(q.object, g),
                size, d, freeSize, freeList)
  <2>1. PICK H, N, K, H2, N2, K2, M :
           /\ H = HashIn(object, entries) /\ N = NextIn(object, entries) /\ K = KeyIn(object, entries)
           /\ H2 = HashIn(q.object, g) /\ N2 = NextIn(q.object, g) /\ K2 = KeyIn(q.object, g)
           /\ M = NextIn(q.object, entries)
    OBVIOUS
  <2>2. \A i \in 0 .. size - 1 : H2[i] = H[i] /\ K2[i] = K[i] /\ (H[i] = -1 => N2[i] = N[i]) /\ N2[i] = M[i]
    <3>1. ASSUME NEW i \in 0 .. size - 1
          PROVE  H2[i] = H[i] /\ K2[i] = K[i] /\ (H[i] = -1 => N2[i] = N[i]) /\ N2[i] = M[i]
      BY <1>8, <2>1, <1>10 DEF HashIn, NextIn, KeyIn
    <3> QED BY <3>1
  <2>3. Bucketed(q.buckets, H2, N2, size, d)
    BY <1>7, <2>1, <1>1, <2>2, <1>2, BucketedKept
  <2>4. SlotsInv(buckets, H, N, K, size, c, freeSize, freeList)
    BY <1>3, <2>1
  <2>5. SlotsInv(q.buckets, H2, N2, K2, size, d, freeSize, freeList)
    BY <1>2, <2>2, <2>3, <2>4, SlotsRebucketed
  <2> QED BY <2>1, <2>5
<1>12. Contents(q.object, g, size) = Contents(object, entries, size)
  BY <1>10, ContentsKept DEF SameEntries
<1>13. Tabled(q.buckets, g, q.object, size, freeSize, freeList, tail, d, k)
  BY <1>1, <1>3, <1>7, <1>8, <1>9, <1>11 DEF Tabled
<1>14. LinksKept(q.object, object, k)
  BY <1>7 DEF UpToNext, LinksKept
<1>15. Used(q.object, g, size) = InTable
  <2>1. SamePlaces(q.object, g, object, entries, size)
    BY <1>8, <1>10 DEF SamePlaces
  <2> QED BY <2>1, UsedKept DEF InTable
<1> QED BY <1>6, <1>7, <1>12, <1>13, <1>14, <1>15

TypedValues == Keys \cup Values \cup {Table!NoKey}

\* Entry e is new in its place and its list, after t; the others but t stay as they are.
Put(o, ob, k, l, e, key, value, nx, t, ne) ==
    /\ o \in Objects(l) /\ e \in 1 .. l
    /\ o[e].hashCode = Hash[key] /\ o[e].next = nx /\ o[e].key = key /\ o[e].value = value
    /\ o[e].skipNextEntry = FALSE /\ o[e].prevEntry = t /\ o[e].nextEntry = ne
    /\ \A x \in 0 .. k : x # e =>
          /\ o[x].next = ob[x].next /\ o[x].prevEntry = ob[x].prevEntry
          /\ o[x].nextEntry = IF x = t THEN e ELSE ob[x].nextEntry
          /\ o[x].skipNextEntry = ob[x].skipNextEntry
          /\ o[x].hashCode = ob[x].hashCode /\ o[x].key = ob[x].key /\ o[x].value = ob[x].value

Made(n, p, x, s, h, key, value) ==
    [next |-> n, prevEntry |-> p, nextEntry |-> x, skipNextEntry |-> s,
     hashCode |-> h, key |-> key, value |-> value]

LEMMA EntryMade ==
    ASSUME NEW k, NEW r, r \in EntryTypes(k)
    PROVE  r = Made(r.next, r.prevEntry, r.nextEntry, r.skipNextEntry, r.hashCode, r.key, r.value)
BY DEF EntryTypes, Made

LEMMA MadeFields ==
    ASSUME NEW n, NEW p, NEW x, NEW s, NEW h, NEW key, NEW value, NEW r, r = Made(n, p, x, s, h, key, value)
    PROVE  /\ r.next = n /\ r.prevEntry = p /\ r.nextEntry = x /\ r.skipNextEntry = s
           /\ r.hashCode = h /\ r.key = key /\ r.value = value
BY DEF Made

LEMMA MadeTyped ==
    ASSUME NEW k, NEW n \in Int, NEW p \in -1 .. k, NEW x \in -1 .. k, NEW s \in BOOLEAN, NEW h \in Int,
           NEW key \in Keys \cup {Table!NoKey}, NEW value \in TypedValues
    PROVE  Made(n, p, x, s, h, key, value) \in EntryTypes(k)
BY DEF Made, EntryTypes, TypedValues

LEMMA EntryTyped ==
    ASSUME NEW k, NEW r, r \in EntryTypes(k)
    PROVE  /\ r.next \in Int /\ r.prevEntry \in -1 .. k /\ r.nextEntry \in -1 .. k
           /\ r.skipNextEntry \in BOOLEAN /\ r.hashCode \in Int
           /\ r.key \in Keys \cup {Table!NoKey} /\ r.value \in TypedValues
BY DEF EntryTypes, TypedValues

LEMMA EntryWider ==
    ASSUME NEW k, k \in Nat, NEW l, l \in Nat, k <= l, NEW r, r \in EntryTypes(k)
    PROVE  r \in EntryTypes(l)
<1>1. /\ r.next \in Int /\ r.prevEntry \in -1 .. l /\ r.nextEntry \in -1 .. l
      /\ r.skipNextEntry \in BOOLEAN /\ r.hashCode \in Int
      /\ r.key \in Keys \cup {Table!NoKey} /\ r.value \in TypedValues
  BY EntryTyped
<1>2. Made(r.next, r.prevEntry, r.nextEntry, r.skipNextEntry, r.hashCode, r.key, r.value) \in EntryTypes(l)
  BY <1>1, MadeTyped
<1> QED BY <1>2, EntryMade

LEMMA MadeNext ==
    ASSUME NEW k, NEW r, r \in EntryTypes(k), NEW e, e \in -1 .. k
    PROVE  Made(r.next, r.prevEntry, e, r.skipNextEntry, r.hashCode, r.key, r.value) \in EntryTypes(k)
BY EntryTyped, MadeTyped

LEMMA MadeFilled ==
    ASSUME NEW k, NEW r, r \in EntryTypes(k), NEW h, h \in Int, NEW n, n \in Int,
           NEW key, key \in Keys, NEW value, value \in TypedValues, NEW t, t \in -1 .. k
    PROVE  Made(n, t, r.nextEntry, FALSE, h, key, value) \in EntryTypes(k)
BY EntryTyped, MadeTyped

LEMMA NextEntrySet ==
    ASSUME NEW k, k \in Nat, NEW r, r \in EntryTypes(k), NEW e, e \in -1 .. k,
           NEW q, q = [r EXCEPT !.nextEntry = e]
    PROVE  /\ q \in EntryTypes(k)
           /\ q.next = r.next /\ q.prevEntry = r.prevEntry /\ q.nextEntry = e
           /\ q.skipNextEntry = r.skipNextEntry /\ q.hashCode = r.hashCode
           /\ q.key = r.key /\ q.value = r.value
<1>1. q = Made(r.next, r.prevEntry, e, r.skipNextEntry, r.hashCode, r.key, r.value)
  BY DEF EntryTypes, Made
<1>3. q \in EntryTypes(k)
  <2>1. PICK p : p = Made(r.next, r.prevEntry, e, r.skipNextEntry, r.hashCode, r.key, r.value)
    OBVIOUS
  <2>2. p \in EntryTypes(k)
    BY <2>1, MadeNext
  <2> QED BY <1>1, <2>1, <2>2
<1> QED BY <1>1, <1>3, MadeFields

Fills(q, r, h, n, key, value, t) ==
    q = [r EXCEPT !.hashCode = h, !.next = n, !.key = key, !.value = value,
                  !.skipNextEntry = FALSE, !.prevEntry = t]
Filled(q, k, h, n, key, value, t, ne) ==
    /\ q \in EntryTypes(k)
    /\ q.hashCode = h /\ q.next = n /\ q.key = key /\ q.value = value
    /\ q.skipNextEntry = FALSE /\ q.prevEntry = t /\ q.nextEntry = ne

LEMMA MadeOfFields ==
    ASSUME NEW k, NEW q, q \in EntryTypes(k), NEW h, NEW n, NEW key, NEW value, NEW t, NEW ne,
           q = Made(n, t, ne, FALSE, h, key, value)
    PROVE  Filled(q, k, h, n, key, value, t, ne)
BY DEF Made, Filled

LEMMA EntryFilled ==
    ASSUME NEW k, k \in Nat, NEW r, r \in EntryTypes(k), NEW h, h \in Int, NEW n, n \in Int,
           NEW key, key \in Keys, NEW value, value \in TypedValues, NEW t, t \in -1 .. k,
           NEW q, Fills(q, r, h, n, key, value, t)
    PROVE  Filled(q, k, h, n, key, value, t, r.nextEntry)
<1>1. q = Made(n, t, r.nextEntry, FALSE, h, key, value)
  BY DEF EntryTypes, Made, Fills
<1>2. t \in -1 .. k
  OBVIOUS
<1>3. q \in EntryTypes(k)
  BY <1>1, <1>2, MadeFilled
<1> PICK ne : ne = r.nextEntry
  OBVIOUS
<1> QED BY <1>1, <1>3, MadeOfFields

LEMMA NewEntryTyped == ASSUME NEW k, k \in Nat PROVE Table!createHashEntry \in EntryTypes(k) /\ Table!createHashEntry.nextEntry = -1
BY DEF Table!createHashEntry, EntryTypes, Table!Nothing

\* What insertEntry makes of the objects.
PutObjects(ob, D, e, entry, t) ==
    [x \in D \cup {e} |-> IF x = e THEN entry
                          ELSE IF x = t THEN [ob[x] EXCEPT !.nextEntry = e] ELSE ob[x]]

LEMMA PutIs ==
    ASSUME NEW k, k \in Nat, NEW l, l \in Nat, k <= l, NEW ob, ob \in Objects(k), NEW t, t \in -1 .. k,
           NEW e, e \in 1 .. l, 0 .. l = (0 .. k) \cup {e}, NEW r, r \in EntryTypes(k),
           NEW key, key \in Keys, NEW value, value \in TypedValues, NEW nx, nx \in Int, Hash[key] \in Int,
           NEW entry, Fills(entry, r, Hash[key], nx, key, value, t),
           NEW o, o = PutObjects(ob, 0 .. k, e, entry, t)
    PROVE  Put(o, ob, k, l, e, key, value, nx, t, r.nextEntry)
<1>1. /\ entry \in EntryTypes(l)
      /\ entry.hashCode = Hash[key] /\ entry.next = nx /\ entry.key = key /\ entry.value = value
      /\ entry.skipNextEntry = FALSE /\ entry.prevEntry = t /\ entry.nextEntry = r.nextEntry
  <2>1. PICK h : h = Hash[key]
    OBVIOUS
  <2>2. Fills(entry, r, h, nx, key, value, t)
    BY <2>1
  <2>3. Filled(entry, k, h, nx, key, value, t, r.nextEntry)
    BY <2>1, <2>2, EntryFilled
  <2>4. entry \in EntryTypes(l)
    BY <2>3, EntryWider DEF Filled
  <2> QED BY <2>1, <2>3, <2>4 DEF Filled
<1>2. \A x \in 0 .. k : ob[x] \in EntryTypes(k)
  BY ObjectsAre
<1>3. DOMAIN o = 0 .. l /\ o[e] = entry
      /\ \A x \in 0 .. k : x # e => o[x] = IF x = t THEN [ob[x] EXCEPT !.nextEntry = e] ELSE ob[x]
  BY DEF PutObjects
<1>4. ASSUME NEW x \in 0 .. k, x # e
      PROVE  /\ o[x] \in EntryTypes(l)
             /\ o[x].next = ob[x].next /\ o[x].prevEntry = ob[x].prevEntry
             /\ o[x].nextEntry = IF x = t THEN e ELSE ob[x].nextEntry
             /\ o[x].skipNextEntry = ob[x].skipNextEntry
             /\ o[x].hashCode = ob[x].hashCode /\ o[x].key = ob[x].key /\ o[x].value = ob[x].value
  <2>1. CASE x = t
    <3>1. o[x] = [ob[x] EXCEPT !.nextEntry = e] /\ ob[x] \in EntryTypes(l) /\ e \in -1 .. l
      BY <1>2, <1>3, <1>4, <2>1, EntryWider
    <3>2. /\ o[x] \in EntryTypes(l)
          /\ o[x].next = ob[x].next /\ o[x].prevEntry = ob[x].prevEntry /\ o[x].nextEntry = e
          /\ o[x].skipNextEntry = ob[x].skipNextEntry
          /\ o[x].hashCode = ob[x].hashCode /\ o[x].key = ob[x].key /\ o[x].value = ob[x].value
      BY <3>1, NextEntrySet
    <3> QED BY <2>1, <3>2
  <2>2. CASE x # t
    BY <1>2, <1>3, <1>4, <2>2, EntryWider
  <2> QED BY <2>1, <2>2
<1>5. o \in Objects(l)
  BY <1>3, <1>1, <1>4 DEF PutObjects, Objects
<1> QED BY <1>1, <1>3, <1>4, <1>5 DEF Put

\* One place more than those of en has an entry, e, or a freed one has it again.
OnePlace(en2, en, ob, n, m, e, p) ==
    /\ n \in Nat /\ p \in Nat /\ 0 .. m - 1 = (0 .. n - 1) \cup {p}
    /\ en2[p] = e /\ \A j \in 0 .. n - 1 : j # p => en2[j] = en[j] /\ en[j] # e
    /\ p \in 0 .. n - 1 => ob[en[p]].hashCode = -1

PutAt(o, ob, en2, en, n, m, e, p, key, value, nx) ==
    /\ SameSlots(HashIn(ob, en), NextIn(ob, en), KeyIn(ob, en), n, p,
                 HashIn(o, en2), NextIn(o, en2), KeyIn(o, en2))
    /\ KeySlot(HashIn(o, en2), KeyIn(o, en2), p, key)
    /\ NextIn(o, en2)[p] = nx
    /\ Contents(o, en2, m) = Contents(ob, en, n) \cup {<<key, value>>}

LEMMA PutSlots ==
    ASSUME TablesAreGiven, NEW k, k \in Nat, NEW l, NEW o, NEW ob, NEW e, NEW key, key \in Keys, NEW value, NEW nx, NEW t, NEW ne,
           Put(o, ob, k, l, e, key, value, nx, t, ne),
           NEW n, NEW m, NEW en, NEW en2, NEW p, OnePlace(en2, en, ob, n, m, e, p), Placed(en, n, k)
    PROVE  PutAt(o, ob, en2, en, n, m, e, p, key, value, nx)
<1>0. /\ n \in Nat /\ p \in Nat /\ 0 .. m - 1 = (0 .. n - 1) \cup {p} /\ en2[p] = e
      /\ \A j \in 0 .. n - 1 : j # p => en2[j] = en[j] /\ en[j] # e
      /\ p \in 0 .. n - 1 => ob[en[p]].hashCode = -1
  BY DEF OnePlace
<1>1. ASSUME NEW j \in 0 .. n - 1, j # p
      PROVE  /\ o[en2[j]].hashCode = ob[en[j]].hashCode /\ o[en2[j]].next = ob[en[j]].next
             /\ o[en2[j]].key = ob[en[j]].key /\ o[en2[j]].value = ob[en[j]].value
  <2>1. PICK x : x = en[j] /\ x \in 0 .. k /\ x # e /\ en2[j] = x
    <3>1. en[j] \in 1 .. k
      BY DEF Placed
    <3> QED BY <1>0, <1>1, <3>1
  <2> QED BY <2>1 DEF Put
<1>2. /\ o[en2[p]].hashCode = Hash[key] /\ o[en2[p]].next = nx
      /\ o[en2[p]].key = key /\ o[en2[p]].value = value
  BY <1>0 DEF Put
<1>3. SameSlots(HashIn(ob, en), NextIn(ob, en), KeyIn(ob, en), n, p,
                HashIn(o, en2), NextIn(o, en2), KeyIn(o, en2))
  <2>1. ASSUME NEW j \in 0 .. n - 1, j # p
        PROVE  /\ HashIn(o, en2)[j] = HashIn(ob, en)[j] /\ KeyIn(o, en2)[j] = KeyIn(ob, en)[j]
               /\ NextIn(o, en2)[j] = NextIn(ob, en)[j]
    <3>1. j \in Int
      BY <1>0
    <3> QED BY <1>1, <2>1, <3>1 DEF HashIn, NextIn, KeyIn
  <2> QED BY <2>1 DEF SameSlots
<1>4. Hash[key] \in Nat /\ Hash[key] # -1
  <2>1. Hash[key] \in Nat
    BY DEF TablesAreGiven
  <2> QED BY <2>1
<1>5. KeySlot(HashIn(o, en2), KeyIn(o, en2), p, key) /\ NextIn(o, en2)[p] = nx
  BY <1>0, <1>2, <1>4 DEF HashIn, NextIn, KeyIn, KeySlot
<1>6. Contents(o, en2, m) = Contents(ob, en, n) \cup {<<key, value>>}
  <2>1. ASSUME NEW x \in Contents(o, en2, m) PROVE x \in Contents(ob, en, n) \cup {<<key, value>>}
    <3>1. PICK i \in 0 .. m - 1 : o[en2[i]].hashCode # -1 /\ x = <<o[en2[i]].key, o[en2[i]].value>>
      BY DEF Contents
    <3>2. CASE i = p
      BY <1>2, <3>1, <3>2
    <3>3. CASE i # p
      BY <1>0, <3>3, <1>1, <3>1 DEF Contents
    <3> QED BY <3>2, <3>3
  <2>2. ASSUME NEW x \in Contents(ob, en, n) PROVE x \in Contents(o, en2, m)
    <3>1. PICK i \in 0 .. n - 1 : ob[en[i]].hashCode # -1 /\ x = <<ob[en[i]].key, ob[en[i]].value>>
      BY DEF Contents
    <3>2. i # p /\ i \in 0 .. m - 1
      BY <1>0, <3>1
    <3>3. o[en2[i]].hashCode # -1 /\ x = <<o[en2[i]].key, o[en2[i]].value>>
      BY <1>1, <3>1, <3>2
    <3> QED BY <3>2, <3>3 DEF Contents
  <2>3. <<key, value>> \in Contents(o, en2, m)
    BY <1>0, <1>2, <1>4 DEF Contents
  <2> QED BY <2>1, <2>2, <2>3
<1> QED BY <1>3, <1>5, <1>6 DEF PutAt

\* A table with one more key.
OneMore(bk, en, ob, n, m, f, t, c, k, contents, key, value) ==
    /\ Tabled(bk, en, ob, n, m, f, t, c, k)
    /\ Contents(ob, en, n) = contents \cup {<<key, value>>}

Appending(bk, en, n, k, c, key, b, nz, en2, bk2, n2, l) ==
    /\ n < c /\ l = k + 1 /\ n2 = n + 1 /\ b = Hash[key] % c /\ nz = bk[b] - 1
    /\ en2 = [en EXCEPT ![n] = l] /\ bk2 = [bk EXCEPT ![b] = n + 1]

\* A new entry object after the last place.
LEMMA Appended ==
    ASSUME TablesAreGiven, NEW bk, NEW en, NEW ob, NEW n, NEW f, NEW t, NEW c, NEW k,
           Tabled(bk, en, ob, n, 0, f, t, c, k), NEW key, key \in Keys, NEW value,
           NewKey(HashIn(ob, en), KeyIn(ob, en), n, key), NEW o, NEW ne, NEW l, NEW nz,
           Put(o, ob, k, l, l, key, value, nz, t, ne),
           NEW b, NEW en2, NEW bk2, NEW n2, Appending(bk, en, n, k, c, key, b, nz, en2, bk2, n2, l)
    PROVE  OneMore(bk2, en2, o, n2, 0, f, l, c, l, Contents(ob, en, n), key, value)
<1>0. /\ n < c /\ l = k + 1 /\ n2 = n + 1 /\ b = Hash[key] % c /\ nz = bk[b] - 1
      /\ en2 = [en EXCEPT ![n] = l] /\ bk2 = [bk EXCEPT ![b] = n + 1]
  BY DEF Appending
<1> PICK H, N, K, H2, N2, K2, nx :
       /\ H = HashIn(ob, en) /\ N = NextIn(ob, en) /\ K = KeyIn(ob, en)
       /\ H2 = HashIn(o, en2) /\ N2 = NextIn(o, en2) /\ K2 = KeyIn(o, en2) /\ nx = bk[b] - 1
  OBVIOUS
<1>1. /\ k \in Nat /\ c \in Primes /\ en \in [0 .. c - 1 -> Int] /\ Placed(en, n, k)
      /\ \A i \in 0 .. c - 1 : i >= n => en[i] = -1
      /\ SlotsInv(bk, H, N, K, n, c, 0, f)
  BY DEF Tabled
<1>2. n \in Nat /\ c \in Nat \ {0} /\ n <= c
  BY <1>1, SlotTypes
<1>3. /\ l \in Nat /\ l \in Int /\ n \in 0 .. c - 1
  BY <1>0, <1>1, <1>2
<1>4. /\ en2 \in [0 .. c - 1 -> Int] /\ en2[n] = l
      /\ \A i \in 0 .. c - 1 : i # n => en2[i] = en[i]
  BY <1>0, <1>1, <1>3
<1>5. \A i \in 0 .. n - 1 : i \in 0 .. c - 1 /\ i # n /\ en[i] \in 1 .. k /\ en[i] # l /\ en2[i] = en[i]
  <2>1. ASSUME NEW i \in 0 .. n - 1 PROVE i \in 0 .. c - 1 /\ i # n /\ en[i] \in 1 .. k /\ en[i] # l
    <3>1. en[i] \in 1 .. k
      BY <1>1 DEF Placed
    <3> QED BY <1>0, <1>1, <1>2, <3>1
  <2> QED BY <1>4, <2>1
<1>6. /\ 0 .. (n + 1) - 1 = (0 .. n - 1) \cup {n} /\ n \notin 0 .. n - 1 /\ n + 1 \in Nat
  BY <1>2
<1>7. OnePlace(en2, en, ob, n, n + 1, l, n)
  BY <1>2, <1>4, <1>5, <1>6 DEF OnePlace
<1>8. PutAt(o, ob, en2, en, n, n + 1, l, n, key, value, nx)
  <2>1. PICK m : m = n + 1
    OBVIOUS
  <2>2. Put(o, ob, k, l, l, key, value, nx, t, ne)
    BY <1>0
  <2> QED BY <1>1, <1>7, <2>1, <2>2, PutSlots
<1>9. SameSlots(H, N, K, n, n, H2, N2, K2) /\ KeySlot(H2, K2, n, key) /\ N2[n] = bk[b] - 1
  BY <1>0, <1>8 DEF PutAt
<1>10. SlotsInv([bk EXCEPT ![b] = n + 1], H2, N2, K2, n + 1, c, 0, f)
  BY <1>0, <1>9, <1>1, SlotAppended
<1>11. Placed(en2, n + 1, l)
  <2>1. \A i \in 0 .. (n + 1) - 1 : en2[i] \in 1 .. l
    BY <1>0, <1>1, <1>5, <1>4, <1>6
  <2>2. ASSUME NEW i \in 0 .. (n + 1) - 1, NEW j \in 0 .. (n + 1) - 1, en2[i] = en2[j] PROVE i = j
    <3>1. CASE i = n \/ j = n
      BY <1>4, <1>5, <1>6, <2>2, <3>1
    <3>2. CASE i # n /\ j # n
      BY <1>6, <3>2, <1>5, <2>2, <1>1 DEF Placed
    <3> QED BY <3>1, <3>2
  <2> QED BY <2>1, <2>2 DEF Placed
<1>12. \A i \in 0 .. c - 1 : i >= n + 1 => en2[i] = -1
  BY <1>1, <1>2, <1>4
<1>13. o \in Objects(l) /\ l \in 0 .. l
  BY <1>3 DEF Put
<1>14. Contents(o, en2, n + 1) = Contents(ob, en, n) \cup {<<key, value>>}
  BY <1>8 DEF PutAt
<1>15. Tabled([bk EXCEPT ![b] = n + 1], en2, o, n + 1, 0, f, l, c, l)
  BY <1>1, <1>3, <1>4, <1>10, <1>11, <1>12, <1>13 DEF Tabled
<1> QED BY <1>0, <1>14, <1>15 DEF OneMore

\* The entry object of a freed place.
LEMMA Reused ==
    ASSUME TablesAreGiven, NEW bk, NEW en, NEW ob, NEW n, NEW m, NEW f, NEW t, NEW c, NEW k,
           Tabled(bk, en, ob, n, m, f, t, c, k), m > 0, NEW key, key \in Keys, NEW value,
           NewKey(HashIn(ob, en), KeyIn(ob, en), n, key), NEW o, NEW ne, NEW e, e = en[f],
           NEW b, b = Hash[key] % c, Put(o, ob, k, k, e, key, value, bk[b] - 1, t, ne)
    PROVE  /\ f \in 0 .. n - 1
           /\ OneMore([bk EXCEPT ![b] = f + 1], en, o, n, m - 1, ob[e].next, e, c, k,
                      Contents(ob, en, n), key, value)
<1> PICK H, N, K, H2, N2, K2, nx :
       /\ H = HashIn(ob, en) /\ N = NextIn(ob, en) /\ K = KeyIn(ob, en)
       /\ H2 = HashIn(o, en) /\ N2 = NextIn(o, en) /\ K2 = KeyIn(o, en) /\ nx = bk[b] - 1
  OBVIOUS
<1>1. /\ k \in Nat /\ c \in Primes /\ en \in [0 .. c - 1 -> Int] /\ Placed(en, n, k)
      /\ \A i \in 0 .. c - 1 : i >= n => en[i] = -1
      /\ SlotsInv(bk, H, N, K, n, c, m, f)
  BY DEF Tabled
<1>2. n \in Nat /\ c \in Nat \ {0} /\ n <= c /\ m \in Nat /\ m # 0
  BY <1>1, SlotTypes
<1>3. f \in FreeSlots(H, n)
  BY <1>1, <1>2, SlotTypes
<1>4. f \in 0 .. n - 1 /\ H[f] = -1 /\ f \in Nat /\ f \in Int
  BY <1>3 DEF FreeSlots
<1>5. e \in 1 .. k /\ e \in 0 .. k /\ N[f] = ob[e].next /\ ob[en[f]].hashCode = -1
  BY <1>1, <1>4 DEF Placed, NextIn, HashIn
<1>6. OnePlace(en, en, ob, n, n, e, f)
  BY <1>4, <1>1, <1>2, <1>5 DEF Placed, OnePlace
<1>7. PutAt(o, ob, en, en, n, n, e, f, key, value, nx)
  BY <1>1, <1>6, PutSlots
<1>8. SameSlots(H, N, K, n, f, H2, N2, K2) /\ KeySlot(H2, K2, f, key) /\ N2[f] = bk[b] - 1
  BY <1>7 DEF PutAt
<1>9. SlotsInv([bk EXCEPT ![b] = f + 1], H2, N2, K2, n, c, m - 1, ob[e].next)
  <2>1. N2[f] = bk[Hash[key] % c] - 1 /\ NewKey(H, K, n, key)
    BY <1>8
  <2>2. SlotsInv([bk EXCEPT ![Hash[key] % c] = f + 1], H2, N2, K2, n, c, m - 1, N[f])
    BY <1>1, <1>8, <2>1, SlotReused
  <2> QED BY <1>5, <2>2
<1>10. o \in Objects(k)
  BY DEF Put
<1>11. Contents(o, en, n) = Contents(ob, en, n) \cup {<<key, value>>}
  BY <1>7 DEF PutAt
<1>12. Tabled([bk EXCEPT ![b] = f + 1], en, o, n, m - 1, ob[e].next, e, c, k)
  BY <1>1, <1>5, <1>9, <1>10 DEF Tabled
<1> QED BY <1>4, <1>11, <1>12 DEF OneMore

LEMMA NewKeyIs ==
    ASSUME NEW ob, NEW en, NEW n, n \in Nat, NEW key
    PROVE  NewKey(HashIn(ob, en), KeyIn(ob, en), n, key) <=> \A v : <<key, v>> \notin Contents(ob, en, n)
<1>1. \A i \in 0 .. n - 1 : /\ HashIn(ob, en)[i] = ob[en[i]].hashCode
                            /\ KeyIn(ob, en)[i] = ob[en[i]].key
  BY DEF HashIn, KeyIn
<1>2. ASSUME NewKey(HashIn(ob, en), KeyIn(ob, en), n, key), NEW v, <<key, v>> \in Contents(ob, en, n)
      PROVE  FALSE
  <2>1. PICK i \in 0 .. n - 1 : ob[en[i]].hashCode # -1 /\ <<key, v>> = <<ob[en[i]].key, ob[en[i]].value>>
    BY <1>2 DEF Contents
  <2> QED BY <1>1, <1>2, <2>1 DEF NewKey
<1>3. ASSUME NEW i \in 0 .. n - 1, HashIn(ob, en)[i] # -1, KeyIn(ob, en)[i] = key
      PROVE  <<key, ob[en[i]].value>> \in Contents(ob, en, n)
  BY <1>1, <1>3 DEF Contents
<1> QED BY <1>2, <1>3 DEF NewKey

\* The table that insertEntry puts the key into: it has a free place.
TableFor(T, key, d, k) ==
    /\ Tabled(T.buckets, T.entries, T.object, size, freeSize, freeList, tail, d, k)
    /\ Contents(T.object, T.entries, size) = Contents(object, entries, size)
    /\ NewKey(HashIn(T.object, T.entries), KeyIn(T.object, T.entries), size, key)
    /\ freeSize = 0 => size < d
    /\ LinksKept(T.object, object, k) /\ Used(T.object, T.entries, size) = InTable

LEMMA GrownTable ==
    ASSUME TablesAreGiven, NEW c, NEW k,
           Tabled(buckets, entries, object, size, freeSize, freeList, tail, c, k),
           NEW key, NewKey(HashIn(object, entries), KeyIn(object, entries), size, key),
           Table!MustGrow => Table!CanGrowTo(2 * size)
    PROVE  \E d : TableFor(Table!Table, key, d, k)
<1> PICK T : T = Table!Table
  OBVIOUS
<1>0. /\ c \in Nat \ {0} /\ size \in Nat /\ size <= c /\ freeSize \in Nat /\ Table!Capacity = c
      /\ c \in Primes
  <2>1. c \in Primes
    BY DEF Tabled
  <2> QED BY <2>1, TableSizes
<1>1. CASE Table!MustGrow
  <2>1. PICK d : d = Table!getPrime(2 * size)
    OBVIOUS
  <2>2. size = c /\ 2 * size \in Int /\ \E p \in Primes : p >= 2 * size
    BY <1>0, <1>1 DEF Table!MustGrow, Table!CanGrowTo
  <2>3. d \in Primes /\ d >= 2 * size /\ d \in Nat \ {0}
    <3>1. PICK w : w = 2 * size
      OBVIOUS
    <3> QED BY <2>1, <2>2, <3>1, PrimeIs
  <2>4. d >= c /\ size < d
    BY <1>0, <2>2, <2>3
  <2>5. T = Table!resizeHashData(d)
    BY <1>1, <2>1 DEF Table!Table, Table!expandPrime
  <2>6. /\ Tabled(T.buckets, T.entries, T.object, size, freeSize, freeList, tail, d, k)
        /\ Contents(T.object, T.entries, size) = Contents(object, entries, size)
        /\ LinksKept(T.object, object, k) /\ Used(T.object, T.entries, size) = InTable
    BY <2>3, <2>4, <2>5, Resized
  <2>7. NewKey(HashIn(T.object, T.entries), KeyIn(T.object, T.entries), size, key)
    BY <1>0, <2>6, NewKeyIs
  <2> QED BY <2>4, <2>6, <2>7 DEF TableFor
<1>2. CASE ~Table!MustGrow
  BY <1>2, <1>0 DEF Table!Table, Table!MustGrow, LinksKept, InTable, TableFor
<1> QED BY <1>1, <1>2

Added1(key, value) ==
    Contents(object', entries', size') = Contents(object, entries, size) \cup {<<key, value>>}

\* A new entry object is the last in the list.
AddsLinks(key) ==
    \E k \in Nat : \E ob, value, nx :
        /\ object \in Objects(k) /\ LinksKept(ob, object, k)
        /\ Put(object', ob, k, k + 1, k + 1, key, value, nx, tail, -1)
        /\ tail' = k + 1 /\ InTable' = InTable \cup {k + 1}

MoreUsed(ob, en, n, c, k, x, en2, n2, o) ==
    /\ n \in Nat /\ Placed(en, n, k) /\ c \in Nat /\ n < c /\ en \in [0 .. c - 1 -> Int]
    /\ x \notin 0 .. k /\ x \in Int /\ en2 = [en EXCEPT ![n] = x] /\ n2 = n + 1
    /\ o[x].hashCode # -1 /\ \A y \in 0 .. k : o[y].hashCode = ob[y].hashCode

LEMMA UsedOneMore ==
    ASSUME NEW ob, NEW en, NEW n, NEW c, NEW k, NEW x, NEW en2, NEW n2, NEW o,
           MoreUsed(ob, en, n, c, k, x, en2, n2, o)
    PROVE  Used(o, en2, n2) = Used(ob, en, n) \cup {x}
<1>0. /\ n \in Nat /\ Placed(en, n, k) /\ c \in Nat /\ n < c /\ en \in [0 .. c - 1 -> Int]
      /\ en2 = [en EXCEPT ![n] = x] /\ n2 = n + 1
      /\ o[x].hashCode # -1 /\ \A y \in 0 .. k : o[y].hashCode = ob[y].hashCode
  BY DEF MoreUsed
<1>1. \A i \in 0 .. n - 1 : i \in 0 .. n2 - 1 /\ en2[i] = en[i] /\ o[en2[i]].hashCode = ob[en[i]].hashCode
  <2>1. ASSUME NEW i \in 0 .. n - 1
        PROVE  i \in 0 .. n2 - 1 /\ en2[i] = en[i] /\ o[en2[i]].hashCode = ob[en[i]].hashCode
    BY <1>0 DEF Placed
  <2> QED BY <2>1
<1>2. n \in 0 .. n2 - 1 /\ en2[n] = x
  BY <1>0
<1>3. \A i \in 0 .. n2 - 1 : i # n => i \in 0 .. n - 1
  BY <1>0
<1>4. ASSUME NEW e \in Used(o, en2, n2) PROVE e \in Used(ob, en, n) \cup {x}
  <2>1. PICK i \in 0 .. n2 - 1 : e = en2[i] /\ o[en2[i]].hashCode # -1
    BY DEF Used
  <2>2. CASE i = n
    BY <1>2, <2>1, <2>2
  <2>3. CASE i # n
    BY <1>1, <1>3, <2>1, <2>3 DEF Used
  <2> QED BY <2>2, <2>3
<1>5. ASSUME NEW e \in Used(ob, en, n) PROVE e \in Used(o, en2, n2)
  <2>1. PICK i \in 0 .. n - 1 : e = en[i] /\ ob[en[i]].hashCode # -1
    BY DEF Used
  <2>2. i \in 0 .. n2 - 1 /\ e = en2[i] /\ o[en2[i]].hashCode # -1
    BY <1>1, <2>1
  <2> QED BY <2>2 DEF Used
<1>6. x \in Used(o, en2, n2)
  BY <1>0, <1>2 DEF Used
<1> QED BY <1>4, <1>5, <1>6

LEMMA InsertIs ==
    ASSUME TableInv, NEW key, key \in Keys, NEW value, value \in TypedValues,
           Table!findEntryIndex(key) = -1, Table!insertEntry(key, value)
    PROVE  TableInv' /\ Added1(key, value) /\ (freeSize = 0 => AddsLinks(key))
<1>0. TablesAreGiven
  BY DEF TableInv
<1> PICK c, k : Tabled(buckets, entries, object, size, freeSize, freeList, tail, c, k)
  BY DEF TableInv
<1>1. /\ k \in Nat /\ size \in Nat /\ freeSize \in Nat /\ Table!Cardinality(DOMAIN object) = k + 1
  BY <1>0, TableSizes
<1>2. NewKey(HashIn(object, entries), KeyIn(object, entries), size, key)
  BY FindIs, <1>1 DEF FoundAs
<1> PICK T : T = Table!Table
  OBVIOUS
<1>3. PICK d : TableFor(T, key, d, k)
  BY <1>0, <1>2, GrownTable DEF Table!insertEntry
<1>4. Tabled(T.buckets, T.entries, T.object, size, freeSize, freeList, tail, d, k)
  BY <1>3 DEF TableFor
<1>5. /\ Contents(T.object, T.entries, size) = Contents(object, entries, size)
      /\ NewKey(HashIn(T.object, T.entries), KeyIn(T.object, T.entries), size, key)
      /\ freeSize = 0 => size < d
      /\ LinksKept(T.object, object, k) /\ Used(T.object, T.entries, size) = InTable
  BY <1>3 DEF TableFor
<1> PICK bk, en, ob : bk = T.buckets /\ en = T.entries /\ ob = T.object
  OBVIOUS
<1> PICK n, m, f, t : n = size /\ m = freeSize /\ f = freeList /\ t = tail
  OBVIOUS
<1>6. Tabled(bk, en, ob, n, m, f, t, d, k)
  BY <1>4
<1>7. /\ d \in Nat \ {0} /\ n <= d /\ ob \in Objects(k) /\ t \in -1 .. k /\ Placed(en, n, k)
      /\ DOMAIN ob = 0 .. k
      /\ Cardinality(DOMAIN bk) = d /\ bk \in [0 .. d - 1 -> Int]
      /\ m # 0 => f \in FreeSlots(HashIn(ob, en), n)
      /\ \A i \in 0 .. d - 1 : i >= n => en[i] = -1
  <2>1. /\ ob \in Objects(k) /\ t \in -1 .. k /\ Placed(en, n, k)
        /\ \A i \in 0 .. d - 1 : i >= n => en[i] = -1
        /\ SlotsInv(bk, HashIn(ob, en), NextIn(ob, en), KeyIn(ob, en), n, d, m, f)
    BY <1>6 DEF Tabled
  <2>2. PICK H, N, K : H = HashIn(ob, en) /\ N = NextIn(ob, en) /\ K = KeyIn(ob, en)
    OBVIOUS
  <2>3. /\ d \in Nat \ {0} /\ n <= d /\ Bucketed(bk, H, N, n, d)
        /\ m # 0 => f \in FreeSlots(H, n)
    BY <2>1, <2>2, SlotTypes
  <2>4. bk \in [0 .. d - 1 -> Int] /\ DOMAIN bk = 0 .. d - 1
    BY <2>3 DEF Bucketed
  <2>5. Cardinality(DOMAIN bk) = d
    BY <2>3, <2>4, IntervalCardinality
  <2>6. DOMAIN ob = 0 .. k
    BY <2>1 DEF Objects
  <2> QED BY <2>1, <2>2, <2>3, <2>4, <2>5, <2>6
<1> PICK h, b : h = Hash[key] /\ b = h % d
  OBVIOUS
<1>8. h \in Nat /\ h \in Int /\ b \in 0 .. d - 1 /\ bk[b] - 1 \in Int
  <2>1. h \in Nat
    BY <1>0 DEF TablesAreGiven
  <2>2. b \in 0 .. d - 1
    BY <1>7, <2>1, BucketOf
  <2> QED BY <1>7, <2>1, <2>2
<1> DEFINE p == Table!Slot
           e == IF en[p] # Table!Nothing THEN en[p] ELSE k + 1
           old == IF e \in DOMAIN ob THEN ob[e] ELSE Table!createHashEntry
           entry == [old EXCEPT !.hashCode = h, !.next = bk[b] - 1, !.key = key, !.value = value,
                                !.skipNextEntry = FALSE, !.prevEntry = t]
<1>9. /\ freeList' = IF m > 0 THEN old.next ELSE f
      /\ freeSize' = IF m > 0 THEN m - 1 ELSE 0
      /\ size' = IF m > 0 THEN n ELSE n + 1
      /\ object' = PutObjects(ob, DOMAIN ob, e, entry, t)
      /\ entries' = [en EXCEPT ![p] = e]
      /\ buckets' = [bk EXCEPT ![b] = p + 1]
      /\ tail' = e
  <2>1. Table!Cardinality(DOMAIN T.buckets) = d
    BY <1>7, TableCardinality
  <2> QED BY <1>1, <2>1, ZenonT(40) DEF Table!insertEntry, PutObjects
<1>10. CASE m > 0
  <2>0. p = f
    BY <1>10 DEF Table!Slot
  <2>1. f \in 0 .. n - 1 /\ m # 0
    BY <1>7, <1>10 DEF FreeSlots
  <2>2. PICK x : x = en[f]
    OBVIOUS
  <2>3. x \in 1 .. k /\ x \in 0 .. k /\ x # -1
    <3>1. x \in 1 .. k
      BY <1>7, <2>1, <2>2 DEF Placed
    <3> QED BY <1>1, <3>1
  <2>4. e = x
    BY <2>0, <2>2, <2>3 DEF Table!Nothing
  <2>5. PICK r : r = ob[x]
    OBVIOUS
  <2>6. old = r /\ r \in EntryTypes(k)
    BY <1>7, <2>3, <2>4, <2>5, ObjectsAre
  <2>7. PICK y, nx : y = entry /\ nx = bk[b] - 1
    OBVIOUS
  <2>8. Fills(y, r, h, nx, key, value, t)
    BY <2>6, <2>7 DEF Fills
  <2>9. PICK o : o = PutObjects(ob, 0 .. k, x, y, t)
    OBVIOUS
  <2> HIDE DEF entry, old, e, p
  <2>10. /\ object' = o /\ freeList' = r.next /\ freeSize' = m - 1 /\ size' = n
         /\ entries' = [en EXCEPT ![f] = x] /\ buckets' = [bk EXCEPT ![b] = f + 1] /\ tail' = x
    BY <1>7, <1>9, <1>10, <2>0, <2>4, <2>6, <2>7, <2>9
  <2>11. en = [en EXCEPT ![f] = x]
    BY <2>2, <1>6 DEF Tabled
  <2>12. Put(o, ob, k, k, x, key, value, nx, t, r.nextEntry)
    <3>1. 0 .. k = (0 .. k) \cup {x} /\ k <= k /\ nx \in Int /\ Hash[key] \in Int
      BY <1>1, <1>8, <2>3, <2>7
    <3>2. Fills(y, r, Hash[key], nx, key, value, t)
      BY <2>8
    <3> QED BY <1>1, <1>7, <2>3, <2>6, <2>9, <3>1, <3>2, PutIs
  <2>13. PICK ne : ne = r.nextEntry
    OBVIOUS
  <2>14. /\ Tabled([bk EXCEPT ![b] = f + 1], en, o, n, m - 1, ob[x].next, x, d, k)
         /\ Contents(o, en, n) = Contents(ob, en, n) \cup {<<key, value>>}
    <3>1. Put(o, ob, k, k, x, key, value, bk[b] - 1, t, ne) /\ NewKey(HashIn(ob, en), KeyIn(ob, en), n, key)
      BY <1>5, <2>7, <2>12, <2>13
    <3>2. b = Hash[key] % d /\ x = en[f]
      BY <2>2
    <3>3. OneMore([bk EXCEPT ![b] = f + 1], en, o, n, m - 1, ob[x].next, x, d, k, Contents(ob, en, n), key, value)
      BY <1>0, <1>6, <1>10, <3>1, <3>2, Reused
    <3> QED BY <3>3 DEF OneMore
  <2>15. Tabled(buckets', entries', object', size', freeSize', freeList', tail', d, k)
    BY <2>5, <2>10, <2>11, <2>14
  <2>16. TableInv'
    BY <1>0, <2>15 DEF TableInv, TablesAreGiven
  <2>17. Added1(key, value)
    BY <1>5, <2>10, <2>11, <2>14 DEF Added1
  <2> QED BY <1>10, <2>16, <2>17
<1>11. CASE ~(m > 0)
  <2>0. p = n /\ m = 0 /\ n < d
    BY <1>1, <1>5, <1>11 DEF Table!Slot
  <2>1. en[n] = -1 /\ n \in 0 .. d - 1
    BY <1>1, <1>7, <2>0
  <2>2. PICK x : x = k + 1
    OBVIOUS
  <2>3. x \in 1 .. x /\ x \in Nat /\ x \notin 0 .. k /\ 0 .. x = (0 .. k) \cup {x} /\ k <= x
    BY <1>1, <2>2
  <2>4. e = x
    BY <2>0, <2>1, <2>2 DEF Table!Nothing
  <2>5. PICK r : r = Table!createHashEntry
    OBVIOUS
  <2>6. old = r /\ r \in EntryTypes(k)
    BY <1>1, <1>7, <2>3, <2>4, <2>5, NewEntryTyped
  <2>7. PICK y, nx : y = entry /\ nx = bk[b] - 1
    OBVIOUS
  <2>8. Fills(y, r, h, nx, key, value, t)
    BY <2>6, <2>7 DEF Fills
  <2>9. PICK o : o = PutObjects(ob, 0 .. k, x, y, t)
    OBVIOUS
  <2> HIDE DEF entry, old, e, p
  <2>10. /\ object' = o /\ freeList' = f /\ freeSize' = 0 /\ size' = n + 1
         /\ entries' = [en EXCEPT ![n] = x] /\ buckets' = [bk EXCEPT ![b] = n + 1] /\ tail' = x
    BY <1>7, <1>9, <1>11, <2>0, <2>4, <2>7, <2>9
  <2>12. Put(o, ob, k, x, x, key, value, nx, t, r.nextEntry)
    <3>1. nx \in Int /\ Hash[key] \in Int
      BY <1>8, <2>7
    <3>2. Fills(y, r, Hash[key], nx, key, value, t)
      BY <2>8
    <3> QED BY <1>1, <1>7, <2>3, <2>6, <2>9, <3>1, <3>2, PutIs
  <2>13. PICK ne, en2 : ne = r.nextEntry /\ en2 = [en EXCEPT ![n] = x]
    OBVIOUS
  <2>14. /\ Tabled([bk EXCEPT ![b] = n + 1], en2, o, n + 1, 0, f, x, d, x)
         /\ Contents(o, en2, n + 1) = Contents(ob, en, n) \cup {<<key, value>>}
    <3>1. Put(o, ob, k, x, x, key, value, nx, t, ne) /\ NewKey(HashIn(ob, en), KeyIn(ob, en), n, key)
      BY <1>5, <2>12, <2>13
    <3>2. Tabled(bk, en, ob, n, 0, f, t, d, k) /\ n < d
      BY <1>6, <2>0
    <3>3. PICK bk2, n2 : bk2 = [bk EXCEPT ![b] = n + 1] /\ n2 = n + 1
      OBVIOUS
    <3>4. b = Hash[key] % d /\ x = k + 1 /\ nx = bk[b] - 1
      BY <2>2, <2>7
    <3>5. OneMore(bk2, en2, o, n2, 0, f, x, d, x, Contents(ob, en, n), key, value)
      BY <2>13, <3>2, <3>3, <3>4, <1>0, <3>1, Appended DEF Appending
    <3> QED BY <3>3, <3>5 DEF OneMore
  <2>15. Tabled(buckets', entries', object', size', freeSize', freeList', tail', d, x)
    BY <2>10, <2>13, <2>14
  <2>16. TableInv'
    BY <1>0, <2>15 DEF TableInv, TablesAreGiven
  <2>17. Added1(key, value)
    BY <1>5, <2>10, <2>13, <2>14 DEF Added1
  <2>18. ne = -1
    BY <1>1, <2>5, <2>13, NewEntryTyped
  <2>19. Put(object', ob, k, k + 1, k + 1, key, value, nx, tail, -1)
    BY <2>2, <2>10, <2>12, <2>13, <2>18
  <2>20. Used(o, en2, n + 1) = Used(ob, en, n) \cup {x}
    <3>1. /\ o[x].hashCode = h
          /\ \A a \in 0 .. k : o[a].hashCode = ob[a].hashCode
      BY <2>3, <2>12 DEF Put
    <3>2. h # -1
      BY <1>8
    <3>3. en \in [0 .. d - 1 -> Int]
      BY <1>6 DEF Tabled
    <3>4. PICK n2 : n2 = n + 1
      OBVIOUS
    <3>5. o[x].hashCode # -1 /\ x \in Int
      BY <2>3, <3>1, <3>2
    <3>6. Used(o, en2, n2) = Used(ob, en, n) \cup {x}
      <4>1. d \in Nat /\ n < d /\ en2 = [en EXCEPT ![n] = x]
        BY <1>7, <2>0, <2>13
      <4>2. MoreUsed(ob, en, n, d, k, x, en2, n2, o)
        BY <1>1, <1>7, <2>3, <3>1, <3>3, <3>4, <3>5, <4>1 DEF MoreUsed
      <4> QED BY <4>2, UsedOneMore
    <3> QED BY <3>4, <3>6
  <2>21. tail' = k + 1 /\ InTable' = InTable \cup {k + 1}
    BY <1>5, <2>2, <2>10, <2>13, <2>20 DEF InTable
  <2>22. object \in Objects(k) /\ LinksKept(ob, object, k)
    BY <1>5 DEF Tabled
  <2>23. AddsLinks(key)
    BY <1>1, <2>19, <2>21, <2>22 DEF AddsLinks
  <2> QED BY <2>16, <2>17, <2>23
<1> QED BY <1>10, <1>11

\* Another next index for entry x.
Redirected(o, ob, k, x, v) ==
    /\ o \in Objects(k) /\ o[x].next = v
    /\ \A y \in 0 .. k :
          /\ o[y].prevEntry = ob[y].prevEntry /\ o[y].nextEntry = ob[y].nextEntry
          /\ o[y].skipNextEntry = ob[y].skipNextEntry /\ o[y].hashCode = ob[y].hashCode
          /\ o[y].key = ob[y].key /\ o[y].value = ob[y].value
          /\ y # x => o[y].next = ob[y].next

LEMMA RedirectedIs ==
    ASSUME NEW k, k \in Nat, NEW ob, ob \in Objects(k), NEW x, x \in 0 .. k, NEW v, v \in Int
    PROVE  Redirected([ob EXCEPT ![x].next = v], ob, k, x, v)
<1> PICK y, o : y = [ob[x] EXCEPT !.next = v] /\ o = [ob EXCEPT ![x].next = v]
  OBVIOUS
<1>1. ob[x] \in EntryTypes(k)
  BY ObjectsAre
<1>2. /\ y \in EntryTypes(k) /\ y.next = v /\ y.prevEntry = ob[x].prevEntry
      /\ y.nextEntry = ob[x].nextEntry /\ y.skipNextEntry = ob[x].skipNextEntry
      /\ y.hashCode = ob[x].hashCode /\ y.key = ob[x].key /\ y.value = ob[x].value
  BY <1>1, EntryIs
<1> PICK E : E = EntryTypes(k)
  OBVIOUS
<1>3. ob \in [0 .. k -> E]
  BY DEF Objects
<1>4. o = [ob EXCEPT ![x] = y]
  OBVIOUS
<1>5. o \in [0 .. k -> E] /\ o[x] = y /\ \A z \in 0 .. k : z # x => o[z] = ob[z]
  BY <1>2, <1>3, <1>4
<1>6. o \in Objects(k)
  BY <1>5 DEF Objects
<1> HIDE DEF Objects, EntryTypes
<1>7. ASSUME NEW z \in 0 .. k
      PROVE  /\ o[z].prevEntry = ob[z].prevEntry /\ o[z].nextEntry = ob[z].nextEntry
             /\ o[z].skipNextEntry = ob[z].skipNextEntry /\ o[z].hashCode = ob[z].hashCode
             /\ o[z].key = ob[z].key /\ o[z].value = ob[z].value
             /\ z # x => o[z].next = ob[z].next
  BY <1>2, <1>5
<1> QED BY <1>2, <1>5, <1>6, <1>7 DEF Redirected

\* An entry is out of the list, and freed.
Freed1(q, k, f, pv) ==
    /\ q \in EntryTypes(k) /\ q.hashCode = -1 /\ q.next = f /\ q.prevEntry = -1
    /\ q.nextEntry = pv /\ q.skipNextEntry = TRUE
Linked1(q, r, k, a, b) ==
    /\ q \in EntryTypes(k) /\ q.nextEntry = a /\ q.prevEntry = b
    /\ q.next = r.next /\ q.skipNextEntry = r.skipNextEntry /\ q.hashCode = r.hashCode
    /\ q.key = r.key /\ q.value = r.value

LEMMA FreedIs ==
    ASSUME NEW k, k \in Nat, NEW r, r \in EntryTypes(k), NEW f, f \in Int, NEW pv, pv \in -1 .. k
    PROVE  Freed1([r EXCEPT !.hashCode = -1, !.next = f, !.key = Table!NoKey, !.value = Table!NoKey,
                            !.prevEntry = -1, !.nextEntry = pv, !.skipNextEntry = TRUE], k, f, pv)
<1> PICK q : q = [r EXCEPT !.hashCode = -1, !.next = f, !.key = Table!NoKey, !.value = Table!NoKey,
                           !.prevEntry = -1, !.nextEntry = pv, !.skipNextEntry = TRUE]
  OBVIOUS
<1> PICK u : u = Table!NoKey
  OBVIOUS
<1>1. q = Made(f, -1, pv, TRUE, -1, u, u)
  BY DEF EntryTypes, Made
<1>2. Made(f, -1, pv, TRUE, -1, u, u) \in EntryTypes(k)
  <2>1. -1 \in -1 .. k /\ TRUE \in BOOLEAN /\ -1 \in Int /\ u \in Keys \cup {Table!NoKey} /\ u \in TypedValues
    BY DEF TypedValues
  <2> QED BY <2>1, MadeTyped
<1>3. /\ q.next = f /\ q.prevEntry = -1 /\ q.nextEntry = pv /\ q.skipNextEntry = TRUE /\ q.hashCode = -1
  BY <1>1 DEF Made
<1>4. q \in EntryTypes(k)
  BY <1>1, <1>2
<1> QED BY <1>3, <1>4 DEF Freed1

LEMMA LinkedMade ==
    ASSUME NEW k, NEW r, r \in EntryTypes(k), NEW a, a \in -1 .. k, NEW b, b \in -1 .. k
    PROVE  Made(r.next, b, a, r.skipNextEntry, r.hashCode, r.key, r.value) \in EntryTypes(k)
BY EntryTyped, MadeTyped

LEMMA LinkedIs ==
    ASSUME NEW k, NEW r, r \in EntryTypes(k), NEW a, a \in -1 .. k, NEW b, b \in -1 .. k
    PROVE  Linked1([r EXCEPT !.nextEntry = a, !.prevEntry = b], r, k, a, b)
<1> PICK q : q = [r EXCEPT !.nextEntry = a, !.prevEntry = b]
  OBVIOUS
<1>1. q = Made(r.next, b, a, r.skipNextEntry, r.hashCode, r.key, r.value)
  BY DEF EntryTypes, Made
<1>2. q \in EntryTypes(k)
  BY <1>1, LinkedMade
<1>3. /\ q.next = r.next /\ q.prevEntry = b /\ q.nextEntry = a /\ q.skipNextEntry = r.skipNextEntry
      /\ q.hashCode = r.hashCode /\ q.key = r.key /\ q.value = r.value
  BY <1>1, MadeFields
<1> QED BY <1>2, <1>3 DEF Linked1

Unlinks(o, ob, k, e, f) ==
    /\ o \in Objects(k)
    /\ Freed1(o[e], k, f, ob[e].prevEntry)
    /\ \A x \in 0 .. k : x # e =>
          Linked1(o[x], ob[x], k, IF x = ob[e].prevEntry THEN ob[e].nextEntry ELSE ob[x].nextEntry,
                                  IF x = ob[e].nextEntry THEN ob[e].prevEntry ELSE ob[x].prevEntry)

LEMMA UnlinkedIs ==
    ASSUME NEW k, k \in Nat, NEW ob, ob \in Objects(k), NEW e, e \in 0 .. k, freeList \in Int
    PROVE  Unlinks(Table!Unlinked(ob, e), ob, k, e, freeList)
<1> PICK o, f, pv, nv : o = Table!Unlinked(ob, e) /\ f = freeList /\ pv = ob[e].prevEntry /\ nv = ob[e].nextEntry
  OBVIOUS
<1>1. \A x \in 0 .. k : ob[x] \in EntryTypes(k) /\ ob[x].nextEntry \in -1 .. k /\ ob[x].prevEntry \in -1 .. k
  BY ObjectsAre, EntryTyped
<1>2. DOMAIN ob = 0 .. k
  BY DEF Objects
<1>3. o = [x \in 0 .. k |->
             IF x = e THEN [ob[x] EXCEPT !.hashCode = -1, !.next = f, !.key = Table!NoKey,
                                         !.value = Table!NoKey, !.prevEntry = -1,
                                         !.nextEntry = pv, !.skipNextEntry = TRUE]
             ELSE [ob[x] EXCEPT !.nextEntry = IF x = pv THEN nv ELSE @,
                                !.prevEntry = IF x = nv THEN pv ELSE @]]
  BY <1>2 DEF Table!Unlinked, Table!Nothing
<1>4. Freed1(o[e], k, f, pv)
  <2>1. o[e] = [ob[e] EXCEPT !.hashCode = -1, !.next = f, !.key = Table!NoKey, !.value = Table!NoKey,
                             !.prevEntry = -1, !.nextEntry = pv, !.skipNextEntry = TRUE]
    BY <1>3
  <2>2. PICK r : r = ob[e] /\ r \in EntryTypes(k)
    BY <1>1
  <2>3. f \in Int /\ pv \in -1 .. k
    BY <1>1
  <2>4. Freed1([r EXCEPT !.hashCode = -1, !.next = f, !.key = Table!NoKey, !.value = Table!NoKey,
                         !.prevEntry = -1, !.nextEntry = pv, !.skipNextEntry = TRUE], k, f, pv)
    BY <2>2, <2>3, FreedIs
  <2> QED BY <2>1, <2>2, <2>4
<1>5. ASSUME NEW x \in 0 .. k, x # e
      PROVE  Linked1(o[x], ob[x], k, IF x = pv THEN nv ELSE ob[x].nextEntry,
                                     IF x = nv THEN pv ELSE ob[x].prevEntry)
  <2>1. PICK r : r = ob[x] /\ r \in EntryTypes(k)
    BY <1>1
  <2>2. PICK a, b : /\ a = IF x = pv THEN nv ELSE ob[x].nextEntry
                    /\ b = IF x = nv THEN pv ELSE ob[x].prevEntry
    OBVIOUS
  <2>3. a \in -1 .. k /\ b \in -1 .. k
    BY <1>1, <2>2
  <2>4. o[x] = [ob[x] EXCEPT !.nextEntry = IF x = pv THEN nv ELSE @,
                             !.prevEntry = IF x = nv THEN pv ELSE @]
    BY <1>3, <1>5
  <2>5. o[x] = [r EXCEPT !.nextEntry = a, !.prevEntry = b]
    BY <2>1, <2>2, <2>4 DEF EntryTypes
  <2>6. Linked1([r EXCEPT !.nextEntry = a, !.prevEntry = b], r, k, a, b)
    BY <2>1, <2>3, LinkedIs
  <2> QED BY <2>1, <2>2, <2>5, <2>6
<1>6. o \in Objects(k)
  <2>1. \A x \in 0 .. k : o[x] \in EntryTypes(k)
    BY <1>4, <1>5 DEF Freed1, Linked1
  <2>2. o = [x \in 0 .. k |-> o[x]]
    BY <1>3
  <2> QED BY <2>1, <2>2 DEF Objects
<1> QED BY <1>4, <1>5, <1>6 DEF Unlinks

Without(contents, key) == {x \in contents : x[1] # key}

\* The next index of the entry before, in the chain.
Skipped(q, ob, k, en, s, p) ==
    IF p = 1 THEN q = ob ELSE Redirected(q, ob, k, en[s[p - 1]], ob[en[s[p]]].next)

FreedAs(bk, en, o, n, m, i, t, c, k, contents, key) ==
    /\ Tabled(bk, en, o, n, m, i, t, c, k)
    /\ Contents(o, en, n) = Without(contents, key)

\* A place is freed: what has changed.
Freeing(o, ob, en, n, i, f, s, p) ==
    /\ o[en[i]].hashCode = -1 /\ o[en[i]].next = f
    /\ \A j \in 0 .. n - 1 : j # i =>
          /\ o[en[j]].hashCode = ob[en[j]].hashCode /\ o[en[j]].key = ob[en[j]].key
          /\ o[en[j]].value = ob[en[j]].value
          /\ o[en[j]].next = IF p # 1 /\ j = s[p - 1] THEN ob[en[i]].next ELSE ob[en[j]].next

LEMMA FreeingIs ==
    ASSUME NEW k, k \in Nat, NEW n, n \in Nat, NEW en, Placed(en, n, k), NEW ob, ob \in Objects(k),
           NEW s, NEW p, NEW i, i \in 0 .. n - 1, s[p] = i, p # 1 => s[p - 1] \in 0 .. n - 1,
           NEW q, Skipped(q, ob, k, en, s, p), NEW f, NEW o, NEW e, e = en[i], Unlinks(o, q, k, e, f)
    PROVE  Freeing(o, ob, en, n, i, f, s, p)
<1>1. \A j \in 0 .. n - 1 : en[j] \in 0 .. k /\ (j # i => en[j] # e)
  <2>1. ASSUME NEW j \in 0 .. n - 1 PROVE en[j] \in 0 .. k /\ (j # i => en[j] # e)
    BY DEF Placed
  <2> QED BY <2>1
<1>2. o[e].hashCode = -1 /\ o[e].next = f
  BY DEF Unlinks, Freed1
<1>3. ASSUME NEW x \in 0 .. k, x # e
      PROVE  /\ o[x].hashCode = q[x].hashCode /\ o[x].key = q[x].key
             /\ o[x].value = q[x].value /\ o[x].next = q[x].next
  BY <1>3 DEF Unlinks, Linked1
<1>4. ASSUME NEW j \in 0 .. n - 1, j # i
      PROVE  /\ o[en[j]].hashCode = ob[en[j]].hashCode /\ o[en[j]].key = ob[en[j]].key
             /\ o[en[j]].value = ob[en[j]].value
             /\ o[en[j]].next = IF p # 1 /\ j = s[p - 1] THEN ob[en[i]].next ELSE ob[en[j]].next
  <2>1. PICK x : x = en[j] /\ x \in 0 .. k /\ x # e
    BY <1>1, <1>4
  <2>2. /\ o[x].hashCode = q[x].hashCode /\ o[x].key = q[x].key
        /\ o[x].value = q[x].value /\ o[x].next = q[x].next
    BY <1>3, <2>1
  <2>3. CASE p = 1
    BY <2>1, <2>2, <2>3 DEF Skipped
  <2>4. CASE p # 1
    <3>1. PICK y, v : y = en[s[p - 1]] /\ v = ob[e].next
      OBVIOUS
    <3>2. Redirected(q, ob, k, y, v)
      BY <2>4, <3>1 DEF Skipped
    <3>3. /\ q[x].hashCode = ob[x].hashCode /\ q[x].key = ob[x].key /\ q[x].value = ob[x].value
          /\ x # y => q[x].next = ob[x].next
          /\ q[y].next = v
      BY <2>1, <3>2 DEF Redirected
    <3>4. x = y <=> j = s[p - 1]
      BY <2>1, <2>4, <3>1 DEF Placed
    <3> QED BY <2>1, <2>2, <2>4, <3>1, <3>3, <3>4
  <2> QED BY <2>3, <2>4
<1> QED BY <1>2, <1>4 DEF Freeing

LEMMA FreedTable ==
    ASSUME TablesAreGiven, NEW bk, NEW en, NEW ob, NEW n, NEW m, NEW f, NEW t, NEW c, NEW k,
           Tabled(bk, en, ob, n, m, f, t, c, k),
           NEW i, i \in 0 .. n - 1, NEW key, ob[en[i]].hashCode # -1, ob[en[i]].key = key,
           NEW b, b = Hash[key] % c, b \in 0 .. c - 1,
           NEW s, Chained(s, bk[b] - 1, NextIn(ob, en), InBucket(HashIn(ob, en), n, c, b)),
           NEW p, p \in Places(s), s[p] = i, NEW t2, t2 \in -1 .. k,
           NEW o, o \in Objects(k), Freeing(o, ob, en, n, i, f, s, p),
           NEW bk2, bk2 = IF p = 1 THEN [bk EXCEPT ![b] = ob[en[i]].next + 1] ELSE bk, NEW m2, m2 = m + 1
    PROVE  FreedAs(bk2, en, o, n, m2, i, t2, c, k, Contents(ob, en, n), key)
<1> PICK H, N, K, H2, N2, K2 :
       /\ H = HashIn(ob, en) /\ N = NextIn(ob, en) /\ K = KeyIn(ob, en)
       /\ H2 = HashIn(o, en) /\ N2 = NextIn(o, en) /\ K2 = KeyIn(o, en)
  OBVIOUS
<1>1. /\ k \in Nat /\ c \in Primes /\ en \in [0 .. c - 1 -> Int] /\ Placed(en, n, k)
      /\ \A j \in 0 .. c - 1 : j >= n => en[j] = -1
      /\ SlotsInv(bk, H, N, K, n, c, m, f)
  BY DEF Tabled
<1>2. n \in Nat /\ c \in Nat \ {0} /\ n <= c /\ Coded(H, K, n)
  BY <1>1, SlotTypes
<1>3. \A j \in 0 .. n - 1 : /\ j \in Int /\ H[j] = ob[en[j]].hashCode /\ N[j] = ob[en[j]].next
                            /\ K[j] = ob[en[j]].key
                            /\ H2[j] = o[en[j]].hashCode /\ N2[j] = o[en[j]].next
                            /\ K2[j] = o[en[j]].key
  BY DEF HashIn, NextIn, KeyIn
<1>4. H[i] # -1 /\ K[i] = key /\ H[i] = Hash[key] /\ b = H[i] % c
  BY <1>3, <1>2 DEF Coded
<1>5. Frees(H, N, n, H2, N2, i, f, s, p)
  <2>1. H2[i] = -1 /\ N2[i] = f
    BY <1>3 DEF Freeing
  <2>2. ASSUME NEW j \in 0 .. n - 1, j # i
        PROVE  H2[j] = H[j] /\ N2[j] = IF p # 1 /\ j = s[p - 1] THEN N[i] ELSE N[j]
    BY <1>3, <2>2 DEF Freeing
  <2>3. p # 1 => s[p - 1] \in 0 .. n - 1 /\ s[p - 1] # i
    <3>1. SUFFICES ASSUME p # 1 PROVE s[p - 1] \in 0 .. n - 1 /\ s[p - 1] # i
      OBVIOUS
    <3>2. p - 1 \in Places(s) /\ p - 1 # p
      BY <3>1 DEF Places
    <3>3. s[p - 1] # s[p] /\ s[p - 1] \in InBucket(H, n, c, b)
      BY <3>2 DEF Chained
    <3> QED BY <3>3 DEF InBucket
  <2>4. p # 1 => N2[s[p - 1]] = N[i]
    BY <2>2, <2>3
  <2>5. \A j \in 0 .. n - 1 : j # i /\ (p = 1 \/ j # s[p - 1]) => N2[j] = N[j]
    BY <2>2
  <2> QED BY <1>4, <2>1, <2>2, <2>4, <2>5 DEF Frees
<1>6. \A j \in 0 .. n - 1 : j # i => K2[j] = K[j]
  BY <1>3 DEF Freeing
<1>7. SlotsInv(bk2, H2, N2, K2, n, c, m2, i)
  <2>1. SlotsInv(IF p = 1 THEN [bk EXCEPT ![b] = N[i] + 1] ELSE bk, H2, N2, K2, n, c, m + 1, i)
    BY <1>1, <1>4, <1>5, <1>6, SlotFreed
  <2> QED BY <1>3, <2>1
<1>8. Contents(o, en, n) = Without(Contents(ob, en, n), key)
  <2>1. ASSUME NEW j \in 0 .. n - 1, j # i
        PROVE  /\ o[en[j]].hashCode = ob[en[j]].hashCode /\ o[en[j]].key = ob[en[j]].key
               /\ o[en[j]].value = ob[en[j]].value
               /\ ob[en[j]].hashCode # -1 => ob[en[j]].key # key
    BY <1>2, <1>3, <1>4, <2>1 DEF Freeing, Coded
  <2>2. o[en[i]].hashCode = -1
    BY DEF Freeing
  <2>3. ASSUME NEW x \in Contents(o, en, n) PROVE x \in Without(Contents(ob, en, n), key)
    <3>1. PICK j \in 0 .. n - 1 : o[en[j]].hashCode # -1 /\ x = <<o[en[j]].key, o[en[j]].value>>
      BY DEF Contents
    <3>2. j # i
      BY <2>2, <3>1
    <3>3. ob[en[j]].hashCode # -1 /\ x = <<ob[en[j]].key, ob[en[j]].value>> /\ x[1] # key
      BY <2>1, <3>1, <3>2
    <3> QED BY <3>3 DEF Contents, Without
  <2>4. ASSUME NEW x \in Without(Contents(ob, en, n), key) PROVE x \in Contents(o, en, n)
    <3>1. x[1] # key /\ x \in Contents(ob, en, n)
      BY DEF Without
    <3>2. PICK j \in 0 .. n - 1 : ob[en[j]].hashCode # -1 /\ x = <<ob[en[j]].key, ob[en[j]].value>>
      BY <3>1 DEF Contents
    <3>3. j # i
      BY <3>1, <3>2
    <3>4. o[en[j]].hashCode # -1 /\ x = <<o[en[j]].key, o[en[j]].value>>
      BY <2>1, <3>2, <3>3
    <3> QED BY <3>4 DEF Contents
  <2> QED BY <2>3, <2>4
<1>9. Tabled(bk2, en, o, n, m2, i, t2, c, k)
  BY <1>1, <1>7 DEF Tabled
<1> QED BY <1>8, <1>9 DEF FreedAs

Deleted(key) ==
    Contents(object', entries', size') = Without(Contents(object, entries, size), key)

\* deleteEntry of an entry that was found.
DeletesAt(key, i, e, chain, place) ==
    /\ IF place = 1
       THEN /\ buckets' = [buckets EXCEPT ![Hash[key] % Table!Capacity] = object[e].next + 1]
            /\ object' = Table!Forgotten(object, e)
       ELSE /\ UNCHANGED buckets
            /\ object' = Table!Forgotten([object EXCEPT ![entries[chain[place - 1]]].next = object[e].next], e)
    /\ tail' = IF tail = e THEN object[e].prevEntry ELSE tail
    /\ freeList' = i
    /\ freeSize' = freeSize + 1
    /\ UNCHANGED <<entries, size>>

\* The entry of the key is taken out of the list.
DropsLinks(key) ==
    \E k \in Nat : \E e, q, f :
        /\ object \in Objects(k) /\ LinksKept(q, object, k) /\ Unlinks(object', q, k, e, f)
        /\ e \in InTable /\ KeyOf(object, k)[e] = key
        /\ tail' = IF tail = e THEN object[e].prevEntry ELSE tail
        /\ InTable' = InTable \ {e}

LEMMA DeleteIs ==
    ASSUME TableInv, NEW key, key \in Keys, Table!deleteEntry(key)
    PROVE  TableInv' /\ Deleted(key) /\ DropsLinks(key)
<1>0. TablesAreGiven
  BY DEF TableInv
<1> PICK c, k : Tabled(buckets, entries, object, size, freeSize, freeList, tail, c, k)
  BY DEF TableInv
<1> PICK bk, en, ob, n, m, f, t : /\ bk = buckets /\ en = entries /\ ob = object /\ n = size
                                  /\ m = freeSize /\ f = freeList /\ t = tail
  OBVIOUS
<1> PICK H, N, b : H = HashIn(ob, en) /\ N = NextIn(ob, en) /\ b = Hash[key] % c
  OBVIOUS
<1>1. /\ Tabled(bk, en, ob, n, m, f, t, c, k) /\ k \in Nat /\ ob \in Objects(k) /\ Placed(en, n, k)
      /\ t \in -1 .. k /\ SlotsInv(bk, H, N, KeyIn(ob, en), n, c, m, f)
  BY DEF Tabled
<1>2. n \in Nat /\ Table!Capacity = c /\ m \in Nat /\ c \in Nat
  BY <1>0, TableSizes
<1>3. PICK i : i = Table!findEntryIndex(key)
  OBVIOUS
<1>4. i # -1 /\ FoundAs(ob, en, n, key, i)
  BY <1>3, FindIs DEF Table!deleteEntry
<1>5. i \in 0 .. n - 1 /\ ob[en[i]].hashCode # -1 /\ ob[en[i]].key = key
  BY <1>4 DEF FoundAs, HashIn, KeyIn
<1>6. PICK s : /\ Chained(s, bk[b] - 1, N, InBucket(H, n, c, b))
               /\ Follows(Table!Chain(key), s, c)
  BY <1>0, ChainIs DEF TablesAreGiven
<1>7. b \in 0 .. c - 1
  BY <1>0, ChainIs DEF TablesAreGiven
<1> PICK ch : ch = Table!Chain(key)
  OBVIOUS
<1>8. PICK p : p \in Places(s) /\ s[p] = i
  <2>1. i \in InBucket(H, n, c, b)
    BY <1>5, <1>1 DEF HashIn, KeyIn, SlotsInv, Coded, InBucket
  <2> QED BY <1>6, <2>1 DEF Chained
<1>9. /\ Len(s) \in Nat /\ Len(s) <= c /\ DOMAIN ch = 1 .. c
      /\ \A x \in 1 .. c : ch[x] = IF x <= Len(s) THEN s[x] ELSE -1
  BY <1>6 DEF Follows
<1>10. p \in 1 .. Len(s) /\ p \in 1 .. c /\ ch[p] = i
  BY <1>0, <1>8, TableSizes, <1>9 DEF Places
<1>11. (CHOOSE x \in DOMAIN ch : ch[x] = i) = p
  <2>1. ASSUME NEW x \in DOMAIN ch, ch[x] = i PROVE x = p
    BY <1>4, <1>9, <2>1, <1>6, <1>8 DEF Places, Chained
  <2> QED BY <1>9, <1>10, <2>1
<1>12. p # 1 => s[p - 1] \in 0 .. n - 1 /\ ch[p - 1] = s[p - 1]
  <2>1. SUFFICES ASSUME p # 1 PROVE s[p - 1] \in 0 .. n - 1 /\ ch[p - 1] = s[p - 1]
    OBVIOUS
  <2>2. p - 1 \in 1 .. Len(s) /\ p - 1 \in 1 .. c /\ p - 1 <= Len(s)
    BY <1>2, <1>9, <1>10, <2>1
  <2>3. s[p - 1] \in InBucket(H, n, c, b)
    BY <1>6, <2>2 DEF Chained, Places
  <2> QED BY <1>9, <2>2, <2>3 DEF InBucket
<1>13. PICK e : e = en[i]
  OBVIOUS
<1>14. e \in 0 .. k /\ ob[e].next \in Int /\ ob[e].prevEntry \in -1 .. k /\ f \in Int
  <2>1. e \in 0 .. k
    <3>1. e \in 1 .. k
      BY <1>1, <1>5, <1>13 DEF Placed
    <3> QED BY <3>1
  <2>2. ob[e] \in EntryTypes(k)
    BY <1>1, <2>1, ObjectsAre
  <2>3. f \in Int
    <3>1. Chain(f, N, FreeSlots(H, n))
      BY <1>1 DEF SlotsInv
    <3>2. PICK z : Chained(z, f, N, FreeSlots(H, n))
      BY <3>1 DEF Chain
    <3>3. FreeSlots(H, n) \subseteq Nat /\ f \in FreeSlots(H, n) \cup {-1}
      BY <3>2, ChainTypes
    <3> QED BY <3>3
  <2> QED BY <2>1, <2>2, <2>3, EntryTyped
<1> PICK q : q = IF p = 1 THEN ob ELSE [ob EXCEPT ![en[s[p - 1]]].next = ob[e].next]
  OBVIOUS
<1>15. /\ buckets' = IF p = 1 THEN [bk EXCEPT ![b] = ob[e].next + 1] ELSE bk
       /\ object' = Table!Unlinked(q, e)
       /\ tail' = IF t = e THEN ob[e].prevEntry ELSE t
       /\ freeList' = i /\ freeSize' = m + 1 /\ entries' = en /\ size' = n
  <2>1. /\ IF p = 1
           THEN /\ buckets' = [bk EXCEPT ![Hash[key] % Table!Capacity] = ob[e].next + 1]
                /\ object' = Table!Forgotten(ob, e)
           ELSE /\ buckets' = bk
                /\ object' = Table!Forgotten([ob EXCEPT ![en[ch[p - 1]]].next = ob[e].next], e)
        /\ tail' = IF t = e THEN ob[e].prevEntry ELSE t
        /\ freeList' = i /\ freeSize' = m + 1 /\ entries' = en /\ size' = n
    <3>1. DeletesAt(key, Table!findEntryIndex(key), entries[Table!findEntryIndex(key)], Table!Chain(key),
                    CHOOSE x \in DOMAIN Table!Chain(key) : Table!Chain(key)[x] = Table!findEntryIndex(key))
      BY Zenon DEF Table!deleteEntry, DeletesAt
    <3>2. DeletesAt(key, i, e, ch, p)
      BY <1>3, <1>11, <1>13, <3>1
    <3> QED BY <3>2 DEF DeletesAt
  <2> QED BY <1>2, <1>12, <2>1 DEF Table!Forgotten
<1>16. Skipped(q, ob, k, en, s, p) /\ q \in Objects(k)
  <2>1. CASE p = 1
    BY <1>1, <2>1 DEF Skipped
  <2>2. CASE p # 1
    <3>1. PICK y, v : y = en[s[p - 1]] /\ v = ob[e].next
      OBVIOUS
    <3>2. y \in 0 .. k /\ v \in Int
      <4>1. y \in 1 .. k
        BY <1>1, <1>12, <2>2, <3>1 DEF Placed
      <4> QED BY <1>14, <3>1, <4>1
    <3>3. Redirected([ob EXCEPT ![y].next = v], ob, k, y, v)
      BY <1>1, <3>2, RedirectedIs
    <3>4. Redirected(q, ob, k, y, v)
      BY <2>2, <3>1, <3>3
    <3> QED BY <1>8, <1>13, <2>2, <3>1, <3>4 DEF Skipped, Redirected
  <2> QED BY <2>1, <2>2
<1> PICK o : o = object'
  OBVIOUS
<1>17. Unlinks(o, q, k, e, f)
  BY <1>14, <1>1, <1>16, UnlinkedIs, <1>15
<1>18. Freeing(o, ob, en, n, i, f, s, p) /\ o \in Objects(k)
  <2>1. o \in Objects(k)
    BY <1>17 DEF Unlinks
  <2>2. Freeing(o, ob, en, n, i, f, s, p)
    BY <1>1, <1>2, <1>5, <1>8, <1>12, <1>13, <1>16, <1>17, FreeingIs
  <2> QED BY <2>1, <2>2
<1> PICK bk2, m2, t2 : /\ bk2 = IF p = 1 THEN [bk EXCEPT ![b] = ob[e].next + 1] ELSE bk
                       /\ m2 = m + 1 /\ t2 = IF t = e THEN ob[e].prevEntry ELSE t
  OBVIOUS
<1>19. FreedAs(bk2, en, o, n, m2, i, t2, c, k, Contents(ob, en, n), key)
  <2>1. t2 \in -1 .. k
    BY <1>1, <1>14
  <2>2. Chained(s, bk[b] - 1, NextIn(ob, en), InBucket(HashIn(ob, en), n, c, b))
    BY <1>6
  <2>3. bk2 = IF p = 1 THEN [bk EXCEPT ![b] = ob[en[i]].next + 1] ELSE bk
    BY <1>13
  <2>4. b = Hash[key] % c /\ m2 = m + 1
    OBVIOUS
  <2> QED BY <1>0, <1>1, <1>5, <1>7, <1>8, <1>18, <2>1, <2>2, <2>3, <2>4, FreedTable
<1>20. Tabled(buckets', entries', object', size', freeSize', freeList', tail', c, k)
  BY <1>15, <1>19 DEF FreedAs
<1>21. TableInv'
  BY <1>0, <1>20 DEF TableInv, TablesAreGiven
<1>22. Deleted(key)
  BY <1>15, <1>19 DEF FreedAs, Deleted
<1>23. LinksKept(q, ob, k) /\ \A y \in 0 .. k : q[y].hashCode = ob[y].hashCode
  <2>1. CASE p = 1
    BY <2>1 DEF LinksKept
  <2>2. CASE p # 1
    <3>1. Redirected(q, ob, k, en[s[p - 1]], ob[e].next)
      BY <1>8, <1>13, <1>16, <2>2 DEF Skipped, Redirected
    <3> QED BY <3>1 DEF Redirected, LinksKept
  <2> QED BY <2>1, <2>2
<1>24. e \in Used(ob, en, n) /\ KeyOf(ob, k)[e] = key
  BY <1>5, <1>13, <1>14 DEF Used, KeyOf
<1>25. Used(o, en, n) = Used(ob, en, n) \ {e}
  <2>1. ASSUME NEW j \in 0 .. n - 1
        PROVE  /\ en[j] = e <=> j = i
               /\ j # i => o[en[j]].hashCode = ob[en[j]].hashCode
    <3>1. en[j] \in 1 .. k /\ (en[j] = e <=> j = i)
      BY <1>1, <1>5, <1>13 DEF Placed
    <3>2. PICK y : y = en[j] /\ y \in 0 .. k
      BY <1>1, <3>1
    <3>3. y # e => o[y].hashCode = ob[y].hashCode
      <4>1. SUFFICES ASSUME y # e PROVE o[y].hashCode = ob[y].hashCode
        OBVIOUS
      <4>2. \E a, z : Linked1(o[y], q[y], k, a, z)
        BY <1>17, <3>2, <4>1 DEF Unlinks
      <4>3. o[y].hashCode = q[y].hashCode
        BY <4>2 DEF Linked1
      <4>4. q[y].hashCode = ob[y].hashCode
        BY <1>23, <3>2
      <4> QED BY <4>3, <4>4
    <3> QED BY <3>1, <3>2, <3>3
  <2>2. o[e].hashCode = -1
    BY <1>17 DEF Unlinks, Freed1
  <2>3. ASSUME NEW y \in Used(o, en, n) PROVE y \in Used(ob, en, n) \ {e}
    <3>1. PICK j \in 0 .. n - 1 : y = en[j] /\ o[en[j]].hashCode # -1
      BY DEF Used
    <3>2. y # e /\ j # i
      BY <1>13, <2>2, <3>1
    <3>3. ob[en[j]].hashCode # -1
      BY <2>1, <3>1, <3>2
    <3> QED BY <3>1, <3>2, <3>3 DEF Used
  <2>4. ASSUME NEW y \in Used(ob, en, n), y # e PROVE y \in Used(o, en, n)
    <3>1. PICK j \in 0 .. n - 1 : y = en[j] /\ ob[en[j]].hashCode # -1
      BY DEF Used
    <3>2. o[en[j]].hashCode # -1
      BY <2>1, <2>4, <3>1
    <3> QED BY <3>1, <3>2 DEF Used
  <2> QED BY <2>3, <2>4
<1>26. DropsLinks(key)
  <2>1. object \in Objects(k) /\ LinksKept(q, object, k) /\ Unlinks(object', q, k, e, f)
    BY <1>1, <1>17, <1>23
  <2>2. /\ e \in InTable /\ KeyOf(object, k)[e] = key /\ InTable' = InTable \ {e}
        /\ tail' = IF tail = e THEN object[e].prevEntry ELSE tail
    BY <1>15, <1>24, <1>25 DEF InTable
  <2> QED BY <1>1, <2>1, <2>2 DEF DropsLinks
<1> QED BY <1>21, <1>22, <1>26

\* Another value for entry x.
Revalued(o, ob, k, x, v) ==
    /\ o \in Objects(k) /\ o[x].value = v
    /\ \A y \in 0 .. k :
          /\ o[y].prevEntry = ob[y].prevEntry /\ o[y].nextEntry = ob[y].nextEntry
          /\ o[y].skipNextEntry = ob[y].skipNextEntry /\ o[y].hashCode = ob[y].hashCode
          /\ o[y].key = ob[y].key /\ o[y].next = ob[y].next
          /\ y # x => o[y].value = ob[y].value

LEMMA MadeValue ==
    ASSUME NEW k, NEW r, r \in EntryTypes(k), NEW v, v \in TypedValues
    PROVE  Made(r.next, r.prevEntry, r.nextEntry, r.skipNextEntry, r.hashCode, r.key, v) \in EntryTypes(k)
BY EntryTyped, MadeTyped

LEMMA RevaluedIs ==
    ASSUME NEW k, k \in Nat, NEW ob, ob \in Objects(k), NEW x, x \in 0 .. k, NEW v, v \in TypedValues
    PROVE  Revalued([ob EXCEPT ![x].value = v], ob, k, x, v)
<1> PICK r, o : r = ob[x] /\ o = [ob EXCEPT ![x].value = v]
  OBVIOUS
<1>1. r \in EntryTypes(k)
  BY ObjectsAre
<1> PICK y : y = [r EXCEPT !.value = v]
  OBVIOUS
<1>2. y = Made(r.next, r.prevEntry, r.nextEntry, r.skipNextEntry, r.hashCode, r.key, v)
  BY <1>1 DEF EntryTypes, Made
<1>3. y \in EntryTypes(k)
  BY <1>1, <1>2, MadeValue
<1>4. /\ y.next = r.next /\ y.prevEntry = r.prevEntry /\ y.nextEntry = r.nextEntry
      /\ y.skipNextEntry = r.skipNextEntry /\ y.hashCode = r.hashCode /\ y.key = r.key /\ y.value = v
  BY <1>2, MadeFields
<1> PICK E : E = EntryTypes(k)
  OBVIOUS
<1>5. ob \in [0 .. k -> E]
  BY DEF Objects
<1>6. o = [ob EXCEPT ![x] = y]
  OBVIOUS
<1>7. o \in [0 .. k -> E] /\ o[x] = y /\ \A z \in 0 .. k : z # x => o[z] = ob[z]
  BY <1>3, <1>5, <1>6
<1>8. o \in Objects(k)
  BY <1>7 DEF Objects
<1>9. ASSUME NEW z \in 0 .. k
      PROVE  /\ o[z].prevEntry = ob[z].prevEntry /\ o[z].nextEntry = ob[z].nextEntry
             /\ o[z].skipNextEntry = ob[z].skipNextEntry /\ o[z].hashCode = ob[z].hashCode
             /\ o[z].key = ob[z].key /\ o[z].next = ob[z].next
             /\ z # x => o[z].value = ob[z].value
  BY <1>4, <1>7
<1> QED BY <1>4, <1>7, <1>8, <1>9 DEF Revalued

Stored(key, value) ==
    Contents(object', entries', size')
      = Without(Contents(object, entries, size), key) \cup {<<key, value>>}

LEMMA SetValueIs ==
    ASSUME TableInv, NEW key, key \in Keys, NEW value, value \in TypedValues,
           Table!findEntryIndex(key) # -1, Table!setValue(key, value)
    PROVE  TableInv' /\ Stored(key, value) /\ KeepsLinks
<1>0. TablesAreGiven
  BY DEF TableInv
<1> PICK c, k : Tabled(buckets, entries, object, size, freeSize, freeList, tail, c, k)
  BY DEF TableInv
<1> PICK bk, en, ob, n, m, f, t : /\ bk = buckets /\ en = entries /\ ob = object /\ n = size
                                  /\ m = freeSize /\ f = freeList /\ t = tail
  OBVIOUS
<1> PICK H, N, K : H = HashIn(ob, en) /\ N = NextIn(ob, en) /\ K = KeyIn(ob, en)
  OBVIOUS
<1>1. /\ Tabled(bk, en, ob, n, m, f, t, c, k) /\ k \in Nat /\ ob \in Objects(k) /\ Placed(en, n, k)
      /\ SlotsInv(bk, H, N, K, n, c, m, f)
  BY DEF Tabled
<1>2. n \in Nat /\ Coded(H, K, n)
  BY <1>1, SlotTypes
<1>3. PICK i : i = Table!findEntryIndex(key)
  OBVIOUS
<1>4. i # -1 /\ FoundAs(ob, en, n, key, i)
  BY <1>3, FindIs
<1>5. i \in 0 .. n - 1 /\ H[i] # -1 /\ K[i] = key
  BY <1>4 DEF FoundAs
<1> PICK e, o : e = en[i] /\ o = [ob EXCEPT ![e].value = value]
  OBVIOUS
<1>6. \A j \in 0 .. n - 1 : en[j] \in 0 .. k /\ (j # i => en[j] # e)
  <2>1. ASSUME NEW j \in 0 .. n - 1 PROVE en[j] \in 0 .. k /\ (j # i => en[j] # e)
    BY <1>1, <1>5 DEF Placed
  <2> QED BY <2>1
<1>7. Revalued(o, ob, k, e, value)
  BY <1>1, <1>5, <1>6, RevaluedIs
<1>8. /\ object' = o /\ buckets' = bk /\ entries' = en /\ size' = n /\ freeSize' = m
      /\ freeList' = f /\ tail' = t
  BY <1>3 DEF Table!setValue
<1>9. \A j \in 0 .. n - 1 : /\ o[en[j]].hashCode = ob[en[j]].hashCode /\ o[en[j]].key = ob[en[j]].key
                            /\ o[en[j]].next = ob[en[j]].next
                            /\ o[en[j]].value = IF j = i THEN value ELSE ob[en[j]].value
  BY <1>6, <1>7 DEF Revalued
<1>10. \A j \in 0 .. n - 1 : /\ H[j] = ob[en[j]].hashCode /\ N[j] = ob[en[j]].next /\ K[j] = ob[en[j]].key
                             /\ HashIn(o, en)[j] = o[en[j]].hashCode /\ NextIn(o, en)[j] = o[en[j]].next
                             /\ KeyIn(o, en)[j] = o[en[j]].key
  BY DEF HashIn, NextIn, KeyIn
<1>11. SlotsInv(bk, HashIn(o, en), NextIn(o, en), KeyIn(o, en), n, c, m, f)
  <2>1. PICK H2, N2, K2 : H2 = HashIn(o, en) /\ N2 = NextIn(o, en) /\ K2 = KeyIn(o, en)
    OBVIOUS
  <2>2. ASSUME NEW j \in 0 .. n - 1 PROVE H2[j] = H[j] /\ K2[j] = K[j] /\ N2[j] = N[j]
    <3>1. /\ o[en[j]].hashCode = ob[en[j]].hashCode /\ o[en[j]].key = ob[en[j]].key
          /\ o[en[j]].next = ob[en[j]].next
      BY <1>9
    <3>2. /\ H[j] = ob[en[j]].hashCode /\ N[j] = ob[en[j]].next /\ K[j] = ob[en[j]].key
          /\ H2[j] = o[en[j]].hashCode /\ N2[j] = o[en[j]].next /\ K2[j] = o[en[j]].key
      BY <1>10, <2>1
    <3> QED BY <3>1, <3>2
  <2>3. SlotsInv(bk, H2, N2, K2, n, c, m, f)
    BY <1>1, <2>2, SlotsKept
  <2> QED BY <2>1, <2>3
<1>12. Tabled(bk, en, o, n, m, f, t, c, k)
  <2>1. o \in Objects(k)
    BY <1>7 DEF Revalued
  <2> QED BY <1>1, <1>11, <2>1 DEF Tabled
<1>13. TableInv'
  BY <1>8, <1>12, <1>0 DEF TableInv, TablesAreGiven
<1>14. Contents(o, en, n) = Without(Contents(ob, en, n), key) \cup {<<key, value>>}
  <2>1. \A j \in 0 .. n - 1 : j # i /\ ob[en[j]].hashCode # -1 => ob[en[j]].key # key
    BY <1>2, <1>5, <1>10 DEF Coded
  <2>2. o[en[i]].hashCode # -1 /\ o[en[i]].key = key /\ o[en[i]].value = value
    BY <1>5, <1>9, <1>10
  <2>3. ASSUME NEW x \in Contents(o, en, n) PROVE x \in Without(Contents(ob, en, n), key) \cup {<<key, value>>}
    <3>1. PICK j \in 0 .. n - 1 : o[en[j]].hashCode # -1 /\ x = <<o[en[j]].key, o[en[j]].value>>
      BY DEF Contents
    <3>2. CASE j = i
      BY <2>2, <3>1, <3>2
    <3>3. CASE j # i
      BY <1>9, <2>1, <3>1, <3>3 DEF Contents, Without
    <3> QED BY <3>2, <3>3
  <2>4. ASSUME NEW x \in Without(Contents(ob, en, n), key) PROVE x \in Contents(o, en, n)
    <3>1. x[1] # key /\ x \in Contents(ob, en, n)
      BY DEF Without
    <3>2. PICK j \in 0 .. n - 1 : ob[en[j]].hashCode # -1 /\ x = <<ob[en[j]].key, ob[en[j]].value>>
      BY <3>1 DEF Contents
    <3>3. j # i
      BY <1>5, <1>10, <3>1, <3>2
    <3>4. o[en[j]].hashCode # -1 /\ x = <<o[en[j]].key, o[en[j]].value>>
      BY <1>9, <3>2, <3>3
    <3> QED BY <3>4 DEF Contents
  <2>5. <<key, value>> \in Contents(o, en, n)
    BY <2>2, <1>5 DEF Contents
  <2> QED BY <2>3, <2>4, <2>5
<1>15. Stored(key, value)
  BY <1>8, <1>14 DEF Stored
<1>16. KeepsLinks
  <2>1. Used(o, en, n) = Used(ob, en, n)
    <3>1. SamePlaces(o, en, ob, en, n)
      BY <1>9 DEF SamePlaces
    <3> QED BY <3>1, UsedKept
  <2>2. LinksKept(o, ob, k) /\ o \in Objects(k)
    BY <1>7 DEF Revalued, LinksKept
  <2>3. InTable' = InTable /\ tail' = tail /\ object' \in Objects(k) /\ LinksKept(object', object, k)
    BY <1>8, <2>1, <2>2 DEF InTable
  <2> QED BY <1>1, <2>3 DEF KeepsLinks
<1> QED BY <1>13, <1>15, <1>16

\* set and add
LEMMA StoreIs ==
    ASSUME TableInv, NEW key, key \in Keys, NEW value, value \in TypedValues, Table!put(key, value)
    PROVE  /\ TableInv' /\ Stored(key, value)
           /\ Table!findEntryIndex(key) # -1 => KeepsLinks
           /\ Table!findEntryIndex(key) = -1 /\ freeSize = 0 => AddsLinks(key)
<1>1. CASE Table!findEntryIndex(key) # -1 /\ Table!setValue(key, value)
  BY <1>1, SetValueIs
<1>2. CASE Table!findEntryIndex(key) = -1 /\ Table!insertEntry(key, value)
  <2>1. TableInv' /\ Added1(key, value) /\ (freeSize = 0 => AddsLinks(key))
    BY <1>2, InsertIs
  <2>2. Without(Contents(object, entries, size), key) = Contents(object, entries, size)
    <3>0. size \in Nat
      BY TableSizes DEF TableInv
    <3>1. FoundAs(object, entries, size, key, -1)
      BY <1>2, FindIs
    <3>2. NewKey(HashIn(object, entries), KeyIn(object, entries), size, key)
      BY <3>0, <3>1 DEF FoundAs
    <3>3. \A v : <<key, v>> \notin Contents(object, entries, size)
      BY <3>0, <3>2, NewKeyIs
    <3>4. ASSUME NEW x \in Contents(object, entries, size) PROVE x[1] # key
      <4>1. x = <<x[1], x[2]>>
        BY DEF Contents
      <4> QED BY <3>3, <4>1
    <3> QED BY <3>4 DEF Without
  <2> QED BY <1>2, <2>1, <2>2 DEF Added1, Stored
<1> QED BY <1>1, <1>2 DEF Table!put

Unchanged1 == Contents(object', entries', size') = Contents(object, entries, size)

LEMMA EnsureIs ==
    ASSUME TableInv, NEW capacity, capacity \in Primes, Table!ensureCapacity(capacity)
    PROVE  TableInv' /\ Unchanged1 /\ KeepsLinks
<1>0. TablesAreGiven
  BY DEF TableInv
<1> PICK c, k : Tabled(buckets, entries, object, size, freeSize, freeList, tail, c, k)
  BY DEF TableInv
<1>1. Table!Capacity = c /\ c \in Nat \ {0}
  BY <1>0, TableSizes
<1> PICK d, r : d = Table!getPrime(capacity) /\ r = Table!resizeHashData(d)
  OBVIOUS
<1>2. capacity \in Int /\ capacity > c
  BY <1>0, <1>1 DEF TablesAreGiven, Table!ensureCapacity
<1>3. d \in Primes /\ d >= capacity /\ d \in Nat \ {0}
  BY <1>2, <1>0, PrimeIs
<1>4. d >= c
  BY <1>1, <1>2, <1>3
<1>5. /\ Tabled(r.buckets, r.entries, r.object, size, freeSize, freeList, tail, d, k)
      /\ Contents(r.object, r.entries, size) = Contents(object, entries, size)
      /\ LinksKept(r.object, object, k) /\ Used(r.object, r.entries, size) = InTable
  BY <1>0, <1>3, <1>4, Resized
<1>6. /\ buckets' = r.buckets /\ object' = r.object /\ entries' = r.entries
      /\ size' = size /\ freeSize' = freeSize /\ freeList' = freeList /\ tail' = tail
  BY DEF Table!ensureCapacity
<1>7. Tabled(buckets', entries', object', size', freeSize', freeList', tail', d, k)
  BY <1>5, <1>6
<1>8. TableInv'
  BY <1>0, <1>7 DEF TableInv, TablesAreGiven
<1>9. Unchanged1
  BY <1>5, <1>6 DEF Unchanged1
<1>10. KeepsLinks
  BY <1>7, <1>5, <1>6 DEF Tabled, InTable, KeepsLinks
<1> QED BY <1>8, <1>9, <1>10

LEMMA ClearedTyped ==
    ASSUME NEW k, k \in Nat, NEW r, r \in EntryTypes(k)
    PROVE  /\ [r EXCEPT !.nextEntry = -1] \in EntryTypes(k)
           /\ [r EXCEPT !.prevEntry = -1, !.nextEntry = 0, !.skipNextEntry = TRUE] \in EntryTypes(k)
<1>1. -1 \in -1 .. k /\ 0 \in -1 .. k
  OBVIOUS
<1> PICK K, V : K = Keys \cup {Table!NoKey} /\ V = Keys \cup Values \cup {Table!NoKey}
  OBVIOUS
<1> QED BY <1>1 DEF EntryTypes

ClearedObjects(ob, D, L) ==
    [x \in D |-> IF x = 0 THEN [ob[x] EXCEPT !.nextEntry = -1]
                 ELSE IF x \in L THEN [ob[x] EXCEPT !.prevEntry = -1, !.nextEntry = 0, !.skipNextEntry = TRUE]
                 ELSE ob[x]]

LEMMA ClearedObjectsTyped ==
    ASSUME NEW k, k \in Nat, NEW ob, ob \in Objects(k), NEW L
    PROVE  ClearedObjects(ob, 0 .. k, L) \in Objects(k)
<1> PICK o : o = ClearedObjects(ob, 0 .. k, L)
  OBVIOUS
<1>1. ASSUME NEW x \in 0 .. k PROVE o[x] \in EntryTypes(k)
  <2>1. PICK r : r = ob[x] /\ r \in EntryTypes(k)
    BY ObjectsAre
  <2>2. /\ [r EXCEPT !.nextEntry = -1] \in EntryTypes(k)
        /\ [r EXCEPT !.prevEntry = -1, !.nextEntry = 0, !.skipNextEntry = TRUE] \in EntryTypes(k)
    BY <2>1, ClearedTyped
  <2>3. o[x] = IF x = 0 THEN [r EXCEPT !.nextEntry = -1]
               ELSE IF x \in L THEN [r EXCEPT !.prevEntry = -1, !.nextEntry = 0, !.skipNextEntry = TRUE]
               ELSE r
    BY <2>1 DEF ClearedObjects
  <2> QED BY <2>1, <2>2, <2>3
<1>2. o = [x \in 0 .. k |-> o[x]]
  BY DEF ClearedObjects
<1> QED BY <1>1, <1>2 DEF Objects

LEMMA NothingPlaced ==
    ASSUME NEW c, c \in Nat \ {0}, NEW k, NEW en, en = Table!Empty(c, -1), NEW o
    PROVE  /\ en \in [0 .. c - 1 -> Int] /\ Placed(en, 0, k) /\ \A i \in 0 .. c - 1 : i >= 0 => en[i] = -1
           /\ Contents(o, en, 0) = {}
<1>1. 0 .. 0 - 1 = {}
  OBVIOUS
<1> QED BY <1>1 DEF Table!Empty, Placed, Contents

ClearsLinks ==
    \E k \in Nat : /\ object \in Objects(k)
                  /\ object' = ClearedObjects(object, 0 .. k, Table!Range(Table!Listed))
                  /\ tail' = 0 /\ InTable' = {}

LEMMA ClearIs ==
    ASSUME TableInv, Table!clearEntries
    PROVE  TableInv' /\ Contents(object', entries', size') = {} /\ ClearsLinks
<1>0. TablesAreGiven
  BY DEF TableInv
<1> PICK c, k : Tabled(buckets, entries, object, size, freeSize, freeList, tail, c, k)
  BY DEF TableInv
<1>1. Table!Capacity = c /\ c \in Nat \ {0} /\ k \in Nat /\ DOMAIN object = 0 .. k
  BY <1>0, TableSizes
<1>2. c \in Primes /\ object \in Objects(k)
  BY DEF Tabled
<1> PICK L, ob : L = Table!Range(Table!Listed) /\ ob = object
  OBVIOUS
<1> PICK o, bk, en : o = ClearedObjects(ob, 0 .. k, L) /\ bk = Table!Empty(c, 0) /\ en = Table!Empty(c, -1)
  OBVIOUS
<1>3. /\ buckets' = bk /\ entries' = en /\ object' = o
      /\ tail' = 0 /\ size' = 0 /\ freeList' = -1 /\ freeSize' = 0
  BY <1>1 DEF Table!clearEntries, ClearedObjects, Table!HeadEntry, Table!Nothing
<1>4. o \in Objects(k)
  BY <1>1, <1>2, ClearedObjectsTyped
<1>5. SlotsInv(bk, HashIn(o, en), NextIn(o, en), KeyIn(o, en), 0, c, 0, -1)
  <2>1. PICK H, N, K : H = HashIn(o, en) /\ N = NextIn(o, en) /\ K = KeyIn(o, en)
    OBVIOUS
  <2>2. SlotsInv([b \in 0 .. c - 1 |-> 0], H, N, K, 0, c, 0, -1)
    BY <1>1, NoSlots
  <2> QED BY <2>1, <2>2 DEF Table!Empty
<1>6. /\ en \in [0 .. c - 1 -> Int] /\ Placed(en, 0, k) /\ \A i \in 0 .. c - 1 : i >= 0 => en[i] = -1
      /\ Contents(o, en, 0) = {}
  BY <1>1, NothingPlaced
<1>7. Tabled(bk, en, o, 0, 0, -1, 0, c, k)
  <2>1. 0 \in -1 .. k
    BY <1>1
  <2> QED BY <1>1, <1>2, <1>4, <1>5, <1>6, <2>1 DEF Tabled
<1>8. TableInv'
  BY <1>3, <1>7, <1>0 DEF TableInv, TablesAreGiven
<1>9. ClearsLinks
  BY <1>1, <1>2, <1>3 DEF Used, ClearsLinks, InTable
<1> QED BY <1>3, <1>6, <1>8, <1>9

LEMMA Elements ==
    ASSUME NEW X, NEW s, s \in Seq(X)
    PROVE  Len(s) \in Nat /\ \A a \in 1 .. Len(s) : s[a] \in X
OBVIOUS

LEMMA MovedTypes ==
    ASSUME NEW s, NEW ob, NEW en, NEW n, NEW k, Moved(s, ob, en, n, k)
    PROVE  Len(s) \in Nat /\ Len(s) <= n /\ \A a \in Places(s) : s[a] \in 1 .. k
<1> PICK X : X = 1 .. k
  OBVIOUS
<1>1. s \in Seq(X) /\ Len(s) <= n
  BY DEF Moved
<1>2. Len(s) \in Nat /\ \A a \in 1 .. Len(s) : s[a] \in X
  BY <1>1, Elements
<1> QED BY <1>1, <1>2 DEF Places

\* Trimming moves the entries in use together: places tr, of which s is the list.
LEMMA TrimmedTable ==
    ASSUME TablesAreGiven, NEW bk, NEW en, NEW ob, NEW n, NEW m, NEW f, NEW t, NEW c, NEW k,
           Tabled(bk, en, ob, n, m, f, t, c, k), NEW s, Moved(s, ob, en, n, k), NEW z, z = Len(s),
           NEW d, d \in Primes, z <= d, NEW tr, tr = [i \in 0 .. d - 1 |-> IF i < z THEN s[i + 1] ELSE -1]
    PROVE  /\ z \in Nat /\ Placed(tr, z, k)
           /\ \A q : Relinked(q, ob, tr, z, d, k) =>
                 /\ Tabled(q.buckets, tr, q.object, z, 0, -1, t, d, k)
                 /\ Contents(q.object, tr, z) = Contents(ob, en, n)
                 /\ LinksKept(q.object, ob, k) /\ Used(q.object, tr, z) = Used(ob, en, n)
<1> PICK H, K : H = HashIn(ob, en) /\ K = KeyIn(ob, en)
  OBVIOUS
<1>1. /\ k \in Nat /\ t \in -1 .. k /\ ob \in Objects(k) /\ Placed(en, n, k)
      /\ SlotsInv(bk, H, NextIn(ob, en), K, n, c, m, f)
  BY DEF Tabled
<1>2. /\ n \in Nat /\ Coded(H, K, n) /\ \A i \in 0 .. n - 1 : H[i] >= 0 <=> H[i] # -1
  <2>1. PICK N : N = NextIn(ob, en)
    OBVIOUS
  <2> QED BY <1>1, <2>1, SlotTypes
<1>3. /\ s \in Seq(1 .. k) /\ z \in Nat
      /\ \A a, b \in 1 .. z : s[a] = s[b] => a = b
      /\ {s[a] : a \in 1 .. z} = UsedIn(ob, en, n)
      /\ \A a \in 1 .. z : s[a] \in 1 .. k
  BY MovedTypes DEF Moved, Places
<1>4. d \in Nat \ {0}
  BY DEF TablesAreGiven
<1>5. \A i \in 0 .. z - 1 : i \in 0 .. d - 1 /\ i + 1 \in 1 .. z /\ tr[i] = s[i + 1]
  BY <1>3, <1>4
<1>6. /\ tr \in [0 .. d - 1 -> Int] /\ \A i \in 0 .. d - 1 : i >= z => tr[i] = -1
  <2>1. ASSUME NEW i \in 0 .. d - 1 PROVE (IF i < z THEN s[i + 1] ELSE -1) \in Int
    <3>1. CASE i < z
      BY <1>3, <1>4, <3>1, <1>1
    <3> QED BY <3>1
  <2> QED BY <1>3, <1>4, <2>1
<1>7. Placed(tr, z, k)
  <2>1. \A i \in 0 .. z - 1 : tr[i] \in 1 .. k
    BY <1>3, <1>5
  <2>2. ASSUME NEW i \in 0 .. z - 1, NEW j \in 0 .. z - 1, tr[i] = tr[j] PROVE i = j
    <3>1. i + 1 = j + 1
      BY <1>3, <1>5, <2>2
    <3> QED BY <1>3, <3>1
  <2> QED BY <2>1, <2>2 DEF Placed
\* Each place comes from a place in use, and each in use has gone to one.
<1>8. \A i \in 0 .. z - 1 : \E j \in 0 .. n - 1 : tr[i] = en[j] /\ H[j] # -1
  <2>1. ASSUME NEW i \in 0 .. z - 1 PROVE \E j \in 0 .. n - 1 : tr[i] = en[j] /\ H[j] # -1
    <3>1. tr[i] \in UsedIn(ob, en, n)
      BY <1>3, <1>5
    <3>2. PICK j \in 0 .. n - 1 : tr[i] = en[j] /\ ~(ob[en[j]].hashCode < 0)
      BY <3>1 DEF UsedIn
    <3>3. H[j] = ob[en[j]].hashCode
      BY DEF HashIn
    <3>4. H[j] # -1
      BY <3>2, <3>3
    <3> QED BY <3>2, <3>4
  <2> QED BY <2>1
<1>9. \A j \in 0 .. n - 1 : H[j] # -1 => \E i \in 0 .. z - 1 : tr[i] = en[j]
  <2>1. ASSUME NEW j \in 0 .. n - 1, H[j] # -1 PROVE \E i \in 0 .. z - 1 : tr[i] = en[j]
    <3>1. H[j] = ob[en[j]].hashCode /\ H[j] \in Nat
      BY <1>2, <2>1 DEF HashIn, Coded
    <3>2. en[j] \in UsedIn(ob, en, n)
      BY <3>1 DEF UsedIn
    <3>3. PICK a \in 1 .. z : s[a] = en[j]
      BY <1>3, <3>2
    <3>4. a - 1 \in 0 .. z - 1 /\ (a - 1) + 1 = a
      BY <1>3
    <3> QED BY <1>5, <3>3, <3>4
  <2> QED BY <2>1
<1>10. ASSUME NEW q, Relinked(q, ob, tr, z, d, k)
       PROVE  /\ Tabled(q.buckets, tr, q.object, z, 0, -1, t, d, k)
              /\ Contents(q.object, tr, z) = Contents(ob, en, n)
              /\ LinksKept(q.object, ob, k) /\ Used(q.object, tr, z) = Used(ob, en, n)
  <2>1. /\ UpToNext(q.object, ob, k) /\ q.object \in Objects(k)
        /\ Bucketed(q.buckets, HashIn(ob, tr), NextIn(q.object, tr), z, d)
    BY <1>10 DEF Relinked, UpToNext
  <2> PICK o : o = q.object
    OBVIOUS
  <2> PICK H2, N2, K2, G : H2 = HashIn(o, tr) /\ N2 = NextIn(o, tr) /\ K2 = KeyIn(o, tr) /\ G = HashIn(ob, tr)
    OBVIOUS
  <2>2. \A x \in 0 .. k : /\ o[x].hashCode = ob[x].hashCode /\ o[x].key = ob[x].key
                          /\ o[x].value = ob[x].value
    BY <2>1 DEF UpToNext
  <2>3. ASSUME NEW i \in 0 .. z - 1, NEW j \in 0 .. n - 1, tr[i] = en[j]
        PROVE  /\ H2[i] = H[j] /\ K2[i] = K[j] /\ G[i] = H[j]
               /\ o[tr[i]].hashCode = ob[en[j]].hashCode
               /\ o[tr[i]].key = ob[en[j]].key /\ o[tr[i]].value = ob[en[j]].value
               /\ ob[en[j]].hashCode = H[j]
    <3>1. en[j] \in 1 .. k
      BY <1>1 DEF Placed
    <3>2. PICK x : x = en[j] /\ x \in 0 .. k
      BY <1>1, <3>1
    <3>3. i \in Int /\ j \in Int
      BY <1>2, <1>3
    <3>4. /\ o[x].hashCode = ob[x].hashCode /\ o[x].key = ob[x].key /\ o[x].value = ob[x].value
      BY <2>2, <3>2
    <3> QED BY <2>3, <3>2, <3>3, <3>4 DEF HashIn, KeyIn
  <2>4. \A i \in 0 .. z - 1 : H2[i] # -1 /\ H2[i] = G[i]
    BY <1>8, <2>3
  <2>5. Coded(H2, K2, z)
    <3>1. ASSUME NEW i \in 0 .. z - 1
          PROVE  K2[i] \in Keys /\ Hash[K2[i]] \in Nat /\ H2[i] = Hash[K2[i]]
      <4>1. PICK j \in 0 .. n - 1 : tr[i] = en[j] /\ H[j] # -1
        BY <1>8
      <4>2. K[j] \in Keys /\ Hash[K[j]] \in Nat /\ H[j] = Hash[K[j]]
        BY <1>2, <4>1 DEF Coded
      <4> QED BY <2>3, <4>1, <4>2
    <3>2. ASSUME NEW a \in 0 .. z - 1, NEW b \in 0 .. z - 1, K2[a] = K2[b] PROVE a = b
      <4>1. PICK x \in 0 .. n - 1 : tr[a] = en[x] /\ H[x] # -1
        BY <1>8
      <4>2. PICK y \in 0 .. n - 1 : tr[b] = en[y] /\ H[y] # -1
        BY <1>8
      <4>3. K[x] = K[y]
        BY <2>3, <3>2, <4>1, <4>2
      <4>4. x = y
        BY <1>2, <4>1, <4>2, <4>3 DEF Coded
      <4> QED BY <1>7, <4>1, <4>2, <4>4 DEF Placed
    <3> QED BY <3>1, <3>2 DEF Coded
  <2>6. FreeSlots(H2, z) = {} /\ Cardinality({}) = 0 /\ Chain(-1, N2, {})
    BY <2>4, ChainEmpty, FS_EmptySet DEF FreeSlots
  <2>7. Bucketed(q.buckets, H2, N2, z, d)
    <3>1. Bucketed(q.buckets, G, N2, z, d)
      BY <2>1
    <3>2. \A j \in 0 .. z - 1 : H2[j] = G[j] /\ (G[j] >= 0 => N2[j] = N2[j])
      BY <2>4
    <3>3. z <= z /\ \A j \in z .. z - 1 : ~(H2[j] >= 0)
      BY <1>3
    <3> QED BY <1>3, <1>4, <3>1, <3>2, <3>3, BucketedKept, SMTT(30)
  <2>8. SlotsInv(q.buckets, H2, N2, K2, z, d, 0, -1)
    BY <1>3, <1>4, <2>5, <2>6, <2>7 DEF SlotsInv
  <2>9. Tabled(q.buckets, tr, o, z, 0, -1, t, d, k)
    BY <1>1, <1>6, <1>7, <2>1, <2>8 DEF Tabled
  <2>10. Contents(o, tr, z) = Contents(ob, en, n)
    <3>1. ASSUME NEW x \in Contents(o, tr, z) PROVE x \in Contents(ob, en, n)
      <4>1. PICK i \in 0 .. z - 1 : x = <<o[tr[i]].key, o[tr[i]].value>>
        BY DEF Contents
      <4>2. PICK j \in 0 .. n - 1 : tr[i] = en[j] /\ H[j] # -1
        BY <1>8
      <4>3. ob[en[j]].hashCode # -1 /\ x = <<ob[en[j]].key, ob[en[j]].value>>
        BY <2>3, <4>1, <4>2
      <4> QED BY <4>3 DEF Contents
    <3>2. ASSUME NEW x \in Contents(ob, en, n) PROVE x \in Contents(o, tr, z)
      <4>1. PICK j \in 0 .. n - 1 : ob[en[j]].hashCode # -1 /\ x = <<ob[en[j]].key, ob[en[j]].value>>
        BY DEF Contents
      <4>2. H[j] # -1
        BY <4>1 DEF HashIn
      <4>3. PICK i \in 0 .. z - 1 : tr[i] = en[j]
        BY <1>9, <4>2
      <4>4. o[tr[i]].hashCode # -1 /\ x = <<o[tr[i]].key, o[tr[i]].value>>
        BY <2>3, <4>1, <4>3
      <4> QED BY <4>4 DEF Contents
    <3> QED BY <3>1, <3>2
  <2>11. LinksKept(q.object, ob, k)
    BY <2>1 DEF UpToNext, LinksKept
  <2>12. Used(o, tr, z) = Used(ob, en, n)
    <3>1. ASSUME NEW x \in Used(o, tr, z) PROVE x \in Used(ob, en, n)
      <4>1. PICK i \in 0 .. z - 1 : x = tr[i]
        BY DEF Used
      <4>2. PICK j \in 0 .. n - 1 : tr[i] = en[j] /\ H[j] # -1
        BY <1>8
      <4>3. ob[en[j]].hashCode # -1 /\ x = en[j]
        BY <2>3, <4>1, <4>2
      <4> QED BY <4>3 DEF Used
    <3>2. ASSUME NEW x \in Used(ob, en, n) PROVE x \in Used(o, tr, z)
      <4>1. PICK j \in 0 .. n - 1 : ob[en[j]].hashCode # -1 /\ x = en[j]
        BY DEF Used
      <4>2. H[j] # -1
        BY <4>1 DEF HashIn
      <4>3. PICK i \in 0 .. z - 1 : tr[i] = en[j]
        BY <1>9, <4>2
      <4>4. o[tr[i]].hashCode # -1 /\ x = tr[i]
        BY <2>3, <4>1, <4>3
      <4> QED BY <4>4 DEF Used
    <3> QED BY <3>1, <3>2
  <2> QED BY <2>9, <2>10, <2>11, <2>12
<1> QED BY <1>3, <1>7, <1>10

LEMMA TrimIs ==
    ASSUME TableInv, NEW capacity, capacity \in Primes \cup {size - freeSize},
           Table!trimExcessEntries(capacity)
    PROVE  TableInv' /\ Unchanged1 /\ KeepsLinks
<1>0. TablesAreGiven
  BY DEF TableInv
<1> PICK c, k : Tabled(buckets, entries, object, size, freeSize, freeList, tail, c, k)
  BY DEF TableInv
<1>1. /\ c \in Nat \ {0} /\ c \in Primes /\ k \in Nat /\ size \in Nat /\ freeSize \in Nat /\ size <= c
  <2>1. c \in Primes
    BY DEF Tabled
  <2> QED BY <1>0, <2>1, TableSizes
<1>2. object \in Objects(k) /\ Placed(entries, size, k)
  BY DEF Tabled
<1> PICK s, z, d : s = Table!InUse /\ z = Len(s) /\ d = Table!getPrime(capacity)
  OBVIOUS
<1>3. Moved(s, object, entries, size, k)
  BY <1>1, <1>2, InUseIs
<1>4. capacity \in Int /\ capacity >= size
  BY <1>0, <1>1 DEF TablesAreGiven, Table!trimExcessEntries
<1>5. d \in Primes /\ d >= capacity /\ d \in Nat \ {0}
  <2>1. \E p \in Primes : p >= capacity
    BY <1>4, <1>1
  <2> QED BY <1>0, <1>4, <2>1, PrimeIs
<1>6. z \in Nat /\ z <= d
  <2>1. z \in Nat /\ z <= size
    BY <1>3 DEF Moved
  <2> QED BY <1>1, <1>4, <1>5, <2>1
<1> PICK tr : tr = [i \in 0 .. d - 1 |-> IF i < z THEN s[i + 1] ELSE -1]
  OBVIOUS
<1>7. /\ Placed(tr, z, k)
      /\ \A q : Relinked(q, object, tr, z, d, k) =>
            /\ Tabled(q.buckets, tr, q.object, z, 0, -1, tail, d, k)
            /\ Contents(q.object, tr, z) = Contents(object, entries, size)
            /\ LinksKept(q.object, object, k) /\ Used(q.object, tr, z) = InTable
  BY <1>0, <1>3, <1>5, <1>6, TrimmedTable, SMTT(30) DEF InTable
<1> PICK q : q = Table!Rehash(tr, z, d)
  OBVIOUS
<1>8. Relinked(q, object, tr, z, d, k)
  BY <1>1, <1>2, <1>5, <1>6, <1>7, RehashIs
<1>9. /\ entries' = tr /\ buckets' = q.buckets /\ object' = q.object
      /\ size' = z /\ freeSize' = 0 /\ freeList' = -1 /\ tail' = tail
  BY DEF Table!trimExcessEntries, Table!Nothing
<1>10. TableInv'
  BY <1>7, <1>8, <1>9, <1>0 DEF TableInv, TablesAreGiven
<1>11. Unchanged1
  BY <1>7, <1>8, <1>9 DEF Unchanged1
<1>12. KeepsLinks
  BY <1>7, <1>8, <1>9, <1>1, <1>2 DEF InTable, Tabled, KeepsLinks
<1> QED BY <1>10, <1>11, <1>12

PairsAt(contents, key) == {x \in contents : x[1] = key}
Mapped(contents) ==
    [key \in {q \in Keys : PairsAt(contents, q) # {}} |-> (CHOOSE x \in PairsAt(contents, key) : TRUE)[2]]

LEMMA FoundContents ==
    ASSUME TableInv, NEW key, key \in Keys
    PROVE  /\ Table!Has(key) <=> PairsAt(Contents(object, entries, size), key) # {}
           /\ Table!Has(key) =>
                 \A x \in PairsAt(Contents(object, entries, size), key) : x[2] = Table!Get(key)
<1>0. TablesAreGiven
  BY DEF TableInv
<1> PICK c, k : Tabled(buckets, entries, object, size, freeSize, freeList, tail, c, k)
  BY DEF TableInv
<1> PICK ob, en, n, i, C : /\ ob = object /\ en = entries /\ n = size /\ i = Table!findEntryIndex(key)
                           /\ C = Contents(ob, en, n)
  OBVIOUS
<1>1. FoundAs(ob, en, n, key, i)
  BY FindIs
<1>2. n \in Nat
  BY <1>0, TableSizes
<1>3. Table!Has(key) <=> i >= 0
  BY DEF Table!Has
<1>4. Table!Get(key) = ob[en[i]].value
  BY DEF Table!Get, Table!findEntryValue
<1>5. Coded(HashIn(ob, en), KeyIn(ob, en), n)
  BY DEF Tabled, SlotsInv
<1>6. CASE i = -1
  <2>1. NewKey(HashIn(ob, en), KeyIn(ob, en), n, key)
    BY <1>1, <1>2, <1>6 DEF FoundAs
  <2>2. \A v : <<key, v>> \notin C
    BY <1>2, <2>1, NewKeyIs
  <2>3. ASSUME NEW x \in C PROVE x[1] # key
    <3>1. x = <<x[1], x[2]>>
      BY DEF Contents
    <3> QED BY <2>2, <3>1
  <2>4. PairsAt(C, key) = {}
    BY <2>3 DEF PairsAt
  <2> QED BY <1>3, <1>6, <2>4
<1>7. CASE i # -1
  <2>1. i \in 0 .. n - 1 /\ HashIn(ob, en)[i] # -1 /\ KeyIn(ob, en)[i] = key
    BY <1>1, <1>7 DEF FoundAs
  <2>2. i >= 0
    BY <1>2, <2>1
  <2>3. ob[en[i]].hashCode # -1 /\ ob[en[i]].key = key
    BY <2>1 DEF HashIn, KeyIn
  <2>4. <<key, ob[en[i]].value>> \in PairsAt(C, key)
    BY <2>1, <2>3 DEF Contents, PairsAt
  <2>5. ASSUME NEW x \in PairsAt(C, key) PROVE x[2] = ob[en[i]].value
    <3>1. x \in C /\ x[1] = key
      BY DEF PairsAt
    <3>2. PICK j \in 0 .. n - 1 : ob[en[j]].hashCode # -1 /\ x = <<ob[en[j]].key, ob[en[j]].value>>
      BY <3>1 DEF Contents
    <3>3. HashIn(ob, en)[j] # -1 /\ KeyIn(ob, en)[j] = key
      BY <3>1, <3>2 DEF HashIn, KeyIn
    <3>4. j = i
      BY <1>5, <2>1, <3>3 DEF Coded
    <3> QED BY <3>2, <3>4
  <2> QED BY <1>3, <1>4, <2>2, <2>4, <2>5
<1> QED BY <1>6, <1>7

TableMap == [key \in {q \in Keys : Table!Has(q)} |-> Table!Get(key)]

LEMMA MappedIs == TableInv => TableMap = Mapped(Contents(object, entries, size))
<1> SUFFICES ASSUME TableInv PROVE TableMap = Mapped(Contents(object, entries, size))
  OBVIOUS
<1> PICK C : C = Contents(object, entries, size)
  OBVIOUS
<1>1. {q \in Keys : Table!Has(q)} = {q \in Keys : PairsAt(C, q) # {}}
  BY FoundContents
<1>2. ASSUME NEW key \in Keys, Table!Has(key)
      PROVE  Table!Get(key) = (CHOOSE x \in PairsAt(C, key) : TRUE)[2]
  BY <1>2, FoundContents
<1> QED BY <1>1, <1>2 DEF TableMap, Mapped

LEMMA ChosenSecond ==
    ASSUME NEW P, NEW key, NEW value, P = {<<key, value>>}
    PROVE  (CHOOSE x \in P : TRUE)[2] = value
<1>1. (CHOOSE x \in P : TRUE) = <<key, value>>
  OBVIOUS
<1> QED BY <1>1

LEMMA MappedFunction ==
    ASSUME NEW C PROVE Mapped(C) = [q \in DOMAIN Mapped(C) |-> Mapped(C)[q]]
BY DEF Mapped

\* What storing a value at a key, or removing a key, does to a map.
Puts(m, n, key, value) == n = [q \in DOMAIN m \cup {key} |-> IF q = key THEN value ELSE m[q]]
Drops(m, n, key) == n = [q \in DOMAIN m \ {key} |-> m[q]]

LEMMA MappedStored ==
    ASSUME NEW C, NEW key, key \in Keys, NEW value, NEW D, D = Without(C, key) \cup {<<key, value>>}
    PROVE  Puts(Mapped(C), Mapped(D), key, value)
<1>1. ASSUME NEW q, q # key PROVE PairsAt(D, q) = PairsAt(C, q)
  BY <1>1 DEF PairsAt, Without
<1>2. PairsAt(D, key) = {<<key, value>>}
  BY DEF PairsAt, Without
<1>3. DOMAIN Mapped(D) = DOMAIN Mapped(C) \cup {key}
  BY <1>1, <1>2 DEF Mapped
<1>4. (CHOOSE x \in PairsAt(D, key) : TRUE)[2] = value
  <2>1. PICK P : P = PairsAt(D, key)
    OBVIOUS
  <2>2. (CHOOSE x \in P : TRUE)[2] = value
    <3>1. P = {<<key, value>>}
      BY <1>2, <2>1
    <3> QED BY <3>1, ChosenSecond
  <2> QED BY <2>1, <2>2
<1>5. ASSUME NEW q \in DOMAIN Mapped(D)
      PROVE  Mapped(D)[q] = IF q = key THEN value ELSE Mapped(C)[q]
  <2>1. Mapped(D)[q] = (CHOOSE x \in PairsAt(D, q) : TRUE)[2]
    BY DEF Mapped
  <2>2. CASE q = key
    BY <1>4, <2>1, <2>2
  <2>3. CASE q # key
    <3>1. Mapped(C)[q] = (CHOOSE x \in PairsAt(C, q) : TRUE)[2]
      BY <1>3, <2>3 DEF Mapped
    <3>2. PairsAt(D, q) = PairsAt(C, q)
      BY <1>1, <2>3
    <3> QED BY <2>1, <2>3, <3>1, <3>2
  <2> QED BY <2>2, <2>3
<1>6. PICK m, n : m = Mapped(C) /\ n = Mapped(D)
  OBVIOUS
<1>7. n = [q \in DOMAIN n |-> n[q]]
  BY <1>6, MappedFunction
<1>8. Puts(m, n, key, value)
  BY <1>3, <1>5, <1>6, <1>7 DEF Puts
<1> QED BY <1>6, <1>8

LEMMA MappedDeleted ==
    ASSUME NEW C, NEW key, key \in Keys, NEW D, D = Without(C, key)
    PROVE  Drops(Mapped(C), Mapped(D), key)
<1>1. ASSUME NEW q, q # key PROVE PairsAt(D, q) = PairsAt(C, q)
  BY <1>1 DEF PairsAt, Without
<1>2. PairsAt(D, key) = {}
  BY DEF PairsAt, Without
<1>3. DOMAIN Mapped(D) = DOMAIN Mapped(C) \ {key}
  BY <1>1, <1>2 DEF Mapped
<1>5. ASSUME NEW q \in DOMAIN Mapped(D)
      PROVE  Mapped(D)[q] = Mapped(C)[q]
  BY <1>3, <1>1 DEF Mapped
<1>6. PICK m, n : m = Mapped(C) /\ n = Mapped(D)
  OBVIOUS
<1>7. n = [q \in DOMAIN n |-> n[q]]
  BY <1>6, MappedFunction
<1>8. Drops(m, n, key)
  BY <1>3, <1>5, <1>6, <1>7 DEF Drops
<1> QED BY <1>6, <1>8

LEMMA MappedEmpty == Mapped({}) = [q \in {} |-> {}]
BY DEF PairsAt, Mapped

LEMMA TableStarts == ASSUME TablesAreGiven, Table!Construct PROVE TableInv /\ Contents(object, entries, size) = {}
<1>1. PICK c \in Primes : /\ buckets = Table!Empty(c, 0) /\ entries = Table!Empty(c, -1)
                          /\ Table!InitTable
  BY DEF Table!Construct, Table!Nothing
<1>2. c \in Nat \ {0}
  BY DEF TablesAreGiven
<1> PICK bk, en, o : bk = buckets /\ en = entries /\ o = object
  OBVIOUS
<1>3. /\ size = 0 /\ freeSize = 0 /\ freeList = -1 /\ tail = 0
      /\ o = [x \in {0} |-> Table!createHashEntry]
  BY <1>1 DEF Table!InitTable, Table!HeadEntry
<1>4. o \in Objects(0)
  <2>1. PICK r : r = Table!createHashEntry
    OBVIOUS
  <2>2. r \in EntryTypes(0)
    BY <2>1, NewEntryTyped
  <2>3. 0 .. 0 = {0}
    OBVIOUS
  <2> QED BY <1>3, <2>1, <2>2, <2>3 DEF Objects
<1>5. /\ en \in [0 .. c - 1 -> Int] /\ Placed(en, 0, 0) /\ \A i \in 0 .. c - 1 : i >= 0 => en[i] = -1
      /\ Contents(o, en, 0) = {}
  BY <1>1, <1>2, NothingPlaced
<1>6. SlotsInv(bk, HashIn(o, en), NextIn(o, en), KeyIn(o, en), 0, c, 0, -1)
  <2>1. PICK H, N, K : H = HashIn(o, en) /\ N = NextIn(o, en) /\ K = KeyIn(o, en)
    OBVIOUS
  <2>2. SlotsInv([b \in 0 .. c - 1 |-> 0], H, N, K, 0, c, 0, -1)
    BY <1>2, NoSlots
  <2> QED BY <1>1, <2>1, <2>2 DEF Table!Empty
<1>7. Tabled(bk, en, o, 0, 0, -1, 0, c, 0)
  BY <1>4, <1>5, <1>6 DEF Tabled
<1>8. TableInv
  BY <1>3, <1>7 DEF TableInv
<1> QED BY <1>3, <1>5, <1>8

-----------------------------------------------------------------------------
(* The entries that iterators follow, before a freed one is used again: 1  *)
(* to k, in the order in which they were made.  A live one leads to the    *)
(* next live one, another back to the last live one before it.             *)

Live(skip, k) == {e \in 1 .. k : ~skip[e]}
Stops(skip, k) == Live(skip, k) \cup {0}

Onward(nx, skip, k) ==
    \A e \in Stops(skip, k) :
        /\ nx[e] # -1 => nx[e] \in Live(skip, k) /\ nx[e] > e
        /\ \A x \in Live(skip, k) : x > e => nx[e] # -1 /\ nx[e] <= x
Back(pv, skip, k) ==
    \A e \in Live(skip, k) :
        /\ pv[e] \in Stops(skip, k) /\ pv[e] < e
        /\ \A x \in Live(skip, k) : x < e => x <= pv[e]
Sent(nx, skip, k) ==
    \A e \in 1 .. k : skip[e] => /\ nx[e] \in 0 .. e - 1
                                 /\ \A x \in Live(skip, k) : x < e => x <= nx[e]
LastLive(skip, k, t) == t \in Stops(skip, k) /\ \A x \in Live(skip, k) : x <= t

Lined(nx, pv, skip, k, t) ==
    /\ k \in Nat /\ skip[0] = FALSE /\ \A e \in 1 .. k : skip[e] \in BOOLEAN
    /\ Onward(nx, skip, k) /\ Back(pv, skip, k) /\ Sent(nx, skip, k) /\ LastLive(skip, k, t)

\* A new one after the last.
Extends(nx, pv, skip, k, t, nx2, pv2, skip2, l) ==
    /\ l = k + 1 /\ skip2[l] = FALSE /\ nx2[l] = -1 /\ pv2[l] = t
    /\ \A x \in 0 .. k : /\ nx2[x] = IF x = t THEN l ELSE nx[x]
                         /\ pv2[x] = pv[x] /\ skip2[x] = skip[x]

LEMMA Extended ==
    ASSUME NEW nx, NEW pv, NEW skip, NEW k, NEW t, Lined(nx, pv, skip, k, t),
           NEW nx2, NEW pv2, NEW skip2, NEW l, Extends(nx, pv, skip, k, t, nx2, pv2, skip2, l)
    PROVE  Lined(nx2, pv2, skip2, l, l) /\ Live(skip2, l) = Live(skip, k) \cup {l}
<1> PICK A, B : A = Live(skip, k) /\ B = Live(skip2, l)
  OBVIOUS
<1>1. /\ k \in Nat /\ l = k + 1 /\ l \in Nat /\ skip2[l] = FALSE /\ nx2[l] = -1 /\ pv2[l] = t
      /\ skip[0] = FALSE /\ \A e \in 1 .. k : skip[e] \in BOOLEAN
      /\ \A x \in 0 .. k : /\ nx2[x] = IF x = t THEN l ELSE nx[x]
                           /\ pv2[x] = pv[x] /\ skip2[x] = skip[x]
  BY DEF Extends, Lined
<1>2. A \subseteq 1 .. k /\ \A x \in 1 .. k : x \in A <=> ~skip[x]
  BY DEF Live
<1>3. B = A \cup {l}
  BY <1>1, <1>2 DEF Live
<1>4. /\ t \in A \cup {0} /\ \A x \in A : x <= t
      /\ \A e \in A \cup {0} : /\ nx[e] # -1 => nx[e] \in A /\ nx[e] > e
                               /\ \A x \in A : x > e => nx[e] # -1 /\ nx[e] <= x
      /\ \A e \in A : /\ pv[e] \in A \cup {0} /\ pv[e] < e
                      /\ \A x \in A : x < e => x <= pv[e]
      /\ \A e \in 1 .. k : skip[e] => /\ nx[e] \in 0 .. e - 1
                                      /\ \A x \in A : x < e => x <= nx[e]
  BY DEF Lined, Onward, Back, Sent, LastLive, Stops
<1>5. Onward(nx2, skip2, l)
  <2>1. ASSUME NEW e \in B \cup {0}
        PROVE  /\ nx2[e] # -1 => nx2[e] \in B /\ nx2[e] > e
               /\ \A x \in B : x > e => nx2[e] # -1 /\ nx2[e] <= x
    <3>1. CASE e = l
      BY <1>1, <1>2, <1>3, <3>1
    <3>2. CASE e # l
      <4>1. e \in A \cup {0} /\ e \in 0 .. k /\ e < l
        BY <1>1, <1>2, <1>3, <2>1, <3>2
      <4>2. CASE e = t
        <5>1. nx2[e] = l /\ l \in B /\ l # -1
          BY <1>1, <1>3, <4>1, <4>2
        <5>2. ASSUME NEW x \in B, x > e PROVE l <= x
          <6>1. x = l
            BY <1>2, <1>3, <1>4, <4>1, <4>2, <5>2
          <6> QED BY <1>1, <6>1
        <5> QED BY <4>1, <5>1, <5>2
      <4>3. CASE e # t
        <5>1. nx2[e] = nx[e]
          BY <1>1, <4>1, <4>3
        <5>2. nx[e] # -1 => nx[e] \in B /\ nx[e] > e
          BY <1>3, <1>4, <4>1
        <5>3. t \in A /\ t > e
          BY <1>2, <1>4, <4>1, <4>3
        <5>4. nx[e] # -1 /\ nx[e] <= t /\ t < l /\ nx[e] \in A
          BY <1>1, <1>2, <1>4, <4>1, <5>3
        <5>5. ASSUME NEW x \in B, x > e PROVE nx[e] <= x
          <6>1. CASE x \in A
            BY <1>4, <4>1, <5>5, <6>1
          <6>2. CASE x = l
            BY <1>1, <1>2, <5>3, <5>4, <6>2
          <6> QED BY <1>3, <6>1, <6>2
        <5> QED BY <5>1, <5>2, <5>4, <5>5
      <4> QED BY <4>2, <4>3
    <3> QED BY <3>1, <3>2
  <2> QED BY <2>1 DEF Onward, Stops
<1>6. Back(pv2, skip2, l)
  <2>1. ASSUME NEW e \in B
        PROVE  /\ pv2[e] \in B \cup {0} /\ pv2[e] < e
               /\ \A x \in B : x < e => x <= pv2[e]
    <3>1. CASE e = l
      BY <1>1, <1>2, <1>3, <1>4, <3>1
    <3>2. CASE e # l
      BY <1>1, <1>2, <1>3, <2>1, <3>2, <1>4
    <3> QED BY <3>1, <3>2
  <2> QED BY <2>1 DEF Back, Stops
<1>7. Sent(nx2, skip2, l)
  <2>1. ASSUME NEW e \in 1 .. l, skip2[e]
        PROVE  /\ nx2[e] \in 0 .. e - 1
               /\ \A x \in B : x < e => x <= nx2[e]
    BY <1>1, <2>1, <1>2, <1>4, <1>3
  <2> QED BY <2>1 DEF Sent
<1>8. LastLive(skip2, l, l)
  BY <1>1, <1>2, <1>3 DEF LastLive, Stops
<1>9. skip2[0] = FALSE /\ \A e \in 1 .. l : skip2[e] \in BOOLEAN
  <2>1. 0 \in 0 .. k
    BY <1>1
  <2>2. ASSUME NEW e \in 1 .. l PROVE skip2[e] \in BOOLEAN
    <3>1. e = l \/ (e \in 0 .. k /\ e \in 1 .. k)
      BY <1>1
    <3> QED BY <1>1, <3>1
  <2> QED BY <1>1, <2>1, <2>2
<1> QED BY <1>1, <1>3, <1>5, <1>6, <1>7, <1>8, <1>9 DEF Lined

\* Live entry e is taken out.
Drops1(nx, pv, skip, k, e, nx2, pv2, skip2) ==
    /\ e \in Live(skip, k) /\ nx2[e] = pv[e] /\ skip2[e] = TRUE
    /\ \A x \in 0 .. k : x # e => /\ nx2[x] = IF x = pv[e] THEN nx[e] ELSE nx[x]
                                  /\ pv2[x] = IF x = nx[e] THEN pv[e] ELSE pv[x]
                                  /\ skip2[x] = skip[x]

LEMMA Unhooked ==
    ASSUME NEW nx, NEW pv, NEW skip, NEW k, NEW t, Lined(nx, pv, skip, k, t),
           NEW nx2, NEW pv2, NEW skip2, NEW e, Drops1(nx, pv, skip, k, e, nx2, pv2, skip2),
           NEW u, u = IF t = e THEN pv[e] ELSE t
    PROVE  Lined(nx2, pv2, skip2, k, u) /\ Live(skip2, k) = Live(skip, k) \ {e}
<1> PICK A, B, p, s : A = Live(skip, k) /\ B = Live(skip2, k) /\ p = pv[e] /\ s = nx[e]
  OBVIOUS
<1>1. /\ k \in Nat /\ e \in A /\ nx2[e] = p /\ skip2[e] = TRUE
      /\ skip[0] = FALSE /\ \A x \in 1 .. k : skip[x] \in BOOLEAN
      /\ \A x \in 0 .. k : x # e => /\ nx2[x] = IF x = p THEN s ELSE nx[x]
                                    /\ pv2[x] = IF x = s THEN p ELSE pv[x]
                                    /\ skip2[x] = skip[x]
  BY DEF Drops1, Lined
<1>2. A \subseteq 1 .. k /\ \A x \in 1 .. k : x \in A <=> ~skip[x]
  BY DEF Live
<1>3. B = A \ {e}
  BY <1>1, <1>2 DEF Live
<1>4. /\ t \in A \cup {0} /\ \A x \in A : x <= t
      /\ \A y \in A \cup {0} : /\ nx[y] # -1 => nx[y] \in A /\ nx[y] > y
                               /\ \A x \in A : x > y => nx[y] # -1 /\ nx[y] <= x
      /\ \A y \in A : /\ pv[y] \in A \cup {0} /\ pv[y] < y
                      /\ \A x \in A : x < y => x <= pv[y]
      /\ \A y \in 1 .. k : skip[y] => /\ nx[y] \in 0 .. y - 1
                                      /\ \A x \in A : x < y => x <= nx[y]
  BY DEF Lined, Onward, Back, Sent, LastLive, Stops
<1>5. /\ p \in A \cup {0} /\ p < e /\ \A x \in A : x < e => x <= p
      /\ s # -1 => s \in A /\ s > e
      /\ \A x \in A : x > e => s # -1 /\ s <= x
  BY <1>1, <1>4
<1>6. A \subseteq Int /\ e \in Int /\ p \in Int /\ p >= 0 /\ e \in 1 .. k
  BY <1>1, <1>2, <1>5
<1>7. ASSUME NEW y \in A \cup {0}, nx[y] = e PROVE y = p
  <2>1. y < e /\ y >= 0
    BY <1>1, <1>2, <1>4, <1>6, <1>7
  <2>2. y <= p
    BY <1>5, <1>6, <2>1
  <2>3. CASE y < p
    BY <1>5, <1>6, <2>1, <2>3, <1>4, <1>7
  <2> QED BY <1>6, <2>1, <2>2, <2>3
<1>8. ASSUME NEW y \in A, pv[y] = e PROVE y = s
  <2>1. y > e /\ y \in Int
    BY <1>4, <1>6, <1>8
  <2>2. s \in A /\ s > e /\ s <= y /\ s \in Int
    BY <1>5, <1>6, <2>1
  <2>3. CASE s < y
    <3>1. s <= e
      BY <1>4, <1>8, <2>2, <2>3
    <3> QED BY <1>6, <2>2, <3>1
  <2> QED BY <2>1, <2>2, <2>3
<1>9. s # -1 => pv[s] = e
  <2> SUFFICES ASSUME s # -1 PROVE pv[s] = e
    OBVIOUS
  <2>1. s \in A /\ s > e /\ s \in Int
    BY <1>5, <1>6
  <2>2. e <= pv[s] /\ pv[s] \in A \cup {0} /\ pv[s] < s /\ pv[s] \in Int
    BY <1>1, <1>4, <1>6, <2>1
  <2>3. CASE pv[s] > e
    BY <1>6, <2>2, <2>3, <1>5, <2>1
  <2> QED BY <1>6, <2>2, <2>3
<1>10. Onward(nx2, skip2, k)
  <2>1. ASSUME NEW y \in B \cup {0}
        PROVE  /\ nx2[y] # -1 => nx2[y] \in B /\ nx2[y] > y
               /\ \A x \in B : x > y => nx2[y] # -1 /\ nx2[y] <= x
    <3>1. y \in A \cup {0} /\ y # e /\ y \in 0 .. k /\ y \in Int
      BY <1>1, <1>2, <1>3, <1>6, <2>1
    <3>2. CASE y = p
      <4>1. nx2[y] = s
        BY <1>1, <3>1, <3>2
      <4>2. s # -1 => s \in B /\ s > y
        BY <1>3, <1>5, <1>6, <3>2
      <4>3. ASSUME NEW x \in B, x > y PROVE s # -1 /\ s <= x
        BY <1>3, <1>6, <4>3, <1>5, <3>2
      <4> QED BY <4>1, <4>2, <4>3
    <3>3. CASE y # p
      BY <1>1, <1>7, <3>1, <3>3, <1>3, <1>4
    <3> QED BY <3>2, <3>3
  <2> QED BY <2>1 DEF Onward, Stops
<1>11. Back(pv2, skip2, k)
  <2>1. ASSUME NEW y \in B
        PROVE  /\ pv2[y] \in B \cup {0} /\ pv2[y] < y
               /\ \A x \in B : x < y => x <= pv2[y]
    <3>1. y \in A /\ y # e /\ y \in 0 .. k /\ y \in Int
      BY <1>1, <1>2, <1>3, <1>6, <2>1
    <3>2. CASE y = s
      <4>1. pv2[y] = p /\ s # -1 /\ s > e
        BY <1>1, <1>5, <1>6, <3>1, <3>2
      <4>2. p \in B \cup {0} /\ p < y
        BY <1>3, <1>5, <1>6, <3>1, <3>2, <4>1
      <4>3. ASSUME NEW x \in B, x < y PROVE x <= p
        BY <1>3, <1>6, <4>3, <1>5, <3>1, <3>2
      <4> QED BY <4>1, <4>2, <4>3
    <3>3. CASE y # s
      BY <1>1, <1>8, <3>1, <3>3, <1>3, <1>4
    <3> QED BY <3>2, <3>3
  <2> QED BY <2>1 DEF Back, Stops
<1>12. Sent(nx2, skip2, k)
  <2>1. ASSUME NEW y \in 1 .. k, skip2[y]
        PROVE  /\ nx2[y] \in 0 .. y - 1
               /\ \A x \in B : x < y => x <= nx2[y]
    <3>1. CASE y = e
      <4>1. p \in 0 .. e - 1
        BY <1>5, <1>6
      <4> QED BY <1>1, <1>3, <1>5, <3>1, <4>1
    <3>2. CASE y # e
      BY <1>1, <2>1, <3>2, <1>2, <1>5, <1>3, <1>4
    <3> QED BY <3>1, <3>2
  <2> QED BY <2>1 DEF Sent
<1>13. LastLive(skip2, k, u)
  <2>1. CASE t = e
    <3>1. u = p /\ p \in B \cup {0}
      BY <1>3, <1>5, <1>6, <2>1
    <3>2. ASSUME NEW x \in B PROVE x <= p
      BY <1>3, <1>4, <1>6, <2>1, <3>2, <1>5
    <3> QED BY <3>1, <3>2 DEF LastLive, Stops
  <2>2. CASE t # e
    BY <1>3, <1>4, <2>2 DEF LastLive, Stops
  <2> QED BY <2>1, <2>2
<1>14. skip2[0] = FALSE /\ \A x \in 1 .. k : skip2[x] \in BOOLEAN
  <2>1. 0 \in 0 .. k /\ e # 0
    BY <1>1, <1>6
  <2>2. ASSUME NEW x \in 1 .. k PROVE skip2[x] \in BOOLEAN
    <3>1. x \in 0 .. k
      BY <1>1
    <3> QED BY <1>1, <2>2, <3>1
  <2> QED BY <1>1, <2>1, <2>2
<1> QED BY <1>1, <1>3, <1>10, <1>11, <1>12, <1>13, <1>14 DEF Lined

\* All are taken out: those of L, in which the live ones are.
Empties(nx, skip, k, L, nx2, skip2) ==
    /\ Live(skip, k) \subseteq L
    /\ nx2[0] = -1 /\ skip2[0] = skip[0]
    /\ \A x \in 1 .. k : IF x \in L THEN nx2[x] = 0 /\ skip2[x] = TRUE
                         ELSE nx2[x] = nx[x] /\ skip2[x] = skip[x]

LEMMA Emptied ==
    ASSUME NEW nx, NEW pv, NEW skip, NEW k, NEW t, Lined(nx, pv, skip, k, t),
           NEW nx2, NEW pv2, NEW skip2, NEW L, Empties(nx, skip, k, L, nx2, skip2)
    PROVE  Lined(nx2, pv2, skip2, k, 0) /\ Live(skip2, k) = {}
<1> PICK B : B = Live(skip2, k)
  OBVIOUS
<1>1. /\ k \in Nat /\ nx2[0] = -1 /\ skip2[0] = FALSE /\ \A x \in 1 .. k : skip[x] \in BOOLEAN
      /\ \A x \in 1 .. k : IF x \in L THEN nx2[x] = 0 /\ skip2[x] = TRUE
                           ELSE nx2[x] = nx[x] /\ skip2[x] = skip[x]
      /\ \A x \in 1 .. k : ~skip[x] => x \in L
  BY DEF Empties, Lined, Live
<1>2. \A x \in 1 .. k : skip2[x] = TRUE
  BY <1>1
<1>3. B = {}
  BY <1>2 DEF Live
<1>4. \A y \in 1 .. k : skip[y] => nx[y] \in 0 .. y - 1
  BY DEF Lined, Sent
<1>5. ASSUME NEW y \in 1 .. k PROVE nx2[y] \in 0 .. y - 1
  BY <1>1, <1>4
<1>6. Sent(nx2, skip2, k)
  BY <1>3, <1>5 DEF Sent
<1>7. Onward(nx2, skip2, k) /\ Back(pv2, skip2, k) /\ LastLive(skip2, k, 0)
  BY <1>1, <1>3 DEF Onward, Back, LastLive, Stops
<1> QED BY <1>1, <1>2, <1>3, <1>6, <1>7 DEF Lined

\* A walk from the head along nx comes past every live entry.
Follow(at, nx, k) ==
    at[0] = 0 /\ \A n \in Nat : n > 0 => at[n] = IF at[n - 1] = -1 THEN -1 ELSE nx[at[n - 1]]

LEMMA AllFollowed ==
    ASSUME NEW nx, NEW pv, NEW skip, NEW k, NEW t, Lined(nx, pv, skip, k, t),
           NEW at, Follow(at, nx, k), NEW e, e \in Live(skip, k)
    PROVE  \E n \in 1 .. k + 1 : at[n] = e
<1> SUFFICES ASSUME \A n \in 1 .. k + 1 : at[n] # e PROVE FALSE
  OBVIOUS
<1> PICK A : A = Live(skip, k)
  OBVIOUS
<1>1. k \in Nat /\ e \in A /\ A \subseteq 1 .. k /\ e \in 1 .. k
  BY DEF Lined, Live
<1>2. \A y \in A \cup {0} : /\ nx[y] # -1 => nx[y] \in A /\ nx[y] > y
                            /\ \A x \in A : x > y => nx[y] # -1 /\ nx[y] <= x
  BY DEF Lined, Onward, Stops
<1>3. at[0] = 0 /\ \A n \in Nat : at[n + 1] = IF at[n] = -1 THEN -1 ELSE nx[at[n]]
  <2>1. ASSUME NEW n \in Nat PROVE at[n + 1] = IF at[n] = -1 THEN -1 ELSE nx[at[n]]
    BY DEF Follow
  <2> QED BY <2>1 DEF Follow
<1> DEFINE T == {n \in Nat : n <= k + 1 => at[n] \in A \cup {0} /\ at[n] < e /\ at[n] >= n}
<1>4. 0 \in T
  BY <1>1, <1>3
<1>5. ASSUME NEW n \in Nat, n \in T PROVE n + 1 \in T
  <2> SUFFICES ASSUME n + 1 <= k + 1
               PROVE  at[n + 1] \in A \cup {0} /\ at[n + 1] < e /\ at[n + 1] >= n + 1
    OBVIOUS
  <2>1. n <= k + 1 /\ n + 1 \in 1 .. k + 1
    BY <1>1
  <2>2. at[n] \in A \cup {0} /\ at[n] < e /\ at[n] >= n /\ at[n] \in 0 .. k
    BY <1>1, <1>5, <2>1
  <2>3. at[n + 1] = nx[at[n]]
    BY <1>3, <2>2
  <2>4. nx[at[n]] # -1 /\ nx[at[n]] <= e /\ nx[at[n]] \in A /\ nx[at[n]] > at[n]
    BY <1>1, <1>2, <2>2
  <2>5. at[n + 1] # e
    BY <2>1
  <2>6. at[n + 1] \in Int /\ at[n + 1] \in A /\ at[n + 1] <= e /\ at[n + 1] > at[n]
    BY <1>1, <2>3, <2>4
  <2> QED BY <1>1, <2>2, <2>5, <2>6
<1>6. Nat \subseteq T
  <2> HIDE DEF T
  <2> QED BY <1>4, <1>5, Induction
<1>7. k + 1 \in Nat /\ k + 1 \in T
  BY <1>1, <1>6
<1>8. at[k + 1] < e /\ at[k + 1] >= k + 1 /\ at[k + 1] \in 0 .. k
  BY <1>1, <1>7
<1> QED BY <1>1, <1>8

-----------------------------------------------------------------------------
(* A walk: the entry it stands at, the keys it has given, and those that   *)
(* have stayed since it started.                                           *)

\* The used entries that stayed are given as soon as the walk is at them, once.
Walked(ky, U, k, cur, giv, stay) ==
    /\ cur \in -1 .. k /\ giv \in Seq(Keys)
    /\ \A q \in stay : \E e \in U : ky[e] = q
    /\ \A e \in U : ky[e] \in stay =>
          /\ (\E n \in DOMAIN giv : giv[n] = ky[e]) <=> (cur = -1 \/ e <= cur)
          /\ \A m, n \in DOMAIN giv : giv[m] = ky[e] /\ giv[n] = ky[e] => m = n

Walks(nx, pv, skip, ky, U, k, t, cur, giv, stay) ==
    Lined(nx, pv, skip, k, t) /\ U = Live(skip, k) /\ Walked(ky, U, k, cur, giv, stay)

KeysApart(ky, U) == \A e, f \in U : ky[e] \in Keys /\ (ky[e] = ky[f] => e = f)

LEMMA WalkDropped ==
    ASSUME NEW nx, NEW pv, NEW skip, NEW ky, NEW U, NEW k, NEW t, NEW cur, NEW giv, NEW stay,
           Walks(nx, pv, skip, ky, U, k, t, cur, giv, stay),
           NEW nx2, NEW pv2, NEW skip2, NEW e, Drops1(nx, pv, skip, k, e, nx2, pv2, skip2),
           NEW u, u = IF t = e THEN pv[e] ELSE t,
           NEW ky2, \A x \in U : x # e => ky2[x] = ky[x],
           NEW stay2, stay2 = stay \ {ky[e]}, NEW V, V = U \ {e}
    PROVE  Walks(nx2, pv2, skip2, ky2, V, k, u, cur, giv, stay2)
<1>1. Lined(nx, pv, skip, k, t) /\ U = Live(skip, k) /\ Walked(ky, U, k, cur, giv, stay)
  BY DEF Walks
<1>2. Lined(nx2, pv2, skip2, k, u) /\ Live(skip2, k) = V
  BY <1>1, Unhooked
<1>3. /\ cur \in -1 .. k /\ giv \in Seq(Keys)
      /\ \A q \in stay : \E x \in U : ky[x] = q
      /\ \A x \in U : ky[x] \in stay =>
            /\ (\E n \in DOMAIN giv : giv[n] = ky[x]) <=> (cur = -1 \/ x <= cur)
            /\ \A m, n \in DOMAIN giv : giv[m] = ky[x] /\ giv[n] = ky[x] => m = n
  BY <1>1 DEF Walked
<1>4. \A q \in stay2 : \E x \in V : ky2[x] = q
  <2>1. ASSUME NEW q \in stay2 PROVE \E x \in V : ky2[x] = q
    <3>1. PICK x \in U : ky[x] = q
      BY <1>3
    <3>2. x # e
      BY <3>1
    <3> QED BY <3>1, <3>2
  <2> QED BY <2>1
<1>5. \A x \in V : x \in U /\ ky2[x] = ky[x] /\ (ky2[x] \in stay2 => ky[x] \in stay)
  OBVIOUS
<1>6. \A x \in V : ky2[x] \in stay2 =>
            /\ (\E n \in DOMAIN giv : giv[n] = ky2[x]) <=> (cur = -1 \/ x <= cur)
            /\ \A m, n \in DOMAIN giv : giv[m] = ky2[x] /\ giv[n] = ky2[x] => m = n
  BY <1>3, <1>5
<1>7. Walked(ky2, V, k, cur, giv, stay2)
  BY <1>3, <1>4, <1>6 DEF Walked
<1> QED BY <1>2, <1>7 DEF Walks

LEMMA WalkExtended ==
    ASSUME NEW nx, NEW pv, NEW skip, NEW ky, NEW U, NEW k, NEW t, NEW cur, NEW giv, NEW stay,
           Walks(nx, pv, skip, ky, U, k, t, cur, giv, stay),
           NEW nx2, NEW pv2, NEW skip2, NEW l, Extends(nx, pv, skip, k, t, nx2, pv2, skip2, l),
           NEW ky2, \A x \in U : ky2[x] = ky[x] /\ ky2[l] # ky[x],
           NEW V, V = U \cup {l}
    PROVE  Walks(nx2, pv2, skip2, ky2, V, l, l, cur, giv, stay)
<1>1. Lined(nx, pv, skip, k, t) /\ U = Live(skip, k) /\ Walked(ky, U, k, cur, giv, stay)
  BY DEF Walks
<1>2. Lined(nx2, pv2, skip2, l, l) /\ Live(skip2, l) = V
  BY <1>1, Extended
<1>3. /\ cur \in -1 .. k /\ giv \in Seq(Keys)
      /\ \A q \in stay : \E x \in U : ky[x] = q
      /\ \A x \in U : ky[x] \in stay =>
            /\ (\E n \in DOMAIN giv : giv[n] = ky[x]) <=> (cur = -1 \/ x <= cur)
            /\ \A m, n \in DOMAIN giv : giv[m] = ky[x] /\ giv[n] = ky[x] => m = n
  BY <1>1 DEF Walked
<1>4. cur \in -1 .. l
  BY <1>1, <1>3 DEF Lined, Extends
<1>5. \A q \in stay : \E x \in V : ky2[x] = q
  <2>1. ASSUME NEW q \in stay PROVE \E x \in V : ky2[x] = q
    <3>1. PICK x \in U : ky[x] = q
      BY <1>3
    <3> QED BY <3>1
  <2> QED BY <2>1
<1>6. ky2[l] \notin stay
  BY <1>3
<1>7. ASSUME NEW x \in V, ky2[x] \in stay
      PROVE  /\ (\E n \in DOMAIN giv : giv[n] = ky2[x]) <=> (cur = -1 \/ x <= cur)
             /\ \A m, n \in DOMAIN giv : giv[m] = ky2[x] /\ giv[n] = ky2[x] => m = n
  BY <1>6, <1>7, <1>3
<1>8. Walked(ky2, V, l, cur, giv, stay)
  BY <1>3, <1>4, <1>5, <1>7 DEF Walked
<1> QED BY <1>2, <1>8 DEF Walks

LEMMA WalkEmptied ==
    ASSUME NEW nx, NEW pv, NEW skip, NEW ky, NEW U, NEW k, NEW t, NEW cur, NEW giv, NEW stay,
           Walks(nx, pv, skip, ky, U, k, t, cur, giv, stay),
           NEW nx2, NEW pv2, NEW skip2, NEW L, Empties(nx, skip, k, L, nx2, skip2), NEW ky2
    PROVE  Walks(nx2, pv2, skip2, ky2, {}, k, 0, cur, giv, {})
BY Emptied DEF Walks, Walked

LEMMA WalkStarted ==
    ASSUME NEW nx, NEW pv, NEW skip, NEW ky, NEW U, NEW k, NEW t, NEW cur, NEW giv, NEW stay,
           Walks(nx, pv, skip, ky, U, k, t, cur, giv, stay),
           NEW stay2, \A q \in stay2 : \E e \in U : ky[e] = q
    PROVE  Walks(nx, pv, skip, ky, U, k, t, 0, <<>>, stay2)
BY DEF Walks, Lined, Live, Walked

\* One turn of the loop.
Turns(nx, skip, ky, cur, giv, cur2, giv2) ==
    /\ cur # -1 /\ cur2 = nx[cur]
    /\ giv2 = IF skip[cur] \/ nx[cur] = -1 THEN giv ELSE Append(giv, ky[nx[cur]])

LEMMA AppendedOne ==
    ASSUME NEW X, NEW s \in Seq(X), NEW x \in X, NEW r, r = Append(s, x)
    PROVE  /\ r \in Seq(X) /\ Len(s) \in Nat /\ DOMAIN s = 1 .. Len(s)
           /\ DOMAIN r = 1 .. Len(s) + 1 /\ r[Len(s) + 1] = x
           /\ \A n \in 1 .. Len(s) : r[n] = s[n]
OBVIOUS

LEMMA WalkTurned ==
    ASSUME NEW nx, NEW pv, NEW skip, NEW ky, NEW U, NEW k, NEW t, NEW cur, NEW giv, NEW stay,
           Walks(nx, pv, skip, ky, U, k, t, cur, giv, stay), KeysApart(ky, U),
           NEW cur2, NEW giv2, Turns(nx, skip, ky, cur, giv, cur2, giv2)
    PROVE  Walks(nx, pv, skip, ky, U, k, t, cur2, giv2, stay)
<1>1. Lined(nx, pv, skip, k, t) /\ U = Live(skip, k) /\ k \in Nat /\ skip[0] = FALSE
      /\ \A e \in 1 .. k : skip[e] \in BOOLEAN
  BY DEF Walks, Lined
<1>2. U \subseteq 1 .. k /\ \A x \in 1 .. k : x \in U <=> ~skip[x]
  BY <1>1 DEF Live
<1>3. /\ cur \in -1 .. k /\ giv \in Seq(Keys)
      /\ \A q \in stay : \E x \in U : ky[x] = q
      /\ \A x \in U : ky[x] \in stay =>
            /\ (\E n \in DOMAIN giv : giv[n] = ky[x]) <=> (cur = -1 \/ x <= cur)
            /\ \A m, n \in DOMAIN giv : giv[m] = ky[x] /\ giv[n] = ky[x] => m = n
  BY DEF Walks, Walked
<1>4. /\ \A y \in U \cup {0} : /\ nx[y] # -1 => nx[y] \in U /\ nx[y] > y
                               /\ \A x \in U : x > y => nx[y] # -1 /\ nx[y] <= x
      /\ \A y \in 1 .. k : skip[y] => /\ nx[y] \in 0 .. y - 1
                                      /\ \A x \in U : x < y => x <= nx[y]
  BY <1>1 DEF Lined, Onward, Sent, Stops
<1>5. cur \in 0 .. k /\ cur2 = nx[cur]
  BY <1>1, <1>3 DEF Turns
<1> SUFFICES Walked(ky, U, k, cur2, giv2, stay)
  BY <1>1 DEF Walks
<1>6. CASE cur # 0 /\ skip[cur]
  <2>1. giv2 = giv /\ cur \in 1 .. k /\ cur \notin U
    BY <1>1, <1>2, <1>5, <1>6 DEF Turns
  <2>2. cur2 \in 0 .. cur - 1 /\ \A x \in U : x < cur => x <= cur2
    BY <1>4, <1>5, <1>6, <2>1
  <2>3. cur2 \in -1 .. k /\ cur2 # -1 /\ cur # -1
    BY <1>1, <1>5, <2>2
  <2>4. ASSUME NEW x \in U PROVE (cur2 = -1 \/ x <= cur2) <=> (cur = -1 \/ x <= cur)
    BY <1>2, <2>1, <1>5, <2>2, <2>3
  <2> QED BY <1>3, <2>1, <2>3, <2>4 DEF Walked
<1>7. CASE ~(cur # 0 /\ skip[cur])
  <2>1. cur \in U \cup {0} /\ ~skip[cur]
    BY <1>1, <1>2, <1>5, <1>7
  <2>2. CASE nx[cur] = -1
    <3>1. giv2 = giv /\ cur2 = -1
      BY <1>5, <2>2 DEF Turns
    <3>2. ASSUME NEW x \in U PROVE x <= cur
      BY <1>2, <1>4, <2>1, <2>2, <1>5
    <3>3. cur2 \in -1 .. k
      BY <1>1, <3>1
    <3> QED BY <1>3, <3>1, <3>2, <3>3 DEF Walked
  <2>3. CASE nx[cur] # -1
    <3>1. giv2 = Append(giv, ky[cur2]) /\ cur2 \in U /\ cur2 > cur /\ ky[cur2] \in Keys
      BY <1>4, <1>5, <2>1, <2>3 DEF Turns, KeysApart
    <3>2. \A x \in U : x > cur => cur2 <= x
      BY <1>4, <1>5, <2>1
    <3>3. cur2 \in 1 .. k /\ cur2 \in -1 .. k /\ cur2 # -1 /\ cur # -1
      BY <1>1, <1>2, <1>5, <3>1
    <3> PICK N : N = Len(giv)
      OBVIOUS
    <3>4. /\ giv2 \in Seq(Keys) /\ N \in Nat /\ DOMAIN giv = 1 .. N
          /\ DOMAIN giv2 = 1 .. N + 1 /\ giv2[N + 1] = ky[cur2]
          /\ \A n \in 1 .. N : giv2[n] = giv[n]
      BY <1>3, <3>1, AppendedOne
    <3>5. 1 .. N + 1 = (1 .. N) \cup {N + 1} /\ N + 1 \notin 1 .. N
      BY <3>4
    <3>6. ASSUME NEW x \in U, ky[x] \in stay
          PROVE  /\ (\E n \in DOMAIN giv2 : giv2[n] = ky[x]) <=> (cur2 = -1 \/ x <= cur2)
                 /\ \A m, n \in DOMAIN giv2 : giv2[m] = ky[x] /\ giv2[n] = ky[x] => m = n
      <4>0. /\ (\E n \in DOMAIN giv : giv[n] = ky[x]) <=> (cur = -1 \/ x <= cur)
            /\ \A m, n \in DOMAIN giv : giv[m] = ky[x] /\ giv[n] = ky[x] => m = n
        BY <1>3, <3>6
      <4>1. x \in 1 .. k
        BY <1>2
      <4>2. CASE x = cur2
        BY <1>5, <3>1, <3>3, <4>2, <3>4, <4>0, <3>5
      <4>3. CASE x # cur2
        <5>1. ky[cur2] # ky[x]
          BY <3>1, <4>3 DEF KeysApart
        <5>2. x <= cur2 <=> x <= cur
          BY <3>2, <3>3, <4>1, <4>3, <1>5, <3>1
        <5>3. \A n \in DOMAIN giv2 : giv2[n] = ky[x] => n \in DOMAIN giv /\ giv[n] = ky[x]
          BY <3>4, <3>5, <5>1
        <5>4. \A n \in DOMAIN giv : n \in DOMAIN giv2 /\ giv2[n] = giv[n]
          BY <3>4, <3>5
        <5>5. (\E n \in DOMAIN giv2 : giv2[n] = ky[x]) <=> (\E n \in DOMAIN giv : giv[n] = ky[x])
          BY <5>3, <5>4
        <5>6. \A m, n \in DOMAIN giv2 : giv2[m] = ky[x] /\ giv2[n] = ky[x] => m = n
          BY <4>0, <5>3
        <5> QED BY <3>3, <4>0, <5>2, <5>5, <5>6
      <4> QED BY <4>2, <4>3
    <3> QED BY <1>3, <3>3, <3>4, <3>6 DEF Walked
  <2> QED BY <2>2, <2>3
<1> QED BY <1>6, <1>7

\* What IteratesStayers says of a walk.
LEMMA WalkSees ==
    ASSUME NEW nx, NEW pv, NEW skip, NEW ky, NEW U, NEW k, NEW t, NEW cur, NEW giv, NEW stay,
           Walks(nx, pv, skip, ky, U, k, t, cur, giv, stay), NEW q \in stay
    PROVE  /\ \A m, n \in DOMAIN giv : giv[m] = q /\ giv[n] = q => m = n
           /\ cur = -1 => \E n \in DOMAIN giv : giv[n] = q
<1>1. Walked(ky, U, k, cur, giv, stay)
  BY DEF Walks
<1>2. PICK e \in U : ky[e] = q
  BY <1>1 DEF Walked
<1> QED BY <1>1, <1>2 DEF Walked

-----------------------------------------------------------------------------
(* Walks over the entry objects.                                           *)


Walking(ob, U, k, t, cur, giv, stay) ==
    Walks(NextOf(ob, k), PrevOf(ob, k), SkipOf(ob, k), KeyOf(ob, k), U, k, t, cur, giv, stay)

LEMMA UsedApart ==
    ASSUME NEW bk, NEW en, NEW ob, NEW n, NEW m, NEW f, NEW t, NEW c, NEW k,
           Tabled(bk, en, ob, n, m, f, t, c, k)
    PROVE  /\ KeysApart(KeyOf(ob, k), Used(ob, en, n)) /\ UsedIn(ob, en, n) = Used(ob, en, n)
           /\ Used(ob, en, n) \subseteq 1 .. k
<1> PICK H, N, K, Q : H = HashIn(ob, en) /\ N = NextIn(ob, en) /\ K = KeyIn(ob, en) /\ Q = KeyOf(ob, k)
  OBVIOUS
<1>1. Placed(en, n, k) /\ SlotsInv(bk, H, N, K, n, c, m, f)
  BY DEF Tabled
<1>2. n \in Nat /\ Coded(H, K, n) /\ \A i \in 0 .. n - 1 : H[i] >= 0 <=> H[i] # -1
  BY <1>1, SlotTypes
<1>3. ASSUME NEW i \in 0 .. n - 1
      PROVE  /\ H[i] = ob[en[i]].hashCode /\ K[i] = ob[en[i]].key
             /\ en[i] \in 1 .. k /\ en[i] \in 0 .. k
  BY <1>1, <1>2 DEF Placed, HashIn, KeyIn
<1>4. ASSUME NEW i \in 0 .. n - 1 PROVE ~(ob[en[i]].hashCode < 0) <=> ob[en[i]].hashCode # -1
  <2>1. CASE H[i] = -1
    BY <1>3, <2>1
  <2>2. CASE H[i] # -1
    <3>1. H[i] \in Nat
      BY <1>2, <2>2 DEF Coded
    <3> QED BY <1>3, <2>2, <3>1
  <2> QED BY <2>1, <2>2
<1>5. {l \in 0 .. n - 1 : ~(ob[en[l]].hashCode < 0)} = {l \in 0 .. n - 1 : ob[en[l]].hashCode # -1}
  BY <1>4
<1>6. UsedIn(ob, en, n) = Used(ob, en, n)
  BY <1>5 DEF UsedIn, Used
<1>7. ASSUME NEW e \in Used(ob, en, n), NEW f2 \in Used(ob, en, n)
      PROVE  Q[e] \in Keys /\ (Q[e] = Q[f2] => e = f2) /\ e \in 1 .. k
  <2>1. PICK i \in 0 .. n - 1 : e = en[i] /\ ob[en[i]].hashCode # -1
    BY DEF Used
  <2>2. PICK j \in 0 .. n - 1 : f2 = en[j] /\ ob[en[j]].hashCode # -1
    BY DEF Used
  <2>3. Q[e] = K[i] /\ Q[f2] = K[j]
    BY <1>3, <2>1, <2>2 DEF KeyOf
  <2>4. H[i] # -1 /\ H[j] # -1
    BY <1>3, <2>1, <2>2
  <2> QED BY <1>2, <1>3, <2>1, <2>2, <2>3, <2>4 DEF Coded
<1> QED BY <1>6, <1>7 DEF KeysApart

LEMMA UsedFound ==
    ASSUME NEW ob, NEW en, NEW n, n \in Nat, NEW k, Placed(en, n, k), NEW key, NEW i, FoundAs(ob, en, n, key, i)
    PROVE  /\ i = -1 <=> \A e \in Used(ob, en, n) : KeyOf(ob, k)[e] # key
           /\ i # -1 => i \in 0 .. n - 1 /\ en[i] \in Used(ob, en, n) /\ KeyOf(ob, k)[en[i]] = key
<1> PICK H, K, Q : H = HashIn(ob, en) /\ K = KeyIn(ob, en) /\ Q = KeyOf(ob, k)
  OBVIOUS
<1>1. ASSUME NEW j \in 0 .. n - 1
      PROVE  H[j] = ob[en[j]].hashCode /\ K[j] = ob[en[j]].key /\ Q[en[j]] = ob[en[j]].key
  BY DEF Placed, HashIn, KeyIn, KeyOf
<1>2. ASSUME i # -1
      PROVE  i \in 0 .. n - 1 /\ en[i] \in Used(ob, en, n) /\ Q[en[i]] = key
  BY <1>2, <1>1 DEF FoundAs, Used
<1>3. ASSUME i = -1, NEW e \in Used(ob, en, n) PROVE Q[e] # key
  <2>1. NewKey(H, K, n, key)
    BY <1>3 DEF FoundAs
  <2>2. PICK j \in 0 .. n - 1 : e = en[j] /\ ob[en[j]].hashCode # -1
    BY DEF Used
  <2> QED BY <1>1, <2>1, <2>2 DEF NewKey
<1> QED BY <1>2, <1>3

LEMMA WalkingKept ==
    ASSUME NEW ob, NEW U, NEW k, NEW t, NEW cur, NEW giv, NEW stay, Walking(ob, U, k, t, cur, giv, stay),
           NEW o, LinksKept(o, ob, k)
    PROVE  Walking(o, U, k, t, cur, giv, stay)
<1>1. /\ NextOf(o, k) = NextOf(ob, k) /\ PrevOf(o, k) = PrevOf(ob, k)
      /\ SkipOf(o, k) = SkipOf(ob, k) /\ KeyOf(o, k) = KeyOf(ob, k)
  BY DEF LinksKept, NextOf, PrevOf, SkipOf, KeyOf
<1> QED BY <1>1 DEF Walking

\* A new entry object, the last in the list.
LEMMA WalkingPut ==
    ASSUME NEW ob, NEW U, NEW k, NEW t, NEW cur, NEW giv, NEW stay, Walking(ob, U, k, t, cur, giv, stay),
           NEW o, NEW l, l = k + 1, NEW key, NEW value, NEW nx,
           Put(o, ob, k, l, l, key, value, nx, t, -1),
           \A e \in U : KeyOf(ob, k)[e] # key
    PROVE  Walking(o, U \cup {l}, l, l, cur, giv, stay)
<1> PICK NX, PV, SK, KY, NX2, PV2, SK2, KY2 :
       /\ NX = NextOf(ob, k) /\ PV = PrevOf(ob, k) /\ SK = SkipOf(ob, k) /\ KY = KeyOf(ob, k)
       /\ NX2 = NextOf(o, l) /\ PV2 = PrevOf(o, l) /\ SK2 = SkipOf(o, l) /\ KY2 = KeyOf(o, l)
  OBVIOUS
<1>1. Walks(NX, PV, SK, KY, U, k, t, cur, giv, stay)
  BY DEF Walking
<1>2. k \in Nat /\ U \subseteq 1 .. k
  BY <1>1 DEF Walks, Lined, Live
<1>3. \A x \in 0 .. k : x \in 0 .. l /\ x # l
  BY <1>2
<1>4. l \in 0 .. l
  BY <1>2
<1>5. ASSUME NEW x \in 0 .. k
      PROVE  /\ NX2[x] = IF x = t THEN l ELSE NX[x]
             /\ PV2[x] = PV[x] /\ SK2[x] = SK[x] /\ KY2[x] = KY[x]
  BY <1>3 DEF Put, NextOf, PrevOf, SkipOf, KeyOf
<1>6. SK2[l] = FALSE /\ NX2[l] = -1 /\ PV2[l] = t /\ KY2[l] = key
  BY <1>4 DEF Put, NextOf, PrevOf, SkipOf, KeyOf
<1>7. Extends(NX, PV, SK, k, t, NX2, PV2, SK2, l)
  BY <1>5, <1>6 DEF Extends
<1>8. \A x \in U : KY2[x] = KY[x] /\ KY2[l] # KY[x]
  <2>1. \A x \in U : x \in 0 .. k
    BY <1>2
  <2> QED BY <1>5, <1>6, <2>1
<1>9. Walks(NX2, PV2, SK2, KY2, U \cup {l}, l, l, cur, giv, stay)
  BY <1>1, <1>7, <1>8, WalkExtended
<1> QED BY <1>9 DEF Walking

\* An entry is taken out of the list.
LEMMA WalkingUnlinked ==
    ASSUME NEW ob, NEW U, NEW k, NEW t, NEW cur, NEW giv, NEW stay, Walking(ob, U, k, t, cur, giv, stay),
           NEW q, LinksKept(q, ob, k), NEW o, NEW e, e \in U, NEW f, Unlinks(o, q, k, e, f),
           NEW u, u = IF t = e THEN ob[e].prevEntry ELSE t, NEW key, KeyOf(ob, k)[e] = key
    PROVE  Walking(o, U \ {e}, k, u, cur, giv, stay \ {key})
<1> PICK NX, PV, SK, KY, NX2, PV2, SK2, KY2 :
       /\ NX = NextOf(ob, k) /\ PV = PrevOf(ob, k) /\ SK = SkipOf(ob, k) /\ KY = KeyOf(ob, k)
       /\ NX2 = NextOf(o, k) /\ PV2 = PrevOf(o, k) /\ SK2 = SkipOf(o, k) /\ KY2 = KeyOf(o, k)
  OBVIOUS
<1>1. Walks(NX, PV, SK, KY, U, k, t, cur, giv, stay)
  BY DEF Walking
<1>2. k \in Nat /\ U \subseteq 1 .. k /\ U = Live(SK, k)
  BY <1>1 DEF Walks, Lined, Live
<1>3. e \in 0 .. k /\ \A x \in U : x \in 0 .. k
  BY <1>2
<1>4. NX[e] = q[e].nextEntry /\ PV[e] = q[e].prevEntry /\ PV[e] = ob[e].prevEntry
  BY <1>3 DEF LinksKept, NextOf, PrevOf
<1>5. NX2[e] = PV[e] /\ SK2[e] = TRUE
  BY <1>3, <1>4 DEF Unlinks, Freed1, NextOf, SkipOf
<1>6. ASSUME NEW x \in 0 .. k, x # e
      PROVE  /\ NX2[x] = IF x = PV[e] THEN NX[e] ELSE NX[x]
             /\ PV2[x] = IF x = NX[e] THEN PV[e] ELSE PV[x]
             /\ SK2[x] = SK[x] /\ KY2[x] = KY[x]
  <2>1. /\ o[x].nextEntry = IF x = PV[e] THEN NX[e] ELSE q[x].nextEntry
        /\ o[x].prevEntry = IF x = NX[e] THEN PV[e] ELSE q[x].prevEntry
        /\ o[x].skipNextEntry = q[x].skipNextEntry /\ o[x].key = q[x].key
    BY <1>4, <1>6 DEF Unlinks, Linked1
  <2>2. /\ NX[x] = q[x].nextEntry /\ PV[x] = q[x].prevEntry /\ SK[x] = q[x].skipNextEntry
        /\ KY[x] = q[x].key
    BY DEF LinksKept, NextOf, PrevOf, SkipOf, KeyOf
  <2>3. /\ NX2[x] = o[x].nextEntry /\ PV2[x] = o[x].prevEntry /\ SK2[x] = o[x].skipNextEntry
        /\ KY2[x] = o[x].key
    BY DEF NextOf, PrevOf, SkipOf, KeyOf
  <2> QED BY <2>1, <2>2, <2>3
<1>7. Drops1(NX, PV, SK, k, e, NX2, PV2, SK2)
  BY <1>2, <1>5, <1>6 DEF Drops1
<1>8. u = IF t = e THEN PV[e] ELSE t
  BY <1>4
<1>9. \A x \in U : x # e => KY2[x] = KY[x]
  BY <1>3, <1>6
<1>10. Walks(NX2, PV2, SK2, KY2, U \ {e}, k, u, cur, giv, stay \ {KY[e]})
  BY <1>1, <1>7, <1>8, <1>9, WalkDropped
<1> QED BY <1>10 DEF Walking

ListTrail(ob) ==
    CHOOSE at : at = [n \in Nat |-> IF n = 0 THEN 0
                                    ELSE IF at[n - 1] = -1 THEN -1 ELSE ob[at[n - 1]].nextEntry]

LEMMA ListTrailFollows ==
    ASSUME NEW k, k \in Nat, NEW ob, ob \in Objects(k)
    PROVE  Follow(ListTrail(ob), NextOf(ob, k), k)
<1> DEFINE rec(at) == [n \in Nat |-> IF n = 0 THEN 0
                                     ELSE IF at[n - 1] = -1 THEN -1 ELSE ob[at[n - 1]].nextEntry]
<1> PICK C, nx : C = -1 .. k /\ nx = NextOf(ob, k)
  OBVIOUS
<1>1. \A x \in C : x # -1 => x \in 0 .. k /\ nx[x] = ob[x].nextEntry /\ nx[x] \in C
  <2>1. ASSUME NEW x \in C, x # -1 PROVE x \in 0 .. k /\ nx[x] = ob[x].nextEntry /\ nx[x] \in C
    BY <2>1, ObjectsAre, EntryTyped DEF NextOf
  <2> QED BY <2>1
<1>2. 0 \in C /\ -1 \in C
  OBVIOUS
<1> DEFINE g == [x \in C |-> IF x = -1 THEN -1 ELSE nx[x]]
<1>3. g \in [C -> C] /\ \A x \in C : g[x] = IF x = -1 THEN -1 ELSE nx[x]
  BY <1>1, <1>2
<1> HIDE DEF g
<1>4. PICK f \in [Nat -> C] : f[0] = 0 /\ \A n \in Nat : f[n + 1] = g[f[n]]
  <2>1. Unfolds(C, 0, g)
    BY <1>2, <1>3, Unfolded
  <2> QED BY <2>1 DEF Unfolds
<1>5. f = rec(f)
  <2>1. ASSUME NEW n \in Nat
        PROVE  f[n] = IF n = 0 THEN 0 ELSE IF f[n - 1] = -1 THEN -1 ELSE ob[f[n - 1]].nextEntry
    <3>1. CASE n = 0
      BY <1>4, <3>1
    <3>2. CASE n # 0
      <4>1. n - 1 \in Nat /\ (n - 1) + 1 = n
        BY <3>2
      <4>2. f[n] = g[f[n - 1]] /\ f[n - 1] \in C
        BY <1>4, <4>1
      <4>3. CASE f[n - 1] = -1
        BY <1>3, <3>2, <4>2, <4>3
      <4>4. CASE f[n - 1] # -1
        <5>1. g[f[n - 1]] = nx[f[n - 1]]
          BY <1>3, <4>2, <4>4
        <5>2. nx[f[n - 1]] = ob[f[n - 1]].nextEntry
          BY <1>1, <4>2, <4>4, Zenon
        <5> QED BY <3>2, <4>2, <4>4, <5>1, <5>2
      <4> QED BY <4>3, <4>4
    <3> QED BY <3>1, <3>2
  <2> QED BY <1>4, <2>1
<1> HIDE DEF rec
<1>6. PICK at : at = ListTrail(ob) /\ at = rec(at)
  BY <1>5 DEF ListTrail, rec
<1>7. \A n \in Nat : at[n] = IF n = 0 THEN 0
                             ELSE IF at[n - 1] = -1 THEN -1 ELSE ob[at[n - 1]].nextEntry
  BY <1>6 DEF rec
<1>8. at[0] = 0
  BY <1>7
<1> DEFINE T == {n \in Nat : at[n] \in C}
<1>9. Nat \subseteq T
  <2>1. 0 \in T
    BY <1>2, <1>8
  <2>2. ASSUME NEW n \in Nat, n \in T PROVE n + 1 \in T
    <3>1. n + 1 \in Nat /\ n + 1 # 0 /\ (n + 1) - 1 = n /\ at[n] \in C
      BY <2>2
    <3>2. at[n + 1] = IF at[n] = -1 THEN -1 ELSE ob[at[n]].nextEntry
      BY <1>7, <3>1
    <3> QED BY <1>1, <1>2, <3>1, <3>2
  <2> HIDE DEF T
  <2> QED BY <2>1, <2>2, Induction
<1>10. ASSUME NEW n \in Nat, n > 0 PROVE at[n] = IF at[n - 1] = -1 THEN -1 ELSE nx[at[n - 1]]
  <2>1. n - 1 \in Nat /\ at[n - 1] \in C
    BY <1>9, <1>10
  <2>2. at[n] = IF at[n - 1] = -1 THEN -1 ELSE ob[at[n - 1]].nextEntry
    <3>1. n # 0
      BY <1>10
    <3> QED BY <1>7, <3>1
  <2>3. at[n - 1] # -1 => nx[at[n - 1]] = ob[at[n - 1]].nextEntry
    BY <1>1, <2>1
  <2> QED BY <2>2, <2>3
<1> QED BY <1>6, <1>8, <1>10 DEF Follow

\* The loop of clear() comes past all that are used.
LEMMA AllListed ==
    ASSUME NEW k, k \in Nat, object \in Objects(k), NEW U, NEW t, NEW cur, NEW giv, NEW stay,
           Walking(object, U, k, t, cur, giv, stay)
    PROVE  U \subseteq Table!Range(Table!Listed)
<1> PICK at, nx, pv, skip, L : /\ at = ListTrail(object) /\ nx = NextOf(object, k) /\ pv = PrevOf(object, k)
                               /\ skip = SkipOf(object, k) /\ L = Table!Listed
  OBVIOUS
<1>1. Lined(nx, pv, skip, k, t) /\ U = Live(skip, k)
  BY DEF Walking, Walks
<1>2. Follow(at, nx, k)
  BY ListTrailFollows
<1>3. DOMAIN object = 0 .. k
  BY DEF Objects
<1>4. L = [n \in 0 .. k |-> at[n + 1]]
  BY <1>3 DEF Table!Listed, ListTrail, Table!HeadEntry, Table!Nothing
<1>5. ASSUME NEW e \in U PROVE e \in Table!Range(L)
  <2>1. PICK n \in 1 .. k + 1 : at[n] = e
    BY <1>1, <1>2, AllFollowed
  <2>2. n - 1 \in 0 .. k /\ (n - 1) + 1 = n
    BY <2>1
  <2>3. L[n - 1] = e /\ n - 1 \in DOMAIN L
    BY <1>4, <2>1, <2>2
  <2> QED BY <2>3 DEF Table!Range
<1> QED BY <1>5

LEMMA ClearedFields ==
    ASSUME NEW k, NEW r, r \in EntryTypes(k)
    PROVE  /\ [r EXCEPT !.nextEntry = -1].nextEntry = -1
           /\ [r EXCEPT !.nextEntry = -1].skipNextEntry = r.skipNextEntry
           /\ [r EXCEPT !.prevEntry = -1, !.nextEntry = 0, !.skipNextEntry = TRUE].nextEntry = 0
           /\ [r EXCEPT !.prevEntry = -1, !.nextEntry = 0, !.skipNextEntry = TRUE].skipNextEntry = TRUE
BY DEF EntryTypes

LEMMA WalkingCleared ==
    ASSUME NEW k, k \in Nat, NEW ob, ob \in Objects(k), NEW U, NEW t, NEW cur, NEW giv, NEW stay,
           Walking(ob, U, k, t, cur, giv, stay), NEW L, U \subseteq L,
           NEW o, o = ClearedObjects(ob, 0 .. k, L)
    PROVE  Walking(o, {}, k, 0, cur, giv, {})
<1> PICK NX, PV, SK, KY, NX2, PV2, SK2, KY2 :
       /\ NX = NextOf(ob, k) /\ PV = PrevOf(ob, k) /\ SK = SkipOf(ob, k) /\ KY = KeyOf(ob, k)
       /\ NX2 = NextOf(o, k) /\ PV2 = PrevOf(o, k) /\ SK2 = SkipOf(o, k) /\ KY2 = KeyOf(o, k)
  OBVIOUS
<1>1. Walks(NX, PV, SK, KY, U, k, t, cur, giv, stay)
  BY DEF Walking
<1>2. Live(SK, k) \subseteq L
  BY <1>1 DEF Walks
<1>3. ASSUME NEW x \in 0 .. k
      PROVE  /\ x = 0 => NX2[x] = -1 /\ SK2[x] = SK[x]
             /\ x # 0 /\ x \in L => NX2[x] = 0 /\ SK2[x] = TRUE
             /\ x # 0 /\ x \notin L => NX2[x] = NX[x] /\ SK2[x] = SK[x]
  <2>1. PICK r : r = ob[x] /\ r \in EntryTypes(k)
    BY ObjectsAre
  <2>2. /\ NX[x] = r.nextEntry /\ SK[x] = r.skipNextEntry
        /\ NX2[x] = o[x].nextEntry /\ SK2[x] = o[x].skipNextEntry
    BY <2>1 DEF NextOf, SkipOf
  <2>3. o[x] = IF x = 0 THEN [r EXCEPT !.nextEntry = -1]
               ELSE IF x \in L THEN [r EXCEPT !.prevEntry = -1, !.nextEntry = 0, !.skipNextEntry = TRUE]
               ELSE r
    BY <2>1 DEF ClearedObjects
  <2>4. CASE x = 0
    <3>1. o[x] = [r EXCEPT !.nextEntry = -1]
      BY <2>3, <2>4
    <3>2. /\ [r EXCEPT !.nextEntry = -1].nextEntry = -1
          /\ [r EXCEPT !.nextEntry = -1].skipNextEntry = r.skipNextEntry
      BY <2>1, ClearedFields
    <3>3. NX2[x] = -1 /\ SK2[x] = SK[x]
      BY <2>2, <3>1, <3>2
    <3> QED BY <2>4, <3>3
  <2>5. CASE x # 0 /\ x \in L
    <3>1. o[x] = [r EXCEPT !.prevEntry = -1, !.nextEntry = 0, !.skipNextEntry = TRUE]
      BY <2>3, <2>5
    <3>2. /\ [r EXCEPT !.prevEntry = -1, !.nextEntry = 0, !.skipNextEntry = TRUE].nextEntry = 0
          /\ [r EXCEPT !.prevEntry = -1, !.nextEntry = 0, !.skipNextEntry = TRUE].skipNextEntry = TRUE
      BY <2>1, ClearedFields
    <3>3. NX2[x] = 0 /\ SK2[x] = TRUE
      BY <2>2, <3>1, <3>2
    <3> QED BY <2>5, <3>3
  <2>6. CASE x # 0 /\ x \notin L
    BY <2>2, <2>3, <2>6
  <2> QED BY <2>4, <2>5, <2>6
<1>4. 0 \in 0 .. k /\ \A x \in 1 .. k : x \in 0 .. k /\ x # 0
  OBVIOUS
<1>5. Empties(NX, SK, k, L, NX2, SK2)
  BY <1>2, <1>3, <1>4 DEF Empties
<1>6. Walks(NX2, PV2, SK2, KY2, {}, k, 0, cur, giv, {})
  BY <1>1, <1>5, WalkEmptied
<1> QED BY <1>6 DEF Walking

LEMMA WalkingStarted ==
    ASSUME NEW ob, NEW U, NEW k, NEW t, NEW cur, NEW giv, NEW stay, Walking(ob, U, k, t, cur, giv, stay),
           NEW stay2, \A q \in stay2 : \E e \in U : KeyOf(ob, k)[e] = q
    PROVE  Walking(ob, U, k, t, 0, <<>>, stay2)
<1> PICK NX, PV, SK, KY :
       NX = NextOf(ob, k) /\ PV = PrevOf(ob, k) /\ SK = SkipOf(ob, k) /\ KY = KeyOf(ob, k)
  OBVIOUS
<1>1. Walks(NX, PV, SK, KY, U, k, t, cur, giv, stay)
  BY DEF Walking
<1>2. Walks(NX, PV, SK, KY, U, k, t, 0, <<>>, stay2)
  BY <1>1, WalkStarted
<1> QED BY <1>2 DEF Walking

LEMMA WalkingTurned ==
    ASSUME NEW k, k \in Nat, NEW ob, ob \in Objects(k), NEW U, NEW t, NEW cur, NEW giv, NEW stay,
           Walking(ob, U, k, t, cur, giv, stay), KeysApart(KeyOf(ob, k), U), cur # -1,
           NEW cur2, cur2 = ob[cur].nextEntry,
           NEW giv2, giv2 = IF ob[cur].skipNextEntry \/ cur2 = -1 THEN giv ELSE Append(giv, ob[cur2].key)
    PROVE  Walking(ob, U, k, t, cur2, giv2, stay)
<1> PICK NX, PV, SK, KY :
       NX = NextOf(ob, k) /\ PV = PrevOf(ob, k) /\ SK = SkipOf(ob, k) /\ KY = KeyOf(ob, k)
  OBVIOUS
<1>1. Walks(NX, PV, SK, KY, U, k, t, cur, giv, stay) /\ KeysApart(KY, U)
  BY DEF Walking
<1>2. cur \in 0 .. k
  <2>1. cur \in -1 .. k
    BY <1>1 DEF Walks, Walked
  <2> QED BY <2>1
<1>3. cur2 = NX[cur] /\ (ob[cur].skipNextEntry = SK[cur])
  BY <1>2 DEF NextOf, SkipOf
<1>4. cur2 # -1 => cur2 \in 0 .. k /\ ob[cur2].key = KY[cur2]
  BY <1>2, ObjectsAre, EntryTyped DEF KeyOf
<1>5. Turns(NX, SK, KY, cur, giv, cur2, giv2)
  BY <1>3, <1>4 DEF Turns
<1>6. Walks(NX, PV, SK, KY, U, k, t, cur2, giv2, stay)
  BY <1>1, <1>5, WalkTurned
<1> QED BY <1>6 DEF Walking

-----------------------------------------------------------------------------
(* HashMap *)

Contained == Contents(object, entries, size)

\* What each step does to the pairs in the table.
Steps(V) ==
    \/ \E key \in Keys : \E value \in V : Contained' = Without(Contained, key) \cup {<<key, value>>}
    \/ \E key \in Keys : Contained' = Without(Contained, key)
    \/ Contained' = {}
    \/ Contained' = Contained

LEMMA TableGoesOn ==
    ASSUME TableInv, UNCHANGED Table!hashData PROVE TableInv' /\ Contained' = Contained
<1>1. PICK c, k : Tabled(buckets, entries, object, size, freeSize, freeList, tail, c, k)
  BY DEF TableInv
<1>2. UNCHANGED <<buckets, entries, object, size, freeSize, freeList, tail>>
  BY DEF Table!hashData
<1>3. Tabled(buckets', entries', object', size', freeSize', freeList', tail', c, k)
  BY <1>1, <1>2
<1>4. TableInv'
  BY <1>3 DEF TableInv, TablesAreGiven
<1> QED BY <1>2, <1>4 DEF Contained

TableGone(V) == TableInv' /\ Steps(V)

\* What the methods of a map and of a set do, whose values are in V.
Moves(V) ==
    \/ \E key \in Keys : Table!remove(key) \/ \E value \in V : Table!put(key, value)
    \/ Table!clearEntries
    \/ \E capacity \in Primes : Table!ensureCapacity(capacity)
    \/ \E capacity \in Primes \cup {size - freeSize} : Table!trimExcessEntries(capacity)
    \/ Table!iterateEntries \/ Table!iterateOn \/ UNCHANGED Table!hashVars

LEMMA MapMoves == Table!Next \/ UNCHANGED Table!hashVars => Moves(Values)
BY DEF Table!Next, Table!Set, Table!Delete, Table!Clear, Table!EnsureCapacity, Table!TrimExcess, Table!Size,
       Table!Iterate, Table!IterateNext, Moves

LEMMA SetMoves == Table!SetNext \/ UNCHANGED Table!hashVars => Moves(Keys)
BY DEF Table!SetNext, Table!Add, Table!TryAdd, Table!DeleteValue, Table!ClearValues, Table!EnsureCapacityOfSet,
       Table!TrimExcessOfSet, Table!Size, Table!IterateValues, Table!IterateNextValue, Moves

LEMMA ValuesTyped == Keys \subseteq TypedValues /\ Values \subseteq TypedValues
BY DEF TypedValues

LEMMA TableMoves ==
    ASSUME TableInv, NEW V, V \subseteq TypedValues, Moves(V) PROVE TableGone(V)
<1>1. ASSUME NEW key \in Keys, Table!remove(key) PROVE TableGone(V)
  <2>1. TableInv' /\ Deleted(key)
    BY <1>1, DeleteIs DEF Table!remove
  <2> QED BY <2>1 DEF Deleted, Steps, Contained, TableGone
<1>2. ASSUME NEW key \in Keys, NEW value \in V, Table!put(key, value) PROVE TableGone(V)
  <2>1. TableInv' /\ Stored(key, value)
    BY <1>2, StoreIs
  <2> QED BY <2>1 DEF Stored, Steps, Contained, TableGone
<1>3. CASE Table!clearEntries
  BY <1>3, ClearIs DEF Steps, Contained, TableGone
<1>4. CASE \/ \E capacity \in Primes : Table!ensureCapacity(capacity)
           \/ \E capacity \in Primes \cup {size - freeSize} : Table!trimExcessEntries(capacity)
  <2>1. TableInv' /\ Unchanged1
    BY <1>4, EnsureIs, TrimIs
  <2> QED BY <2>1 DEF Unchanged1, Steps, Contained, TableGone
<1>5. CASE Table!iterateEntries \/ Table!iterateOn \/ UNCHANGED Table!hashVars
  <2>1. UNCHANGED Table!hashData
    BY <1>5 DEF Table!iterateEntries, Table!iterateOn, Table!hashVars
  <2> QED BY <2>1, TableGoesOn DEF Steps, TableGone
<1> QED BY <1>1, <1>2, <1>3, <1>4, <1>5 DEF Moves

TableIsMapped == TableMap = Mapped(Contained)

LEMMA MapGoesOn == TableInv => TableIsMapped
BY MappedIs DEF Contained, TableIsMapped

LEMMA MapWentOn == TableInv' => TableIsMapped'
BY MapGoesOn, PTL

MapGoes(V) ==
    \/ \E key \in Keys : Table!Map!Delete(key) \/ \E value \in V : Table!Map!Set(key, value)
    \/ Table!Map!Clear
    \/ UNCHANGED TableMap

LEMMA MapSteps ==
    ASSUME NEW V, Steps(V), TableMap = Mapped(Contained), TableMap' = Mapped(Contained')
    PROVE  MapGoes(V)
<1> PICK C, D, m, n : C = Contained /\ D = Contained' /\ m = Mapped(C) /\ n = Mapped(D)
  OBVIOUS
<1>1. TableMap = m /\ TableMap' = n
  OBVIOUS
<1>2. ASSUME NEW key \in Keys, NEW value \in V, D = Without(C, key) \cup {<<key, value>>}
      PROVE  MapGoes(V)
  <2>1. Puts(m, n, key, value)
    BY <1>2, MappedStored
  <2>2. Table!Map!Set(key, value)
    BY <1>1, <2>1 DEF Table!Map!Set, TableMap, Puts
  <2> QED BY <2>2 DEF MapGoes
<1>3. ASSUME NEW key \in Keys, D = Without(C, key) PROVE MapGoes(V)
  <2>1. Drops(m, n, key)
    BY <1>3, MappedDeleted
  <2>2. Table!Map!Delete(key)
    BY <1>1, <2>1 DEF Table!Map!Delete, Table!Map!Restrict, TableMap, Drops
  <2> QED BY <2>2 DEF MapGoes
<1>4. CASE D = {}
  <2>1. Table!Map!Clear
    BY <1>4, MappedEmpty, <1>1 DEF Table!Map!Clear, Table!Map!Restrict, TableMap
  <2> QED BY <2>1 DEF MapGoes
<1>5. CASE D = C
  BY <1>1, <1>5 DEF MapGoes
<1> QED BY <1>2, <1>3, <1>4, <1>5 DEF Steps

\* What the methods do to the map.
LEMMA MapFollows ==
    ASSUME TableInv, NEW V, V \subseteq TypedValues, Moves(V) PROVE TableInv' /\ MapGoes(V)
<1>1. TableInv' /\ Steps(V)
  BY TableMoves DEF TableGone
<1>2. TableMap = Mapped(Contained) /\ TableMap' = Mapped(Contained')
  BY <1>1, MapGoesOn, MapWentOn DEF TableIsMapped
<1> QED BY <1>1, <1>2, MapSteps

\* Through growing, trimming and clearing, the free list of a hash table holds each freed
\* place once and no other, and as many keys are found as its size says (HashMap.TypeOK).
THEOREM TablesAreTyped == ASSUME TablesAreGiven PROVE Table!Spec => []Table!TypeOK
<1>1. Table!Construct => TableInv
  BY TableStarts
<1>2. TableInv /\ [Table!Next]_Table!hashVars => TableInv'
  BY MapMoves, TableMoves, ValuesTyped DEF TableGone
<1>3. TableInv => Table!TypeOK
  BY TableTypes
<1> QED BY <1>1, <1>2, <1>3, PTL DEF Table!Spec

\* The hash table of HashMap is a map, in which growing, trimming and iterating change
\* nothing (HashMap.ImplementsMap).
THEOREM HashTablesAreMaps == ASSUME TablesAreGiven PROVE Table!Spec => Table!ImplementsMap
<1>1. Table!Construct => TableInv
  BY TableStarts
<1>2. Table!Construct => Table!Map!Init
  BY TableStarts, MappedIs, MappedEmpty DEF Table!Map!Init, TableMap
<1>3. TableInv /\ [Table!Next]_Table!hashVars => TableInv' /\ MapGoes(Values)
  BY MapMoves, MapFollows, ValuesTyped
<1>4. MapGoes(Values) => [Table!Map!Next]_([key \in {k \in Keys : Table!Has(k)} |-> Table!Get(key)])
  BY DEF MapGoes, Table!Map!Next, TableMap
<1> QED BY <1>1, <1>2, <1>3, <1>4, PTL DEF Table!Spec, Table!ImplementsMap, Table!Map!Spec

-----------------------------------------------------------------------------
(* HashSet *)

LEMMA NewIsTold == TableInv => Table!TellsNew
<1> SUFFICES ASSUME TableInv, NEW value \in Keys, NEW added \in BOOLEAN, Table!TryAdd(value, added)
             PROVE  added = ~Table!HasValue(value)
  BY DEF Table!TellsNew
<1>0. PICK c, k : Tabled(buckets, entries, object, size, freeSize, freeList, tail, c, k)
  BY DEF TableInv
<1>1. size \in Nat /\ freeSize \in Nat
  BY <1>0, TableSizes DEF TableInv
<1>2. added = (Table!Size' > Table!Size) /\ Table!put(value, value)
  BY DEF Table!TryAdd, Table!Add
<1>3. Table!findEntryIndex(value) # -1 <=> Table!HasValue(value)
  <2>1. PICK ob, en, n, i : /\ ob = object /\ en = entries /\ n = size
                            /\ i = Table!findEntryIndex(value)
    OBVIOUS
  <2>2. FoundAs(ob, en, n, value, i)
    BY <1>0, <2>1, FindIs DEF TableInv
  <2>3. i = -1 \/ i \in 0 .. n - 1
    BY <2>2 DEF FoundAs
  <2>4. i # -1 <=> i >= 0
    BY <1>1, <2>1, <2>3
  <2> QED BY <2>1, <2>4 DEF Table!HasValue
<1>4. CASE Table!findEntryIndex(value) # -1 /\ Table!setValue(value, value)
  <2>1. size' = size /\ freeSize' = freeSize
    BY <1>4 DEF Table!setValue
  <2>2. Table!Size' = Table!Size /\ Table!Size \in Int
    BY <1>1, <2>1 DEF Table!Size
  <2>3. ~(Table!Size' > Table!Size)
    <3>1. PICK m, n : m = Table!Size /\ n = Table!Size'
      OBVIOUS
    <3>2. m \in Int /\ n = m
      BY <2>2, <3>1
    <3>3. ~(n > m)
      BY <3>2
    <3> QED BY <3>1, <3>3
  <2>4. added = FALSE
    BY <1>2, <2>3
  <2> QED BY <1>3, <1>4, <2>4
<1>5. CASE Table!findEntryIndex(value) = -1 /\ Table!insertEntry(value, value)
  BY <1>5, <1>1, <1>2, <1>3 DEF Table!insertEntry, Table!Size
<1> QED BY <1>2, <1>4, <1>5 DEF Table!put

\* HashSet.tryAdd returns whether the value is new (HashMap.TellsNew).
THEOREM SetsTellWhatIsNew ==
    ASSUME TablesAreGiven
    PROVE  Table!Construct /\ [][Table!SetNext]_Table!hashVars => [][Table!TellsNew]_Table!hashVars
<1>1. Table!Construct => TableInv
  BY TableStarts
<1>2. TableInv /\ [Table!SetNext]_Table!hashVars => TableInv'
  BY SetMoves, TableMoves, ValuesTyped DEF TableGone
<1>3. TableInv => Table!TellsNew
  BY NewIsTold
<1> QED BY <1>1, <1>2, <1>3, PTL

-----------------------------------------------------------------------------
(* Walks over the tables, until a freed entry is linked in again. *)

WalkInv ==
    /\ reused \in Nat
    /\ reused = 0 =>
          \E k \in Nat : object \in Objects(k) /\ Walking(object, InTable, k, tail, cursor, given, stayed)

LEMMA SameObjects ==
    ASSUME NEW k, k \in Nat, NEW l, l \in Nat, NEW ob, ob \in Objects(k), ob \in Objects(l) PROVE k = l
<1>1. 0 .. k = 0 .. l
  BY DEF Objects
<1> QED BY <1>1

LEMMA WalkKeeps ==
    ASSUME WalkInv, KeepsLinks, UNCHANGED Table!iteration, reused' = reused PROVE WalkInv'
<1>1. cursor' = cursor /\ given' = given /\ stayed' = stayed
  BY DEF Table!iteration
<1>2. PICK k \in Nat : /\ object \in Objects(k) /\ object' \in Objects(k) /\ LinksKept(object', object, k)
                       /\ tail' = tail /\ InTable' = InTable
  BY DEF KeepsLinks
<1>3. ASSUME reused = 0 PROVE Walking(object', InTable', k, tail', cursor', given', stayed')
  <2> PICK o, ob, U, t : o = object' /\ ob = object /\ U = InTable /\ t = tail
    OBVIOUS
  <2>1. PICK l \in Nat : ob \in Objects(l) /\ Walking(ob, U, l, t, cursor, given, stayed)
    BY <1>3 DEF WalkInv
  <2>2. l = k
    BY <1>2, <2>1, SameObjects
  <2>3. Walking(o, U, k, t, cursor, given, stayed)
    BY <1>2, <2>1, <2>2, WalkingKept
  <2> QED BY <1>1, <1>2, <2>3
<1> QED BY <1>2, <1>3 DEF WalkInv

LEMMA WalkAdds ==
    ASSUME TableInv, WalkInv, NEW key, key \in Keys, Table!findEntryIndex(key) = -1,
           freeSize = 0 => AddsLinks(key), UNCHANGED Table!iteration,
           reused' = reused + (IF freeSize > 0 THEN 1 ELSE 0)
    PROVE  WalkInv'
<1>0. PICK c, k0 : Tabled(buckets, entries, object, size, freeSize, freeList, tail, c, k0)
  BY DEF TableInv
<1>1. cursor' = cursor /\ given' = given /\ stayed' = stayed
  BY DEF Table!iteration
<1>2. freeSize \in Nat /\ size \in Nat /\ k0 \in Nat /\ object \in Objects(k0) /\ Placed(entries, size, k0)
  BY <1>0, TableSizes DEF Tabled, TableInv
<1>3. reused \in Nat /\ reused' \in Nat
  BY DEF WalkInv
<1>4. ASSUME reused' = 0
      PROVE  \E k \in Nat : object' \in Objects(k) /\ Walking(object', InTable', k, tail', cursor', given', stayed')
  <2>1. freeSize = 0 /\ reused = 0
    BY <1>2, <1>3, <1>4
  <2>2. PICK k \in Nat : \E ob, value, nx :
           /\ object \in Objects(k) /\ LinksKept(ob, object, k)
           /\ Put(object', ob, k, k + 1, k + 1, key, value, nx, tail, -1)
           /\ tail' = k + 1 /\ InTable' = InTable \cup {k + 1}
    BY <2>1 DEF AddsLinks
  <2>3. PICK ob, value, nx :
           /\ object \in Objects(k) /\ LinksKept(ob, object, k)
           /\ Put(object', ob, k, k + 1, k + 1, key, value, nx, tail, -1)
           /\ tail' = k + 1 /\ InTable' = InTable \cup {k + 1}
    BY <2>2
  <2> PICK o, s, U, t, l : o = object' /\ s = object /\ U = InTable /\ t = tail /\ l = k + 1
    OBVIOUS
  <2>4. PICK z \in Nat : s \in Objects(z) /\ Walking(s, U, z, t, cursor, given, stayed)
    BY <2>1 DEF WalkInv
  <2>5. z = k /\ k0 = k
    BY <1>2, <2>3, <2>4, SameObjects
  <2>6. Walking(ob, U, k, t, cursor, given, stayed)
    BY <2>3, <2>4, <2>5, WalkingKept
  <2>7. \A e \in U : KeyOf(ob, k)[e] # key
    <3>1. FoundAs(object, entries, size, key, -1)
      BY FindIs
    <3>2. \A e \in U : KeyOf(s, k)[e] # key
      <4>1. PICK en, n : en = entries /\ n = size
        OBVIOUS
      <4>2. \A e \in Used(s, en, n) : KeyOf(s, k)[e] # key
        BY <1>2, <2>5, <3>1, <4>1, UsedFound
      <4> QED BY <4>1, <4>2 DEF InTable
    <3>3. KeyOf(ob, k) = KeyOf(s, k)
      BY <2>3 DEF LinksKept, KeyOf
    <3> QED BY <3>2, <3>3
  <2>8. Walking(o, U \cup {l}, l, l, cursor, given, stayed)
    BY <2>3, <2>6, <2>7, WalkingPut
  <2>9. o \in Objects(l) /\ l \in Nat
    BY <2>3 DEF Put
  <2>10. InTable' = U \cup {l} /\ tail' = l
    BY <2>3
  <2> QED BY <1>1, <2>8, <2>9, <2>10
<1> QED BY <1>3, <1>4 DEF WalkInv

LEMMA WalkDrops ==
    ASSUME WalkInv, NEW key, DropsLinks(key), stayed' = stayed \ {key},
           UNCHANGED <<cursor, given, reused>>
    PROVE  WalkInv'
<1>1. cursor' = cursor /\ given' = given /\ reused' = reused
  OBVIOUS
<1>2. PICK k \in Nat : \E e, q, f :
        /\ object \in Objects(k) /\ LinksKept(q, object, k) /\ Unlinks(object', q, k, e, f)
        /\ e \in InTable /\ KeyOf(object, k)[e] = key
        /\ tail' = IF tail = e THEN object[e].prevEntry ELSE tail
        /\ InTable' = InTable \ {e}
  BY DEF DropsLinks
<1>3. PICK e, q, f :
        /\ object \in Objects(k) /\ LinksKept(q, object, k) /\ Unlinks(object', q, k, e, f)
        /\ e \in InTable /\ KeyOf(object, k)[e] = key
        /\ tail' = IF tail = e THEN object[e].prevEntry ELSE tail
        /\ InTable' = InTable \ {e}
  BY <1>2
<1>4. ASSUME reused = 0 PROVE Walking(object', InTable', k, tail', cursor', given', stayed')
  <2> PICK o, ob, U, t, u : o = object' /\ ob = object /\ U = InTable /\ t = tail /\ u = tail'
    OBVIOUS
  <2>1. PICK l \in Nat : ob \in Objects(l) /\ Walking(ob, U, l, t, cursor, given, stayed)
    BY <1>4 DEF WalkInv
  <2>2. l = k
    BY <1>3, <2>1, SameObjects
  <2>3. u = IF t = e THEN ob[e].prevEntry ELSE t
    BY <1>3
  <2>4. Walking(o, U \ {e}, k, u, cursor, given, stayed \ {key})
    BY <1>3, <2>1, <2>2, <2>3, WalkingUnlinked
  <2> QED BY <1>1, <1>3, <2>4
<1>5. object' \in Objects(k)
  BY <1>3 DEF Unlinks
<1> QED BY <1>1, <1>4, <1>5 DEF WalkInv

LEMMA WalkClears ==
    ASSUME WalkInv, ClearsLinks, stayed' = {}, UNCHANGED <<cursor, given, reused>> PROVE WalkInv'
<1>1. cursor' = cursor /\ given' = given /\ reused' = reused
  OBVIOUS
<1>2. PICK k \in Nat : /\ object \in Objects(k)
                       /\ object' = ClearedObjects(object, 0 .. k, Table!Range(Table!Listed))
                       /\ tail' = 0 /\ InTable' = {}
  BY DEF ClearsLinks
<1> PICK ob, o, L : ob = object /\ o = object' /\ L = Table!Range(Table!Listed)
  OBVIOUS
<1>3. o \in Objects(k)
  BY <1>2, ClearedObjectsTyped
<1>4. ASSUME reused = 0 PROVE Walking(o, {}, k, 0, cursor, given, {})
  <2> PICK U, t : U = InTable /\ t = tail
    OBVIOUS
  <2>1. PICK l \in Nat : object \in Objects(l) /\ Walking(object, U, l, t, cursor, given, stayed)
    BY <1>4 DEF WalkInv
  <2>2. l = k
    BY <1>2, <2>1, SameObjects
  <2>3. U \subseteq L
    BY <1>2, <2>1, <2>2, AllListed
  <2>4. Walking(ob, U, k, t, cursor, given, stayed)
    BY <2>1, <2>2
  <2> QED BY <1>2, <2>3, <2>4, WalkingCleared
<1>5. reused' = 0 => Walking(object', InTable', k, tail', cursor', given', stayed')
  BY <1>1, <1>2, <1>4
<1> QED BY <1>1, <1>3, <1>5 DEF WalkInv

LEMMA WalkBegins ==
    ASSUME TableInv, WalkInv, Table!iterateEntries PROVE WalkInv'
<1>0. PICK c, k0 : Tabled(buckets, entries, object, size, freeSize, freeList, tail, c, k0)
  BY DEF TableInv
<1>1. /\ cursor' = 0 /\ given' = <<>> /\ stayed' = {key \in Keys : Table!findEntryIndex(key) # -1}
      /\ reused' = reused /\ object' = object /\ tail' = tail /\ InTable' = InTable
  BY DEF Table!iterateEntries, Table!hashData, Table!HeadEntry, InTable
<1>2. size \in Nat /\ k0 \in Nat /\ object \in Objects(k0) /\ Placed(entries, size, k0)
  BY <1>0, TableSizes DEF Tabled, TableInv
<1> PICK ob, en, n, U, t, s : /\ ob = object /\ en = entries /\ n = size /\ U = InTable /\ t = tail
                              /\ s = stayed'
  OBVIOUS
<1>3. \A q \in s : \E e \in U : KeyOf(ob, k0)[e] = q
  <2>1. ASSUME NEW q \in s PROVE \E e \in U : KeyOf(ob, k0)[e] = q
    <3>1. PICK i : i = Table!findEntryIndex(q)
      OBVIOUS
    <3>2. q \in Keys /\ i # -1
      BY <1>1, <3>1
    <3>3. FoundAs(ob, en, n, q, i)
      BY <3>1, <3>2, FindIs
    <3>4. en[i] \in Used(ob, en, n) /\ KeyOf(ob, k0)[en[i]] = q
      BY <1>2, <3>2, <3>3, UsedFound
    <3> QED BY <3>4 DEF InTable
  <2> QED BY <2>1
<1>4. ASSUME reused = 0 PROVE Walking(ob, U, k0, t, 0, <<>>, s)
  <2>1. PICK l \in Nat : ob \in Objects(l) /\ Walking(ob, U, l, t, cursor, given, stayed)
    BY <1>4 DEF WalkInv
  <2>2. l = k0
    BY <1>2, <2>1, SameObjects
  <2> QED BY <1>3, <2>1, <2>2, WalkingStarted
<1>5. reused' = 0 => Walking(object', InTable', k0, tail', cursor', given', stayed')
  BY <1>1, <1>4
<1> QED BY <1>1, <1>2, <1>5 DEF WalkInv

LEMMA WalkTurns ==
    ASSUME TableInv, WalkInv, Table!iterateOn PROVE WalkInv'
<1>0. PICK c, k0 : Tabled(buckets, entries, object, size, freeSize, freeList, tail, c, k0)
  BY DEF TableInv
<1>1. /\ cursor # -1 /\ cursor' = object[cursor].nextEntry
      /\ given' = IF object[cursor].skipNextEntry \/ object[cursor].nextEntry = -1 THEN given
                  ELSE Append(given, object[object[cursor].nextEntry].key)
      /\ stayed' = stayed /\ reused' = reused /\ object' = object /\ tail' = tail /\ InTable' = InTable
  BY DEF Table!iterateOn, Table!hashData, Table!Nothing, InTable
<1>2. k0 \in Nat /\ object \in Objects(k0)
  BY <1>0 DEF Tabled
<1> PICK ob, U, t, x, g : ob = object /\ U = InTable /\ t = tail /\ x = cursor' /\ g = given'
  OBVIOUS
<1>3. KeysApart(KeyOf(ob, k0), U)
  BY <1>0, UsedApart DEF InTable
<1>4. ASSUME reused = 0 PROVE Walking(ob, U, k0, t, x, g, stayed)
  <2>1. PICK l \in Nat : ob \in Objects(l) /\ Walking(ob, U, l, t, cursor, given, stayed)
    BY <1>4 DEF WalkInv
  <2>2. l = k0
    BY <1>2, <2>1, SameObjects
  <2>3. x = ob[cursor].nextEntry /\ g = IF ob[cursor].skipNextEntry \/ x = -1 THEN given
                                        ELSE Append(given, ob[x].key)
    BY <1>1
  <2>4. Walking(ob, U, k0, t, cursor, given, stayed)
    BY <2>1, <2>2
  <2> QED BY <1>1, <1>2, <1>3, <2>3, <2>4, WalkingTurned
<1>5. reused' = 0 => Walking(object', InTable', k0, tail', cursor', given', stayed')
  BY <1>1, <1>4
<1> QED BY <1>1, <1>2, <1>5 DEF WalkInv

WalkGoneOn == TableInv' /\ WalkInv'

LEMMA WalkStarts == ASSUME TablesAreGiven, Table!Construct PROVE TableInv /\ WalkInv
<1>1. TableInv
  BY TableStarts
<1>2. /\ object = [x \in {0} |-> Table!createHashEntry] /\ size = 0 /\ tail = 0
      /\ cursor = -1 /\ given = <<>> /\ stayed = {} /\ reused = 0
  BY DEF Table!Construct, Table!InitTable, Table!HeadEntry, Table!Nothing
<1> PICK o, r, NX, PV, SK, KY :
       /\ o = object /\ r = Table!createHashEntry
       /\ NX = NextOf(o, 0) /\ PV = PrevOf(o, 0) /\ SK = SkipOf(o, 0) /\ KY = KeyOf(o, 0)
  OBVIOUS
<1>3. r \in EntryTypes(0) /\ r.nextEntry = -1 /\ r.skipNextEntry = FALSE
  BY NewEntryTyped DEF Table!createHashEntry
<1>4. 0 .. 0 = {0} /\ 1 .. 0 = {} /\ 0 .. 0 - 1 = {}
  OBVIOUS
<1>5. o[0] = r /\ o \in Objects(0)
  BY <1>2, <1>3, <1>4 DEF Objects
<1>6. InTable = {}
  <2>1. Used(o, entries, 0) = {}
    BY <1>4 DEF Used
  <2> QED BY <1>2, <2>1 DEF InTable
<1>7. NX[0] = -1 /\ SK[0] = FALSE
  BY <1>3, <1>4, <1>5 DEF NextOf, SkipOf
<1>8. Lined(NX, PV, SK, 0, 0) /\ Live(SK, 0) = {}
  <2>1. Live(SK, 0) = {}
    BY <1>4 DEF Live
  <2> QED BY <1>4, <1>7, <2>1 DEF Lined, Onward, Back, Sent, LastLive, Stops
<1>9. Walked(KY, {}, 0, -1, <<>>, {})
  BY DEF Walked
<1>10. Walking(o, {}, 0, 0, -1, <<>>, {})
  BY <1>8, <1>9 DEF Walking, Walks
<1> QED BY <1>1, <1>2, <1>5, <1>6, <1>10 DEF WalkInv

LEMMA WalkStored ==
    ASSUME TableInv, WalkInv, NEW key, key \in Keys, NEW value, value \in TypedValues, Table!put(key, value)
    PROVE  WalkGoneOn
<1>1. /\ TableInv'
      /\ Table!findEntryIndex(key) # -1 => KeepsLinks
      /\ Table!findEntryIndex(key) = -1 /\ freeSize = 0 => AddsLinks(key)
  BY StoreIs
<1>2. UNCHANGED Table!iteration
  BY DEF Table!put
<1>3. CASE Table!findEntryIndex(key) # -1 /\ Table!setValue(key, value)
  <2>1. reused' = reused
    BY <1>3 DEF Table!setValue
  <2> QED BY <1>1, <1>2, <1>3, <2>1, WalkKeeps DEF WalkGoneOn
<1>4. CASE Table!findEntryIndex(key) = -1 /\ Table!insertEntry(key, value)
  BY <1>4, <1>1, <1>2, WalkAdds DEF Table!insertEntry, WalkGoneOn
<1> QED BY <1>3, <1>4 DEF Table!put

LEMMA WalkDeleted ==
    ASSUME TableInv, WalkInv, NEW key, key \in Keys, Table!remove(key) PROVE WalkGoneOn
BY DeleteIs, WalkDrops DEF Table!remove, WalkGoneOn

LEMMA WalkCleared == ASSUME TableInv, WalkInv, Table!clearEntries PROVE WalkGoneOn
<1>1. TableInv' /\ ClearsLinks
  BY ClearIs
<1>2. stayed' = {} /\ UNCHANGED <<cursor, given, reused>>
  BY DEF Table!clearEntries
<1>3. WalkInv'
  BY <1>1, <1>2, WalkClears
<1> QED BY <1>1, <1>3 DEF WalkGoneOn

LEMMA WalkResized ==
    ASSUME TableInv, WalkInv,
           \/ \E capacity \in Primes : Table!ensureCapacity(capacity)
           \/ \E capacity \in Primes \cup {size - freeSize} : Table!trimExcessEntries(capacity)
    PROVE  WalkGoneOn
BY EnsureIs, TrimIs, WalkKeeps DEF Table!ensureCapacity, Table!trimExcessEntries, WalkGoneOn

LEMMA WalkMoved ==
    ASSUME TableInv, WalkInv, Table!iterateEntries \/ Table!iterateOn \/ UNCHANGED Table!hashVars
    PROVE  WalkGoneOn
<1>1. UNCHANGED Table!hashData
  BY DEF Table!iterateEntries, Table!iterateOn, Table!hashVars
<1>2. TableInv'
  BY <1>1, TableGoesOn
<1>3. CASE UNCHANGED Table!hashVars
  <2>1. /\ object' = object /\ entries' = entries /\ size' = size /\ tail' = tail
        /\ cursor' = cursor /\ given' = given /\ stayed' = stayed /\ reused' = reused
    BY <1>3 DEF Table!hashVars, Table!hashData, Table!iteration
  <2>2. WalkInv'
    BY <2>1 DEF WalkInv, InTable
  <2> QED BY <1>2, <2>2 DEF WalkGoneOn
<1>4. CASE Table!iterateEntries \/ Table!iterateOn
  BY <1>2, <1>4, WalkBegins, WalkTurns DEF WalkGoneOn
<1> QED BY <1>3, <1>4

LEMMA WalkMoves ==
    ASSUME TableInv, WalkInv, NEW V, V \subseteq TypedValues, Moves(V) PROVE WalkGoneOn
BY WalkDeleted, WalkStored, WalkCleared, WalkResized, WalkMoved DEF Moves

LEMMA WalkInvSees == ASSUME WalkInv PROVE Table!IteratesStayers
<1> SUFFICES ASSUME reused = 0
             PROVE  /\ \A q \in stayed : Table!Cardinality({n \in DOMAIN given : given[n] = q}) <= 1
                    /\ cursor = -1 => stayed \subseteq Table!Range(given)
  BY DEF Table!IteratesStayers, Table!Nothing
<1>1. PICK k \in Nat : Walking(object, InTable, k, tail, cursor, given, stayed)
  BY DEF WalkInv
<1> PICK NX, PV, SK, KY, U, t : /\ NX = NextOf(object, k) /\ PV = PrevOf(object, k)
                                /\ SK = SkipOf(object, k) /\ KY = KeyOf(object, k)
                                /\ U = InTable /\ t = tail
  OBVIOUS
<1>2. Walks(NX, PV, SK, KY, U, k, t, cursor, given, stayed)
  BY <1>1 DEF Walking
<1>3. ASSUME NEW q \in stayed
      PROVE  /\ \A m, n \in DOMAIN given : given[m] = q /\ given[n] = q => m = n
             /\ cursor = -1 => \E n \in DOMAIN given : given[n] = q
  BY <1>2, WalkSees
<1>4. ASSUME NEW q \in stayed PROVE Table!Cardinality({n \in DOMAIN given : given[n] = q}) <= 1
  <2>1. PICK S : S = {n \in DOMAIN given : given[n] = q}
    OBVIOUS
  <2>2. \A m, n \in S : m = n
    BY <1>3, <2>1
  <2>3. S = {} \/ \E n : S = {n}
    BY <2>2
  <2>4. Cardinality(S) <= 1
    BY FS_EmptySet, FS_Singleton, <2>3
  <2>5. Table!Cardinality(S) = Cardinality(S)
    BY TableCardinality
  <2> QED BY <2>1, <2>4, <2>5
<1>5. ASSUME cursor = -1, NEW q \in stayed PROVE q \in Table!Range(given)
  BY <1>3, <1>5 DEF Table!Range
<1> QED BY <1>4, <1>5

\* An iteration over a hash map gives every key that stays in the map, once, though others
\* are put in and removed meanwhile, the one it stands at too, and the table grows, is trimmed
\* or cleared, so long as no freed entry is linked in again (HashMap.IteratesStayers).
THEOREM WalksOfTablesSee == ASSUME TablesAreGiven PROVE Table!Spec => []Table!IteratesStayers
<1>1. Table!Construct => TableInv /\ WalkInv
  BY WalkStarts
<1>2. TableInv /\ WalkInv /\ [Table!Next]_Table!hashVars => TableInv' /\ WalkInv'
  BY MapMoves, WalkMoves, ValuesTyped DEF WalkGoneOn
<1>3. WalkInv => Table!IteratesStayers
  BY WalkInvSees
<1> QED BY <1>1, <1>2, <1>3, PTL DEF Table!Spec

\* The same of an iteration over a hash set (HashMap.IteratesStayers).
THEOREM WalksOfSetsSee ==
    ASSUME TablesAreGiven
    PROVE  Table!Construct /\ [][Table!SetNext]_Table!hashVars => []Table!IteratesStayers
<1>1. Table!Construct => TableInv /\ WalkInv
  BY WalkStarts
<1>2. TableInv /\ WalkInv /\ [Table!SetNext]_Table!hashVars => TableInv' /\ WalkInv'
  BY SetMoves, WalkMoves, ValuesTyped DEF WalkGoneOn
<1>3. WalkInv => Table!IteratesStayers
  BY WalkInvSees
<1> QED BY <1>1, <1>2, <1>3, PTL
=============================================================================
