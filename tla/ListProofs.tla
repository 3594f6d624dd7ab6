------------------------------- MODULE ListProofs -------------------------------
(***************************************************************************)
(* What erasing from a list leaves, for lists of every length: by          *)
(* induction over the natural numbers, which is stated here for properties *)
(* that are given as sets.                                                 *)
(***************************************************************************)
EXTENDS Lists, Integers, FiniteSetTheorems, WellFoundedInduction, TLAPS

\* Every set of natural numbers has a least element: induction, for properties
\* that are stated as sets.
LEMMA LeastNumber ==
    ASSUME NEW T, T \subseteq Nat, T # {}
    PROVE  \E x \in T : \A y \in T : x <= y
<1>1. IsWellFoundedOn(OpToRel(<, Nat), Nat)
  BY NatLessThanWellFounded
<1>2. PICK x \in T : \A y \in T : ~(<<y, x>> \in OpToRel(<, Nat))
  BY <1>1, WFMin, Zenon
<1>3. ASSUME NEW y \in T PROVE x <= y
  <2>1. x \in Nat /\ y \in Nat /\ <<y, x>> \in Nat \X Nat
    OBVIOUS
  <2>2. ~(<<y, x>> \in {ss \in Nat \X Nat : ss[1] < ss[2]})
    BY <1>2 DEF OpToRel
  <2> QED
    BY <2>1, <2>2
<1> QED
  BY <1>3

\* The same as the usual rule: S holds the numbers that have the property.
LEMMA InductionOnSet ==
    ASSUME NEW S, 0 \in S, \A n \in Nat : n \in S => n + 1 \in S
    PROVE  Nat \subseteq S
<1> SUFFICES ASSUME Nat \ S # {} PROVE FALSE
  OBVIOUS
<1>1. PICK x \in Nat \ S : \A y \in Nat \ S : x <= y
  BY LeastNumber
<1>2. x # 0 /\ x - 1 \in Nat
  BY <1>1
<1>3. x - 1 \in S
  BY <1>1, <1>2
<1>4. (x - 1) + 1 \in S
  BY <1>2, <1>3
<1>5. (x - 1) + 1 = x
  BY <1>1
<1> QED
  BY <1>1, <1>4, <1>5

\* g is the function kept of Drop, for the first n elements.
IsKept(list, S, n, g) ==
    g = [i \in 0 .. n |->
            IF i = 0 THEN <<>>
            ELSE IF list[i] \in S THEN g[i - 1] ELSE Append(g[i - 1], list[i])]

LEMMA KeptExists ==
    ASSUME NEW list, NEW S
    PROVE  \A n \in Nat : \E g : IsKept(list, S, n, g)
<1> DEFINE P == {n \in Nat : \E g : IsKept(list, S, n, g)}
<1>1. 0 \in P
  <2> DEFINE g == [i \in 0 .. 0 |-> <<>>]
  <2>1. g = [i \in 0 .. 0 |->
                IF i = 0 THEN <<>>
                ELSE IF list[i] \in S THEN g[i - 1] ELSE Append(g[i - 1], list[i])]
    <3>1. \A i \in 0 .. 0 : i = 0
      OBVIOUS
    <3> QED
      BY <3>1
  <2> HIDE DEF g
  <2>2. IsKept(list, S, 0, g)
    BY <2>1 DEF IsKept
  <2> QED
    BY <2>2
<1>2. ASSUME NEW n \in Nat, n \in P PROVE n + 1 \in P
  <2>1. PICK g : IsKept(list, S, n, g)
    BY <1>2
  <2> DEFINE last == IF list[n + 1] \in S THEN g[n] ELSE Append(g[n], list[n + 1])
             h == [i \in 0 .. n + 1 |-> IF i = n + 1 THEN last ELSE g[i]]
  <2>2. \A i \in 0 .. n : g[i] = IF i = 0 THEN <<>>
                                 ELSE IF list[i] \in S THEN g[i - 1] ELSE Append(g[i - 1], list[i])
    BY <2>1 DEF IsKept
  <2>3. ASSUME NEW i \in 0 .. n + 1
        PROVE  h[i] = IF i = 0 THEN <<>>
                      ELSE IF list[i] \in S THEN h[i - 1] ELSE Append(h[i - 1], list[i])
    <3> HIDE DEF last
    <3>1. CASE i = n + 1
      <4>1. i # 0 /\ i - 1 = n /\ n \in 0 .. n + 1 /\ n # n + 1
        BY <1>2, <3>1
      <4>2. h[i] = last /\ h[i - 1] = g[n]
        BY <3>1, <4>1
      <4> QED
        BY <3>1, <4>1, <4>2 DEF last
    <3>2. CASE i # n + 1 /\ i # 0
      <4>1. i \in 0 .. n /\ i - 1 \in 0 .. n + 1 /\ i - 1 # n + 1
        BY <1>2, <3>2
      <4>2. h[i] = g[i] /\ h[i - 1] = g[i - 1]
        BY <3>2, <4>1
      <4> QED
        BY <2>2, <3>2, <4>1, <4>2
    <3>3. CASE i = 0
      <4>1. 0 # n + 1 /\ 0 \in 0 .. n
        BY <1>2
      <4> QED
        BY <2>2, <3>3, <4>1
    <3> QED
      BY <3>1, <3>2, <3>3
  <2>4. IsKept(list, S, n + 1, h)
    <3>1. h = [i \in 0 .. n + 1 |-> h[i]]
      OBVIOUS
    <3> HIDE DEF h
    <3> QED
      BY <2>3, <3>1 DEF IsKept
  <2> QED
    BY <1>2, <2>4
<1> HIDE DEF P
<1>3. Nat \subseteq P
  BY <1>1, <1>2, InductionOnSet
<1> QED
  BY <1>3 DEF P

\* Elements q[1], q[2], ... are the elements of list up to i that are not in S, in
\* their order there; e are their indices.
KeepsFirst(list, S, i, q) ==
    /\ \E e \in [1 .. Len(q) -> 1 .. i] :
          /\ \A k, l \in 1 .. Len(q) : k < l => e[k] < e[l]
          /\ \A k \in 1 .. Len(q) : q[k] = list[e[k]] /\ list[e[k]] \notin S
    /\ \A j \in 1 .. i : list[j] \notin S => \E k \in 1 .. Len(q) : q[k] = list[j]

LEMMA KeepNext ==
    ASSUME NEW A, NEW list \in Seq(A), NEW S, NEW i \in Nat, i < Len(list),
           NEW q \in Seq(A), KeepsFirst(list, S, i, q), NEW r,
           r = IF list[i + 1] \in S THEN q ELSE Append(q, list[i + 1])
    PROVE  r \in Seq(A) /\ KeepsFirst(list, S, i + 1, r)
<1> DEFINE x == list[i + 1]
<1>1. Len(q) \in Nat /\ Len(list) \in Nat /\ x \in A /\ 1 .. i \subseteq 1 .. i + 1
  OBVIOUS
<1>2. PICK e \in [1 .. Len(q) -> 1 .. i] :
          /\ \A k, l \in 1 .. Len(q) : k < l => e[k] < e[l]
          /\ \A k \in 1 .. Len(q) : q[k] = list[e[k]] /\ list[e[k]] \notin S
  BY DEF KeepsFirst
<1>3. \A j \in 1 .. i : list[j] \notin S => \E k \in 1 .. Len(q) : q[k] = list[j]
  BY DEF KeepsFirst
<1>4. CASE x \in S
  <2>1. r = q
    BY <1>4
  <2>2. e \in [1 .. Len(q) -> 1 .. i + 1]
    BY <1>1, <1>2
  <2>3. \A j \in 1 .. i + 1 : list[j] \notin S => \E k \in 1 .. Len(q) : q[k] = list[j]
    <3>1. \A j \in 1 .. i + 1 : j = i + 1 \/ j \in 1 .. i
      OBVIOUS
    <3> QED
      BY <1>3, <1>4, <3>1
  <2>4. r \in Seq(A)
    BY <2>1
  <2>5. KeepsFirst(list, S, i + 1, q)
    BY <1>2, <2>2, <2>3, Zenon DEF KeepsFirst
  <2> QED
    BY <2>1, <2>4, <2>5, Zenon
<1>5. CASE x \notin S
  <2> DEFINE n == Len(q)
             d == [k \in 1 .. n + 1 |-> IF k = n + 1 THEN i + 1 ELSE e[k]]
  <2>1. r = Append(q, x)
    BY <1>5
  <2>2. r \in Seq(A) /\ Len(r) = n + 1 /\ r[n + 1] = x /\ \A k \in 1 .. n : r[k] = q[k]
    BY <1>1, <2>1
  <2>3. \A k \in 1 .. n + 1 : k = n + 1 \/ (k \in 1 .. n /\ k # n + 1)
    BY <1>1
  <2>4. \A k \in 1 .. n : k \in 1 .. n + 1 /\ k # n + 1
    BY <1>1
  <2>5. /\ d[n + 1] = i + 1 /\ \A k \in 1 .. n : d[k] = e[k]
        /\ d \in [1 .. n + 1 -> 1 .. i + 1]
    <3>1. d[n + 1] = i + 1
      BY <1>1
    <3>2. \A k \in 1 .. n : d[k] = e[k]
      BY <2>4
    <3>3. \A k \in 1 .. n : e[k] \in 1 .. i + 1
      BY <1>1, <1>2
    <3>4. i + 1 \in 1 .. i + 1
      OBVIOUS
    <3> QED
      BY <2>3, <3>1, <3>2, <3>3, <3>4
  <2> HIDE DEF d
  <2>6. ASSUME NEW k \in 1 .. n + 1, NEW l \in 1 .. n + 1, k < l
        PROVE  d[k] < d[l]
    <3>1. k \in 1 .. n
      BY <1>1, <2>6
    <3>2. d[k] = e[k] /\ e[k] \in 1 .. i
      BY <1>2, <2>5, <3>1
    <3>3. CASE l = n + 1
      BY <2>5, <3>2, <3>3
    <3>4. CASE l \in 1 .. n
      BY <1>2, <2>5, <2>6, <3>1, <3>4
    <3> QED
      BY <2>3, <3>3, <3>4
  <2>7. \A k \in 1 .. n + 1 : r[k] = list[d[k]] /\ list[d[k]] \notin S
    BY <1>2, <1>5, <2>2, <2>3, <2>5
  <2>8. ASSUME NEW j \in 1 .. i + 1, list[j] \notin S
        PROVE  \E k \in 1 .. n + 1 : r[k] = list[j]
    <3>1. CASE j = i + 1
      <4>1. n + 1 \in 1 .. n + 1
        BY <1>1
      <4> QED
        BY <2>2, <3>1, <4>1
    <3>2. CASE j \in 1 .. i
      BY <1>3, <2>2, <2>4, <2>8, <3>2
    <3> QED
      BY <3>1, <3>2
  <2> HIDE DEF n, x
  <2>9. d \in [1 .. Len(r) -> 1 .. i + 1]
    BY <2>2, <2>5, Zenon
  <2>10. \A k, l \in 1 .. Len(r) : k < l => d[k] < d[l]
    BY <2>2, <2>6, Zenon
  <2>11. \A k \in 1 .. Len(r) : r[k] = list[d[k]] /\ list[d[k]] \notin S
    BY <2>2, <2>7, Zenon
  <2>12. \A j \in 1 .. i + 1 : list[j] \notin S => \E k \in 1 .. Len(r) : r[k] = list[j]
    BY <2>2, <2>8, Zenon
  <2> QED
    BY <2>2, <2>9, <2>10, <2>11, <2>12, Zenon DEF KeepsFirst
<1> QED
  BY <1>4, <1>5

\* What Drop leaves: the elements that are not in S, in their order.
LEMMA DropFacts ==
    ASSUME NEW A, NEW list \in Seq(A), NEW S
    PROVE  Drop(list, S) \in Seq(A) /\ KeepsFirst(list, S, Len(list), Drop(list, S))
<1> DEFINE n == Len(list)
           g == CHOOSE f : IsKept(list, S, n, f)
<1>1. n \in Nat
  OBVIOUS
<1>2. IsKept(list, S, n, g)
  BY <1>1, KeptExists
<1>3. Drop(list, S) = g[n]
  BY Zenon DEF Drop, IsKept
<1> HIDE DEF g
<1>4. \A i \in 0 .. n : g[i] = IF i = 0 THEN <<>>
                               ELSE IF list[i] \in S THEN g[i - 1] ELSE Append(g[i - 1], list[i])
  BY <1>2 DEF IsKept
<1> DEFINE P == {i \in Nat : i <= n => g[i] \in Seq(A) /\ KeepsFirst(list, S, i, g[i])}
<1>5. 0 \in P
  <2>1. g[0] = <<>>
    BY <1>1, <1>4
  <2>2. KeepsFirst(list, S, 0, <<>>)
    <3> DEFINE e == [k \in 1 .. Len(<<>>) |-> 0]
    <3>1. \A k \in 1 .. Len(<<>>) : FALSE
      OBVIOUS
    <3>2. e \in [1 .. Len(<<>>) -> 1 .. 0]
      BY <3>1
    <3>3. \A j \in 1 .. 0 : FALSE
      OBVIOUS
    <3> HIDE DEF e
    <3> QED
      BY <3>1, <3>2, <3>3, Zenon DEF KeepsFirst
  <2>3. <<>> \in Seq(A)
    OBVIOUS
  <2> QED
    BY <2>1, <2>2, <2>3
<1>6. ASSUME NEW i \in Nat, i \in P PROVE i + 1 \in P
  <2> SUFFICES ASSUME i + 1 <= n PROVE g[i + 1] \in Seq(A) /\ KeepsFirst(list, S, i + 1, g[i + 1])
    OBVIOUS
  <2>1. i < n /\ i <= n /\ i + 1 \in 0 .. n /\ i + 1 # 0 /\ (i + 1) - 1 = i
    BY <1>1
  <2>2. g[i] \in Seq(A) /\ KeepsFirst(list, S, i, g[i])
    BY <1>6, <2>1
  <2>3. g[i + 1] = IF list[i + 1] \in S THEN g[i] ELSE Append(g[i], list[i + 1])
    BY <1>4, <2>1
  <2> QED
    BY <2>1, <2>2, <2>3, KeepNext
<1> HIDE DEF P
<1>7. Nat \subseteq P
  BY <1>5, <1>6, InductionOnSet
<1>8. n \in P
  BY <1>1, <1>7
<1> QED
  BY <1>1, <1>3, <1>8 DEF P

\* An element is left if and only if it was there and is not in S.
LEMMA DropMembers ==
    ASSUME NEW A, NEW list \in Seq(A), NEW S
    PROVE  {Drop(list, S)[k] : k \in 1 .. Len(Drop(list, S))}
             = {list[i] : i \in 1 .. Len(list)} \ S
<1> DEFINE q == Drop(list, S)
<1>1. KeepsFirst(list, S, Len(list), q)
  BY DropFacts
<1> HIDE DEF q
<1>2. \A k \in 1 .. Len(q) : \E i \in 1 .. Len(list) : q[k] = list[i] /\ list[i] \notin S
  BY <1>1 DEF KeepsFirst
<1>3. \A i \in 1 .. Len(list) : list[i] \notin S => \E k \in 1 .. Len(q) : q[k] = list[i]
  BY <1>1 DEF KeepsFirst
<1>4. {q[k] : k \in 1 .. Len(q)} = {list[i] : i \in 1 .. Len(list)} \ S
  <2>1. ASSUME NEW x \in {q[k] : k \in 1 .. Len(q)}
        PROVE  x \in {list[i] : i \in 1 .. Len(list)} \ S
    BY <1>2, <2>1
  <2>2. ASSUME NEW x \in {list[i] : i \in 1 .. Len(list)} \ S
        PROVE  x \in {q[k] : k \in 1 .. Len(q)}
    <3>1. PICK i \in 1 .. Len(list) : x = list[i] /\ list[i] \notin S
      BY <2>2
    <3>2. PICK k \in 1 .. Len(q) : q[k] = list[i]
      BY <1>3, <3>1
    <3> QED
      BY <3>1, <3>2
  <2> QED
    BY <2>1, <2>2
<1> QED
  BY <1>4 DEF q

\* A list without repetitions stays one.
LEMMA DropInjective ==
    ASSUME NEW A, NEW list \in Seq(A), NEW S,
           \A i, j \in 1 .. Len(list) : list[i] = list[j] => i = j
    PROVE  \A k, l \in 1 .. Len(Drop(list, S)) : Drop(list, S)[k] = Drop(list, S)[l] => k = l
<1> DEFINE q == Drop(list, S)
<1>1. KeepsFirst(list, S, Len(list), q)
  BY DropFacts
<1> HIDE DEF q
<1>2. PICK e \in [1 .. Len(q) -> 1 .. Len(list)] :
          /\ \A k, l \in 1 .. Len(q) : k < l => e[k] < e[l]
          /\ \A k \in 1 .. Len(q) : q[k] = list[e[k]] /\ list[e[k]] \notin S
  BY <1>1 DEF KeepsFirst
<1>3. ASSUME NEW k \in 1 .. Len(q), NEW l \in 1 .. Len(q), q[k] = q[l]
      PROVE  k = l
  <2>1. e[k] \in 1 .. Len(list) /\ e[l] \in 1 .. Len(list) /\ list[e[k]] = list[e[l]]
    BY <1>2, <1>3
  <2>2. e[k] = e[l]
    BY <2>1
  <2> QED
    BY <1>2, <1>3, <2>2
<1> QED
  BY <1>3 DEF q

\* The elements of a list, and that b is before c in it.
Members(list) == {list[i] : i \in 1 .. Len(list)}

Distinct(list) == \A i, j \in 1 .. Len(list) : list[i] = list[j] => i = j

Precedes(list, b, c) ==
    \E i, j \in 1 .. Len(list) : i < j /\ list[i] = b /\ list[j] = c

\* Of a list without repetitions, Drop leaves one in which what is left is in the
\* order it was in.
LEMMA DropList ==
    ASSUME NEW A, NEW list \in Seq(A), NEW S, Distinct(list)
    PROVE  /\ Drop(list, S) \in Seq(A)
           /\ Members(Drop(list, S)) = Members(list) \ S
           /\ Distinct(Drop(list, S))
           /\ \A b, c : Precedes(Drop(list, S), b, c)
                          <=> Precedes(list, b, c) /\ b \notin S /\ c \notin S
<1> DEFINE q == Drop(list, S)
<1>1. q \in Seq(A) /\ KeepsFirst(list, S, Len(list), q)
  BY DropFacts
<1>2. Members(q) = Members(list) \ S
  BY DropMembers DEF Members
<1>3. Distinct(q)
  BY DropInjective DEF Distinct
<1> HIDE DEF q
<1>4. PICK e \in [1 .. Len(q) -> 1 .. Len(list)] :
          /\ \A k, l \in 1 .. Len(q) : k < l => e[k] < e[l]
          /\ \A k \in 1 .. Len(q) : q[k] = list[e[k]] /\ list[e[k]] \notin S
  BY <1>1 DEF KeepsFirst
<1>5. \A i \in 1 .. Len(list) : list[i] \notin S => \E k \in 1 .. Len(q) : q[k] = list[i]
  BY <1>1 DEF KeepsFirst
<1>6. Len(q) \in Nat /\ Len(list) \in Nat
  BY <1>1
<1>7. ASSUME NEW b, NEW c, Precedes(q, b, c)
      PROVE  Precedes(list, b, c) /\ b \notin S /\ c \notin S
  <2>1. PICK k, l \in 1 .. Len(q) : k < l /\ q[k] = b /\ q[l] = c
    BY <1>7 DEF Precedes
  <2>2. e[k] \in 1 .. Len(list) /\ e[l] \in 1 .. Len(list) /\ e[k] < e[l]
    BY <1>4, <2>1
  <2> QED
    BY <1>4, <2>1, <2>2 DEF Precedes
<1>8. ASSUME NEW b, NEW c, Precedes(list, b, c), b \notin S, c \notin S
      PROVE  Precedes(q, b, c)
  <2>1. PICK i, j \in 1 .. Len(list) : i < j /\ list[i] = b /\ list[j] = c
    BY <1>8 DEF Precedes
  <2>2. PICK k \in 1 .. Len(q) : q[k] = b
    BY <1>5, <1>8, <2>1
  <2>3. PICK l \in 1 .. Len(q) : q[l] = c
    BY <1>5, <1>8, <2>1
  <2>4. e[k] = i /\ e[l] = j
    <3>1. e[k] \in 1 .. Len(list) /\ e[l] \in 1 .. Len(list)
      BY <1>4
    <3>2. list[e[k]] = list[i] /\ list[e[l]] = list[j]
      BY <1>4, <2>1, <2>2, <2>3
    <3> QED
      BY <3>1, <3>2 DEF Distinct
  <2>5. CASE k < l
    BY <2>2, <2>3, <2>5 DEF Precedes
  <2>6. CASE k = l
    BY <2>1, <2>4, <2>6
  <2>7. CASE l < k
    <3>1. j < i
      BY <1>4, <2>4, <2>7
    <3> QED
      BY <2>1, <3>1
  <2>8. k \in Nat /\ l \in Nat
    OBVIOUS
  <2> QED
    BY <2>5, <2>6, <2>7, <2>8
<1> QED
  BY <1>1, <1>2, <1>3, <1>7, <1>8 DEF q

\* An element that is appended comes after all others.
LEMMA AppendList ==
    ASSUME NEW A, NEW list \in Seq(A), NEW x \in A
    PROVE  /\ Append(list, x) \in Seq(A)
           /\ Members(Append(list, x)) = Members(list) \cup {x}
           /\ Distinct(list) /\ x \notin Members(list) => Distinct(Append(list, x))
           /\ \A b, c : Precedes(Append(list, x), b, c)
                          <=> Precedes(list, b, c) \/ (b \in Members(list) /\ c = x)
           /\ Append(list, x)[Len(Append(list, x))] = x
<1> DEFINE q == Append(list, x)
           n == Len(list)
<1>1. /\ n \in Nat /\ q \in Seq(A) /\ Len(q) = n + 1 /\ q[n + 1] = x
      /\ \A i \in 1 .. n : q[i] = list[i]
  OBVIOUS
<1>2. \A i \in 1 .. n + 1 : i = n + 1 \/ i \in 1 .. n
  BY <1>1
<1>3. n + 1 \in 1 .. n + 1 /\ \A i \in 1 .. n : i \in 1 .. n + 1 /\ i < n + 1
  BY <1>1
<1> HIDE DEF q
<1>4. Members(q) = Members(list) \cup {x}
  <2>1. \A y \in Members(q) : y \in Members(list) \cup {x}
    BY <1>1, <1>2 DEF Members
  <2>2. \A y \in Members(list) \cup {x} : y \in Members(q)
    BY <1>1, <1>3 DEF Members
  <2> QED
    BY <2>1, <2>2
<1>5. ASSUME Distinct(list), x \notin Members(list) PROVE Distinct(q)
  <2> SUFFICES ASSUME NEW i \in 1 .. n + 1, NEW j \in 1 .. n + 1, q[i] = q[j] PROVE i = j
    BY <1>1 DEF Distinct
  <2>1. \A k \in 1 .. n : list[k] # x
    BY <1>5 DEF Members
  <2>2. (i = n + 1 \/ i \in 1 .. n) /\ (j = n + 1 \/ j \in 1 .. n)
    BY <1>2
  <2> QED
    BY <1>1, <1>5, <2>1, <2>2 DEF Distinct
<1>6. ASSUME NEW b, NEW c, Precedes(q, b, c)
      PROVE  Precedes(list, b, c) \/ (b \in Members(list) /\ c = x)
  <2>1. PICK i, j \in 1 .. n + 1 : i < j /\ q[i] = b /\ q[j] = c
    BY <1>1, <1>6 DEF Precedes
  <2>2. i \in 1 .. n /\ list[i] = b
    BY <1>1, <2>1
  <2>3. CASE j = n + 1
    BY <1>1, <2>1, <2>2, <2>3 DEF Members
  <2>4. CASE j \in 1 .. n
    BY <1>1, <2>1, <2>2, <2>4 DEF Precedes
  <2> QED
    BY <1>2, <2>3, <2>4
<1>7. ASSUME NEW b, NEW c, Precedes(list, b, c) PROVE Precedes(q, b, c)
  BY <1>1, <1>3, <1>7 DEF Precedes
<1>8. ASSUME NEW b, b \in Members(list) PROVE Precedes(q, b, x)
  BY <1>1, <1>3, <1>8 DEF Precedes, Members
<1> QED
  BY <1>1, <1>4, <1>5, <1>6, <1>7, <1>8 DEF q

\* An element that is put in front comes before all others.
LEMMA PrependList ==
    ASSUME NEW A, NEW list \in Seq(A), NEW x \in A
    PROVE  /\ <<x>> \o list \in Seq(A)
           /\ Len(<<x>> \o list) = Len(list) + 1
           /\ (<<x>> \o list)[1] = x
           /\ Members(<<x>> \o list) = Members(list) \cup {x}
           /\ Distinct(list) /\ x \notin Members(list) => Distinct(<<x>> \o list)
<1> DEFINE q == <<x>> \o list
           n == Len(list)
<1>1. /\ n \in Nat /\ q \in Seq(A) /\ Len(q) = n + 1 /\ q[1] = x
      /\ \A i \in 1 .. n : q[i + 1] = list[i]
  OBVIOUS
<1> HIDE DEF q
<1>2. \A i \in 1 .. n + 1 : i = 1 \/ (i - 1 \in 1 .. n /\ q[i] = list[i - 1])
  <2> SUFFICES ASSUME NEW i \in 1 .. n + 1, i # 1
               PROVE  i - 1 \in 1 .. n /\ q[i] = list[i - 1]
    OBVIOUS
  <2>1. i - 1 \in 1 .. n /\ (i - 1) + 1 = i
    BY <1>1
  <2> QED
    BY <1>1, <2>1
<1>3. 1 \in 1 .. n + 1 /\ \A i \in 1 .. n : i + 1 \in 1 .. n + 1
  BY <1>1
<1>4. Members(q) = Members(list) \cup {x}
  <2>1. \A y \in Members(q) : y \in Members(list) \cup {x}
    BY <1>1, <1>2 DEF Members
  <2>2. \A y \in Members(list) \cup {x} : y \in Members(q)
    BY <1>1, <1>3 DEF Members
  <2> QED
    BY <2>1, <2>2
<1>5. ASSUME Distinct(list), x \notin Members(list) PROVE Distinct(q)
  <2> SUFFICES ASSUME NEW i \in 1 .. n + 1, NEW j \in 1 .. n + 1, q[i] = q[j] PROVE i = j
    BY <1>1 DEF Distinct
  <2>1. \A k \in 1 .. n : list[k] # x
    BY <1>5 DEF Members
  <2>2. CASE i = 1 \/ j = 1
    BY <1>1, <1>2, <2>1, <2>2
  <2>3. CASE i # 1 /\ j # 1
    <3>1. i - 1 \in 1 .. n /\ j - 1 \in 1 .. n /\ list[i - 1] = list[j - 1]
      BY <1>2, <2>3
    <3>2. i - 1 = j - 1
      BY <1>5, <3>1 DEF Distinct
    <3> QED
      BY <1>1, <3>2
  <2> QED
    BY <2>2, <2>3
<1> QED
  BY <1>1, <1>4, <1>5 DEF q

\* A list without repetitions is as long as it has elements.
LEMMA DistinctLength ==
    ASSUME NEW A, NEW list \in Seq(A)
    PROVE  /\ IsFiniteSet(Members(list))
           /\ Distinct(list) => Cardinality(Members(list)) = Len(list)
<1> DEFINE n == Len(list)
           S == Members(list)
           f == [i \in 1 .. n |-> list[i]]
<1>1. n \in Nat
  OBVIOUS
<1>2. f \in Surjection(1 .. n, S)
  BY DEF Surjection, Members
<1>3. IsFiniteSet(1 .. n) /\ Cardinality(1 .. n) = n
  BY <1>1, FS_Interval
<1>4. IsFiniteSet(S)
  BY <1>2, <1>3, FS_Surjection
<1>5. ASSUME Distinct(list) PROVE Cardinality(S) = n
  <2>1. f \in Injection(1 .. n, S)
    BY <1>2, <1>5 DEF Injection, IsInjective, Distinct, Surjection
  <2>2. f \in Bijection(1 .. n, S)
    BY <1>2, <2>1 DEF Bijection
  <2>3. ExistsBijection(1 .. n, S)
    BY <2>2 DEF ExistsBijection
  <2> QED
    BY <1>1, <2>3, FS_CountingElements
<1> QED
  BY <1>4, <1>5

\* The first n elements of a list are at most n.
LEMMA PrefixCount ==
    ASSUME NEW list, NEW n \in Nat
    PROVE  /\ IsFiniteSet({list[i] : i \in 1 .. n})
           /\ Cardinality({list[i] : i \in 1 .. n}) \in Nat
           /\ Cardinality({list[i] : i \in 1 .. n}) <= n
<1> DEFINE S == {list[i] : i \in 1 .. n}
           f == [i \in 1 .. n |-> list[i]]
<1>1. f \in Surjection(1 .. n, S)
  BY DEF Surjection
<1>2. IsFiniteSet(1 .. n) /\ Cardinality(1 .. n) = n
  BY FS_Interval
<1> HIDE DEF f, S
<1>3. IsFiniteSet(S) /\ Cardinality(S) <= n
  BY <1>1, <1>2, FS_Surjection
<1> QED
  BY <1>3, FS_CardinalityType DEF S
===============================================================================
