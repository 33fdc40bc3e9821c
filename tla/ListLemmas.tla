----------------------------- MODULE ListLemmas -----------------------------
(***************************************************************************)
(* Least elements, for proofs that follow a list or a chain to its end, and *)
(* what the operations on lists do to the elements and their order.         *)
(***************************************************************************)
EXTENDS Lists, FunctionTheorems, FiniteSetTheorems, SequenceTheorems, TLAPS

-----------------------------------------------------------------------------
(***************************************************************************)
(* Least elements, finite sets.                                             *)
(***************************************************************************)
\* A set of numbers has a least one: the intervals from 0 are ordered by
\* inclusion, which is well-founded on finite sets.
LEMMA LeastNumber ==
    ASSUME NEW T \in SUBSET Nat, T # {}
    PROVE  \E x \in T : \A y \in T : x <= y
<1> DEFINE I == {0 .. n : n \in T}
           R == StrictSubsetOrdering(Nat)
           S == FiniteSubsetsOf(Nat)
<1>1. IsWellFoundedOn(R, S) BY FS_StrictSubsetOrderingWellFounded
<1>2. I \subseteq S
    <2>1. ASSUME NEW n \in T PROVE 0 .. n \in S BY FS_Interval DEF FiniteSubsetsOf
    <2>2. QED BY <2>1
<1>3. I # {} OBVIOUS
<1>4. PICK X \in I : \A Y \in I : ~(<<Y, X>> \in R)
    <2> HIDE DEF I, R, S
    <2>1. QED BY <1>1, <1>2, <1>3, WFMin, Zenon
<1>5. PICK x \in T : X = 0 .. x OBVIOUS
<1>6. ASSUME NEW y \in T, y < x PROVE FALSE
    <2>1. ~(<<0 .. y, 0 .. x>> \in R) BY <1>4, <1>5
    <2>2. x \in 0 .. x /\ x \notin 0 .. y /\ 0 .. y \subseteq 0 .. x BY <1>6
    <2>3. 0 .. y \in SUBSET Nat /\ 0 .. x \in SUBSET Nat OBVIOUS
    <2>4. QED BY <2>1, <2>2, <2>3 DEF StrictSubsetOrdering
<1>7. QED BY <1>6

\* One of the elements of a set has the least value.
LEMMA LeastValue ==
    ASSUME NEW S, S # {}, NEW f \in [S -> Nat]
    PROVE  \E x \in S : \A y \in S : f[x] <= f[y]
<1> DEFINE T == {f[x] : x \in S}
<1>1. T \in SUBSET Nat /\ T # {} OBVIOUS
<1>2. PICK n \in T : \A m \in T : n <= m
    <2> HIDE DEF T
    <2>1. QED BY <1>1, LeastNumber
<1>3. QED BY <1>2

\* A function on a finite set has finitely many values.
LEMMA ValuesFinite ==
    ASSUME NEW f, f = [x \in DOMAIN f |-> f[x]], IsFiniteSet(DOMAIN f)
    PROVE  IsFiniteSet({f[x] : x \in DOMAIN f})
<1> DEFINE T == {f[x] : x \in DOMAIN f}
<1>1. f \in [DOMAIN f -> T]
    OBVIOUS
<1>2. \A y \in T : \E x \in DOMAIN f : f[x] = y
    OBVIOUS
<1> HIDE DEF T
<1>3. f \in Surjection(DOMAIN f, T)
    BY <1>1, <1>2, Fun_IsSurj
<1> QED
    BY <1>3, FS_Surjection DEF T

-----------------------------------------------------------------------------
(***************************************************************************)
(* Lists.                                                                   *)
(***************************************************************************)
LEMMA ElementsOf ==
    ASSUME NEW S, NEW q \in Seq(S)
    PROVE  /\ ToSet(q) \subseteq S
           /\ \A x : x \in ToSet(q) <=> \E i \in 1 .. Len(q) : q[i] = x
BY LenProperties DEF ToSet

\* A list without repetitions is as long as the set of its elements.
LEMMA DistinctLength ==
    ASSUME NEW S, NEW q \in Seq(S), Distinct(q)
    PROVE  IsFiniteSet(ToSet(q)) /\ Len(q) = Cardinality(ToSet(q))
<1> DEFINE T == ToSet(q)
<1>1. Len(q) \in Nat /\ q \in [1 .. Len(q) -> S]
    BY LenProperties
<1>2. q \in [1 .. Len(q) -> T]
    BY <1>1, LenProperties, ElementsOf
<1>3. q \in Injection(1 .. Len(q), T)
    BY <1>2, Fun_IsInj DEF Distinct
<1>4. q \in Surjection(1 .. Len(q), T)
    BY <1>2, ElementsOf, Fun_IsSurj
<1>5. IsFiniteSet(1 .. Len(q)) /\ Cardinality(1 .. Len(q)) = Len(q)
    BY <1>1, FS_Interval
<1> QED
    BY <1>3, <1>4, <1>5, FS_Surjection

\* The places of a finite set of numbers, counted from below, are those from
\* one to its cardinality, each taken once.
LEMMA Places ==
    ASSUME NEW n \in Nat, NEW kept \in SUBSET (1 .. n)
    PROVE  /\ Cardinality(kept) \in Nat
           /\ \A i \in kept : Cardinality({j \in kept : j <= i}) \in 1 .. Cardinality(kept)
           /\ \A i, k \in kept :
                  Cardinality({j \in kept : j <= i}) = Cardinality({j \in kept : j <= k}) => i = k
           /\ \A i, k \in kept :
                  i < k => Cardinality({j \in kept : j <= i}) < Cardinality({j \in kept : j <= k})
           /\ \A k \in 1 .. Cardinality(kept) :
                  \E i \in kept : Cardinality({j \in kept : j <= i}) = k
<1> DEFINE upto(i) == {j \in kept : j <= i}
           c == Cardinality(kept)
           place == [i \in kept |-> Cardinality(upto(i))]
<1>1. IsFiniteSet(kept)
    <2>1. IsFiniteSet(1 .. n)
        BY FS_Interval
    <2> QED
        BY <2>1, FS_Subset
<1>2. c \in Nat
    BY <1>1, FS_CardinalityType
<1>3. \A i \in kept : IsFiniteSet(upto(i)) /\ Cardinality(upto(i)) \in 1 .. c
    <2> TAKE i \in kept
    <2>1. upto(i) \in SUBSET kept /\ i \in upto(i)
        OBVIOUS
    <2>2. IsFiniteSet(upto(i)) /\ Cardinality(upto(i)) <= c
        BY <2>1, <1>1, FS_Subset
    <2>3. Cardinality(upto(i)) \in Nat /\ Cardinality(upto(i)) # 0
        BY <2>1, <2>2, FS_CardinalityType, FS_EmptySet
    <2> QED
        BY <2>2, <2>3, <1>2
<1>4. ASSUME NEW i \in kept, NEW k \in kept, i < k
      PROVE  Cardinality(upto(i)) < Cardinality(upto(k))
    <2>1. i \in Nat /\ k \in Nat /\ \A j \in kept : j \in Nat
        OBVIOUS
    <2>2. upto(i) \in SUBSET upto(k) /\ k \in upto(k) /\ k \notin upto(i)
        <3>1. \A j \in kept : j <= i => j <= k
            BY <1>4, <2>1
        <3>2. k <= k /\ ~(k <= i)
            BY <1>4, <2>1
        <3> QED
            BY <3>1, <3>2
    <2>3. /\ Cardinality(upto(i)) <= Cardinality(upto(k))
          /\ Cardinality(upto(i)) # Cardinality(upto(k))
        BY <2>2, <1>3, FS_Subset
    <2> QED
        BY <2>3, <1>2, <1>3
<1>5. \A i, k \in kept : Cardinality(upto(i)) = Cardinality(upto(k)) => i = k
    <2> SUFFICES ASSUME NEW i \in kept, NEW k \in kept,
                        Cardinality(upto(i)) = Cardinality(upto(k))
                 PROVE  i = k
        OBVIOUS
    <2>1. Cardinality(upto(i)) \in Nat /\ Cardinality(upto(k)) \in Nat
        BY <1>2, <1>3
    <2>2. ~(i < k) /\ ~(k < i)
        BY <1>4, <2>1
    <2> QED
        BY <2>2
<1>6. place \in Injection(kept, 1 .. c)
    <2>1. place \in [kept -> 1 .. c]
        BY <1>3
    <2>2. \A i, k \in kept : place[i] = place[k] => i = k
        BY <1>5
    <2> HIDE DEF place, c
    <2> QED
        BY <2>1, <2>2, Fun_IsInj
<1>7. IsFiniteSet(1 .. c) /\ Cardinality(1 .. c) = c
    BY <1>2, FS_Interval
<1>8. place \in Surjection(kept, 1 .. c)
    <2> HIDE DEF place
    <2> QED
        BY <1>6, <1>7, FS_Injection
<1>9. \A k \in 1 .. c : \E i \in kept : place[i] = k
    <2> HIDE DEF place, c
    <2> QED
        BY <1>8, Fun_SurjectionProperties
<1> QED
    BY <1>2, <1>3, <1>4, <1>5, <1>9

\* Without removes the elements of S and nothing else, adds no repetition and
\* keeps the order.
LEMMA WithoutList ==
    ASSUME NEW C, NEW q \in Seq(C), Distinct(q), NEW S
    PROVE  /\ Without(q, S) \in Seq(C)
           /\ Distinct(Without(q, S))
           /\ ToSet(Without(q, S)) = ToSet(q) \ S
           /\ \A i, j \in 1 .. Len(Without(q, S)) : i < j =>
                  \E a, b \in 1 .. Len(q) :
                      a < b /\ Without(q, S)[i] = q[a] /\ Without(q, S)[j] = q[b]
<1> DEFINE kept == {i \in 1 .. Len(q) : q[i] \notin S}
           place(i) == Cardinality({j \in kept : j <= i})
           c == Cardinality(kept)
           at(k) == CHOOSE i \in kept : place(i) = k
           w == [k \in 1 .. c |-> q[at(k)]]
<1>1. w = Without(q, S)
    BY DEF Without
<1>2. Len(q) \in Nat /\ q \in [1 .. Len(q) -> C] /\ kept \in SUBSET (1 .. Len(q))
    BY LenProperties
<1>3. /\ c \in Nat
      /\ \A i \in kept : place(i) \in 1 .. c
      /\ \A i, k \in kept : place(i) = place(k) => i = k
      /\ \A i, k \in kept : i < k => place(i) < place(k)
      /\ \A k \in 1 .. c : \E i \in kept : place(i) = k
    <2> HIDE DEF kept
    <2> QED
        BY <1>2, Places
<1> HIDE DEF place, c
<1>4. \A k \in 1 .. c : at(k) \in kept /\ place(at(k)) = k
    BY <1>3
<1>5. \A i \in kept : at(place(i)) = i
    BY <1>3, <1>4
<1> HIDE DEF at
<1>6. w \in [1 .. c -> C]
    BY <1>2, <1>4
<1>7. w \in Seq(C) /\ Len(w) = c
    <2> HIDE DEF w
    <2> QED
        BY <1>3, <1>6
<1>8. Distinct(w)
    <2> SUFFICES ASSUME NEW i \in 1 .. c, NEW j \in 1 .. c, w[i] = w[j] PROVE i = j
        BY <1>7 DEF Distinct
    <2>1. at(i) = at(j)
        BY <1>2, <1>4 DEF Distinct
    <2> QED
        BY <2>1, <1>4
<1>9. ASSUME NEW x PROVE x \in ToSet(w) <=> x \in ToSet(q) \ S
    <2>1. x \in ToSet(w) <=> \E k \in 1 .. c : w[k] = x
        <3> HIDE DEF w
        <3> QED
            BY <1>7, ElementsOf
    <2>2. (\E k \in 1 .. c : w[k] = x) <=> \E i \in kept : q[i] = x
        <3>1. ASSUME NEW k \in 1 .. c, w[k] = x PROVE \E i \in kept : q[i] = x
            BY <3>1, <1>4
        <3>2. ASSUME NEW i \in kept, q[i] = x PROVE \E k \in 1 .. c : w[k] = x
            BY <3>2, <1>3, <1>5
        <3> QED
            BY <3>1, <3>2
    <2>3. (\E i \in kept : q[i] = x) <=> x \in ToSet(q) \ S
        BY ElementsOf
    <2> QED
        BY <2>1, <2>2, <2>3
<1>10. ASSUME NEW i \in 1 .. c, NEW j \in 1 .. c, i < j
       PROVE  \E a, b \in 1 .. Len(q) : a < b /\ w[i] = q[a] /\ w[j] = q[b]
    <2>1. at(i) \in kept /\ at(j) \in kept /\ place(at(i)) = i /\ place(at(j)) = j
        BY <1>4
    <2>2. at(i) # at(j) /\ ~(at(j) < at(i))
        BY <2>1, <1>3, <1>10
    <2>3. at(i) \in 1 .. Len(q) /\ at(j) \in 1 .. Len(q)
        BY <2>1
    <2>4. at(i) < at(j)
        BY <2>2, <2>3
    <2>5. w[i] = q[at(i)] /\ w[j] = q[at(j)]
        OBVIOUS
    <2> QED
        BY <2>3, <2>4, <2>5
<1> HIDE DEF w
<1> QED
    BY <1>1, <1>7, <1>8, <1>9, <1>10

\* Appending a new element.
LEMMA AppendList ==
    ASSUME NEW C, NEW q \in Seq(C), NEW x \in C
    PROVE  /\ Append(q, x) \in Seq(C)
           /\ ToSet(Append(q, x)) = ToSet(q) \cup {x}
           /\ Distinct(q) /\ x \notin ToSet(q) => Distinct(Append(q, x))
<1>1. /\ Append(q, x) \in Seq(C) /\ Len(Append(q, x)) = Len(q) + 1 /\ Len(q) \in Nat
      /\ \A i \in 1 .. Len(q) + 1 : Append(q, x)[i] = IF i <= Len(q) THEN q[i] ELSE x
    OBVIOUS
<1>2. ToSet(Append(q, x)) = ToSet(q) \cup {x}
    <2>1. ASSUME NEW y PROVE y \in ToSet(Append(q, x)) <=> y \in ToSet(q) \/ y = x
        <3>1. y \in ToSet(Append(q, x)) <=> \E i \in 1 .. Len(q) + 1 : Append(q, x)[i] = y
            BY <1>1, ElementsOf
        <3>2. y \in ToSet(q) <=> \E i \in 1 .. Len(q) : q[i] = y
            BY ElementsOf
        <3>3. Len(q) + 1 \in 1 .. Len(q) + 1 /\ Append(q, x)[Len(q) + 1] = x
            BY <1>1
        <3> QED
            BY <1>1, <3>1, <3>2, <3>3
    <2> QED
        BY <2>1
<1>3. ASSUME Distinct(q), x \notin ToSet(q) PROVE Distinct(Append(q, x))
    <2>1. \A i \in 1 .. Len(q) : q[i] # x
        BY <1>3, ElementsOf
    <2> QED
        BY <1>1, <1>3, <2>1 DEF Distinct
<1> QED
    BY <1>1, <1>2, <1>3

\* Removing the first element of a list.
LEMMA TailList ==
    ASSUME NEW C, NEW q \in Seq(C), q # << >>, Distinct(q)
    PROVE  /\ Head(q) \in C /\ Head(q) \in ToSet(q)
           /\ Tail(q) \in Seq(C) /\ Distinct(Tail(q))
           /\ ToSet(Tail(q)) = ToSet(q) \ {Head(q)}
<1>1. /\ Tail(q) \in Seq(C) /\ Len(q) \in Nat /\ Len(q) > 0 /\ Len(Tail(q)) = Len(q) - 1
      /\ \A i \in 1 .. Len(q) - 1 : Tail(q)[i] = q[i + 1]
      /\ Head(q) = q[1] /\ q[1] \in C
    BY EmptySeq
<1>2. Distinct(Tail(q))
    <2> SUFFICES ASSUME NEW i \in 1 .. Len(q) - 1, NEW j \in 1 .. Len(q) - 1,
                        Tail(q)[i] = Tail(q)[j]
                 PROVE  i = j
        BY <1>1 DEF Distinct
    <2>1. i + 1 \in 1 .. Len(q) /\ j + 1 \in 1 .. Len(q) /\ q[i + 1] = q[j + 1]
        BY <1>1
    <2>2. i + 1 = j + 1
        BY <2>1 DEF Distinct
    <2> QED
        BY <2>2
<1>3. ASSUME NEW x PROVE x \in ToSet(Tail(q)) <=> x \in ToSet(q) /\ x # Head(q)
    <2>1. x \in ToSet(Tail(q)) <=> \E i \in 1 .. Len(q) - 1 : Tail(q)[i] = x
        <3>1. x \in ToSet(Tail(q)) <=> \E i \in 1 .. Len(Tail(q)) : Tail(q)[i] = x
            BY <1>1, ElementsOf, Zenon
        <3> QED
            BY <1>1, <3>1, Zenon
    <2>2. x \in ToSet(q) <=> \E i \in 1 .. Len(q) : q[i] = x
        BY ElementsOf
    <2>3. ASSUME NEW i \in 1 .. Len(q) - 1, Tail(q)[i] = x
          PROVE  x \in ToSet(q) /\ x # Head(q)
        <3>1. i + 1 \in 1 .. Len(q) /\ 1 \in 1 .. Len(q) /\ q[i + 1] = x
            BY <1>1, <2>3
        <3>2. q[i + 1] # q[1]
            <4>1. i + 1 # 1
                BY <1>1
            <4> QED
                BY <3>1, <4>1 DEF Distinct
        <3> QED
            BY <1>1, <2>2, <3>1, <3>2
    <2>4. ASSUME NEW i \in 1 .. Len(q), q[i] = x, x # Head(q)
          PROVE  x \in ToSet(Tail(q))
        <3>1. i # 1
            BY <1>1, <2>4
        <3>2. i - 1 \in 1 .. Len(q) - 1 /\ (i - 1) + 1 = i
            BY <1>1, <3>1
        <3>3. Tail(q)[i - 1] = q[i]
            BY <1>1, <3>2
        <3> QED
            BY <2>1, <2>4, <3>2, <3>3
    <2> QED
        BY <2>1, <2>2, <2>3, <2>4
<1>4. Head(q) \in ToSet(q)
    <2>1. 1 \in 1 .. Len(q)
        BY <1>1
    <2> QED
        BY <1>1, <2>1, ElementsOf
<1> QED
    BY <1>1, <1>2, <1>3, <1>4

\* Joining two lists.
LEMMA JoinLists ==
    ASSUME NEW C, NEW p \in Seq(C), NEW q \in Seq(C)
    PROVE  /\ p \o q \in Seq(C)
           /\ ToSet(p \o q) = ToSet(p) \cup ToSet(q)
           /\ Distinct(p) /\ Distinct(q) /\ ToSet(p) \cap ToSet(q) = {} => Distinct(p \o q)
<1>1. /\ p \o q \in Seq(C) /\ Len(p \o q) = Len(p) + Len(q) /\ Len(p) \in Nat /\ Len(q) \in Nat
      /\ \A i \in 1 .. Len(p) + Len(q) : (p \o q)[i] = IF i <= Len(p) THEN p[i] ELSE q[i - Len(p)]
    BY ConcatProperties
<1>2. \A i \in 1 .. Len(p) : i \in 1 .. Len(p) + Len(q) /\ (p \o q)[i] = p[i]
    BY <1>1
<1>3. \A i \in 1 .. Len(q) : i + Len(p) \in 1 .. Len(p) + Len(q) /\ (p \o q)[i + Len(p)] = q[i]
    <2> TAKE i \in 1 .. Len(q)
    <2>1. i + Len(p) \in 1 .. Len(p) + Len(q) /\ ~(i + Len(p) <= Len(p)) /\ i + Len(p) - Len(p) = i
        BY <1>1
    <2> QED
        BY <1>1, <2>1
<1>4. ASSUME NEW x PROVE x \in ToSet(p \o q) <=> x \in ToSet(p) \/ x \in ToSet(q)
    <2>1. /\ x \in ToSet(p \o q) <=> \E i \in 1 .. Len(p) + Len(q) : (p \o q)[i] = x
          /\ x \in ToSet(p) <=> \E i \in 1 .. Len(p) : p[i] = x
          /\ x \in ToSet(q) <=> \E i \in 1 .. Len(q) : q[i] = x
        BY <1>1, ElementsOf
    <2>2. ASSUME NEW i \in 1 .. Len(p) + Len(q), (p \o q)[i] = x
          PROVE  x \in ToSet(p) \/ x \in ToSet(q)
        <3>1. CASE i <= Len(p)
            BY <1>1, <2>1, <2>2, <3>1
        <3>2. CASE ~(i <= Len(p))
            <4>1. i - Len(p) \in 1 .. Len(q) /\ q[i - Len(p)] = x
                BY <1>1, <2>2, <3>2
            <4> QED
                BY <2>1, <4>1
        <3> QED
            BY <3>1, <3>2
    <2> QED
        BY <1>2, <1>3, <2>1, <2>2
<1>5. ASSUME Distinct(p), Distinct(q), ToSet(p) \cap ToSet(q) = {} PROVE Distinct(p \o q)
    <2> SUFFICES ASSUME NEW i \in 1 .. Len(p) + Len(q), NEW j \in 1 .. Len(p) + Len(q),
                        (p \o q)[i] = (p \o q)[j]
                 PROVE  i = j
        BY <1>1 DEF Distinct
    <2>1. \A k \in 1 .. Len(p) : p[k] \in ToSet(p)
        BY ElementsOf
    <2>2. \A k \in 1 .. Len(q) : q[k] \in ToSet(q)
        BY ElementsOf
    <2>3. CASE i <= Len(p) /\ j <= Len(p)
        BY <1>1, <1>5, <2>3 DEF Distinct
    <2>4. CASE ~(i <= Len(p)) /\ ~(j <= Len(p))
        <3>1. /\ i - Len(p) \in 1 .. Len(q) /\ j - Len(p) \in 1 .. Len(q)
              /\ q[i - Len(p)] = q[j - Len(p)]
            BY <1>1, <2>4
        <3>2. i - Len(p) = j - Len(p)
            BY <1>5, <3>1 DEF Distinct
        <3> QED
            BY <1>1, <3>2
    <2>5. CASE i <= Len(p) /\ ~(j <= Len(p))
        <3>1. i \in 1 .. Len(p) /\ j - Len(p) \in 1 .. Len(q) /\ p[i] = q[j - Len(p)]
            BY <1>1, <2>5
        <3> QED
            BY <1>5, <2>1, <2>2, <3>1
    <2>6. CASE ~(i <= Len(p)) /\ j <= Len(p)
        <3>1. j \in 1 .. Len(p) /\ i - Len(p) \in 1 .. Len(q) /\ p[j] = q[i - Len(p)]
            BY <1>1, <2>6
        <3> QED
            BY <1>5, <2>1, <2>2, <3>1
    <2> QED
        BY <2>3, <2>4, <2>5, <2>6
<1> QED
    BY <1>1, <1>4, <1>5

=============================================================================
