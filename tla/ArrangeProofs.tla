--------------------------- MODULE ArrangeProofs ---------------------------
(***************************************************************************)
(* What the operators of Arrange return, for every finite set, order and   *)
(* sequence, and induction over the natural numbers as a fact about sets.  *)
(***************************************************************************)
EXTENDS Arrange, FiniteSetsExt, FiniteSetTheorems, FunctionTheorems, WellFoundedInduction,
        NaturalsInduction, TLAPS

(* A set of numbers that holds 0 and with each number the next one holds   *)
(* all of them.                                                            *)
LEMMA NatSet ==
  ASSUME NEW A, 0 \in A, \A n \in Nat : n \in A => n + 1 \in A
  PROVE  Nat \subseteq A
<1> DEFINE R == OpToRel(<, Nat)
           T == Nat \ A
<1> SUFFICES ASSUME T # {} PROVE FALSE
  OBVIOUS
<1>1. IsWellFoundedOn(R, Nat)
  BY NatLessThanWellFounded
<1>2. T \subseteq Nat
  OBVIOUS
<1>3. \E x \in T : \A y \in T : <<y, x>> \notin R
  <2> HIDE DEF R, T
  <2> QED BY <1>1, <1>2, WFMin
<1>4. PICK x \in T : \A y \in T : <<y, x>> \notin R
  BY <1>3
<1>5. \A y \in T : ~(y < x)
  BY <1>4 DEF OpToRel
<1>6. x # 0 /\ x - 1 \in Nat
  OBVIOUS
<1>7. x - 1 \in A
  BY <1>5, <1>6
<1>8. (x - 1) + 1 \in A
  BY <1>6, <1>7
<1> QED BY <1>8

(* A strict total order on T, as a set of pairs.                           *)
Orders(before, T) ==
  /\ \A i \in T : <<i, i>> \notin before
  /\ \A i, k \in T : i # k => <<i, k>> \in before \/ <<k, i>> \in before
  /\ \A i, j, k \in T : <<i, j>> \in before /\ <<j, k>> \in before => <<i, k>> \in before

Below(T, before, i) == {k \in T : <<k, i>> \in before}

LEMMA BelowGrows ==
  ASSUME NEW T, IsFiniteSet(T), NEW before, Orders(before, T),
         NEW i \in T, NEW k \in T, <<i, k>> \in before
  PROVE  Cardinality(Below(T, before, i)) < Cardinality(Below(T, before, k))
<1> DEFINE I == Below(T, before, i)  K == Below(T, before, k)
<1>1. I \subseteq T /\ K \subseteq T /\ i \notin I /\ I \cup {i} \subseteq K
  BY DEF Below, Orders
<1>2. IsFiniteSet(I) /\ IsFiniteSet(K)
  BY <1>1, FS_Subset
<1>3. Cardinality(I \cup {i}) = Cardinality(I) + 1 /\ Cardinality(I) \in Nat
  BY <1>1, <1>2, FS_AddElement, FS_CardinalityType
<1>4. Cardinality(I \cup {i}) <= Cardinality(K) /\ Cardinality(K) \in Nat
  BY <1>1, <1>2, FS_Subset, FS_CardinalityType
<1> HIDE DEF I, K
<1>5. Cardinality(I) < Cardinality(K)
  BY <1>3, <1>4
<1> QED BY <1>5 DEF I, K

LEMMA PlaceIsBijective ==
  ASSUME NEW T, IsFiniteSet(T), NEW before, Orders(before, T)
  PROVE  /\ \A i \in T : /\ Cardinality(Below(T, before, i)) \in Nat
                          /\ Cardinality(Below(T, before, i)) + 1 \in 1..Cardinality(T)
         /\ \A i, k \in T : Cardinality(Below(T, before, i)) = Cardinality(Below(T, before, k))
                              => i = k
         /\ \A n \in 1..Cardinality(T) :
              \E i \in T : Cardinality(Below(T, before, i)) + 1 = n
<1> DEFINE B(i) == Below(T, before, i)
           place == [i \in T |-> Cardinality(B(i)) + 1]
<1>1. ASSUME NEW i \in T
      PROVE  Cardinality(B(i)) \in Nat /\ Cardinality(B(i)) + 1 \in 1..Cardinality(T)
  <2>1. B(i) \subseteq T \ {i}
    BY DEF Below, Orders
  <2>2. IsFiniteSet(T \ {i}) /\ Cardinality(T \ {i}) = Cardinality(T) - 1
    BY FS_RemoveElement
  <2>3. Cardinality(B(i)) <= Cardinality(T) - 1 /\ Cardinality(B(i)) \in Nat
    BY <2>1, <2>2, FS_Subset, FS_CardinalityType
  <2>4. Cardinality(T) \in Nat
    BY FS_CardinalityType
  <2> QED BY <2>3, <2>4
<1>2. ASSUME NEW i \in T, NEW k \in T, Cardinality(B(i)) = Cardinality(B(k))
      PROVE  i = k
  <2> SUFFICES ASSUME i # k PROVE FALSE
    OBVIOUS
  <2>1. <<i, k>> \in before \/ <<k, i>> \in before
    BY DEF Orders
  <2>2. Cardinality(B(i)) \in Int /\ Cardinality(B(k)) \in Int
    BY <1>1
  <2>3. Cardinality(B(i)) < Cardinality(B(k)) \/ Cardinality(B(k)) < Cardinality(B(i))
    BY <2>1, BelowGrows
  <2> QED BY <1>2, <2>2, <2>3
<1>3. place \in Injection(T, 1..Cardinality(T))
  <2>1. place \in [T -> 1..Cardinality(T)]
    BY <1>1
  <2>2. \A i, k \in T : place[i] = place[k] => i = k
    <3> SUFFICES ASSUME NEW i \in T, NEW k \in T, place[i] = place[k] PROVE i = k
      OBVIOUS
    <3>1. Cardinality(B(i)) \in Int /\ Cardinality(B(k)) \in Int
      BY <1>1
    <3>2. Cardinality(B(i)) = Cardinality(B(k))
      BY <3>1
    <3> QED BY <1>2, <3>2
  <2> QED BY <2>1, <2>2, Fun_IsInj
<1>4. place \in Surjection(T, 1..Cardinality(T))
  <2> DEFINE N == Cardinality(T)
  <2>1. N \in Nat
    BY FS_CardinalityType
  <2>2. IsFiniteSet(1..N) /\ Cardinality(1..N) = N
    <3> HIDE DEF N
    <3> QED BY <2>1, FS_Interval
  <2> HIDE DEF place
  <2> QED BY <1>3, <2>2, FS_Injection
<1>5. \A n \in 1..Cardinality(T) : \E i \in T : place[i] = n
  <2> HIDE DEF place
  <2> QED BY <1>4 DEF Surjection
<1> QED BY <1>1, <1>2, <1>5

LEMMA ValueOfSingleton == ASSUME NEW v PROVE Value({v}) = v
BY DEF Value

(* Listed puts every element of T once, those before others first.         *)
LEMMA ListedIsBijective ==
  ASSUME NEW T, IsFiniteSet(T), NEW before, Orders(before, T)
  PROVE  /\ Cardinality(T) \in Nat
         /\ Listed(T, before) \in Seq(T) /\ Len(Listed(T, before)) = Cardinality(T)
         /\ \A i \in T : \E n \in 1..Cardinality(T) : Listed(T, before)[n] = i
         /\ \A n, m \in 1..Cardinality(T) :
              n < m <=> <<Listed(T, before)[n], Listed(T, before)[m]>> \in before
<1> DEFINE place == [i \in T |-> Cardinality(Below(T, before, i)) + 1]
           N == Cardinality(T)
           list == [n \in 1..N |-> CHOOSE i \in T : place[i] = n]
           L == Listed(T, before)
<1>0. N \in Nat
  BY FS_CardinalityType
<1>1. L = SubSeq(list, 1, N)
  <2>1. L = Value({SubSeq([n \in 1..N |-> CHOOSE i \in T : p[i] = n], 1, N) : p \in {place}})
    BY DEF Listed, Below
  <2>2. {SubSeq([n \in 1..N |-> CHOOSE i \in T : p[i] = n], 1, N) : p \in {place}}
          = {SubSeq(list, 1, N)}
    <3> HIDE DEF place, N
    <3> QED OBVIOUS
  <2> QED BY <2>1, <2>2, ValueOfSingleton
<1>2. \A n \in 1..N : \E i \in T : place[i] = n
  BY PlaceIsBijective
<1>3. \A i \in T : place[i] \in 1..N
  BY PlaceIsBijective
<1>4. \A i, k \in T : place[i] = place[k] => i = k
  <2> SUFFICES ASSUME NEW i \in T, NEW k \in T, place[i] = place[k] PROVE i = k
    OBVIOUS
  <2>1. Cardinality(Below(T, before, i)) \in Nat /\ Cardinality(Below(T, before, k)) \in Nat
    BY PlaceIsBijective
  <2>2. Cardinality(Below(T, before, i)) = Cardinality(Below(T, before, k))
    BY <2>1
  <2> QED BY <2>2, PlaceIsBijective
<1>5. \A i, k \in T : <<i, k>> \in before => place[i] < place[k]
  <2> SUFFICES ASSUME NEW i \in T, NEW k \in T, <<i, k>> \in before
               PROVE  place[i] < place[k]
    OBVIOUS
  <2>1. Cardinality(Below(T, before, i)) \in Nat /\ Cardinality(Below(T, before, k)) \in Nat
    BY PlaceIsBijective
  <2> QED BY <2>1, BelowGrows
<1> HIDE DEF place, N, L
<1>6. \A n \in 1..N : list[n] \in T /\ place[list[n]] = n
  BY <1>2
<1> HIDE DEF list
<1>7. list \in [1..N -> T]
  BY <1>6 DEF list
<1>8. L \in Seq(T) /\ Len(L) = N /\ \A n \in 1..N : L[n] = list[n]
  BY <1>0, <1>1, <1>7
<1>9. \A i \in T : \E n \in 1..N : L[n] = i
  BY <1>3, <1>4, <1>6, <1>8
<1>10. \A n, m \in 1..N : n < m <=> <<L[n], L[m]>> \in before
  <2> SUFFICES ASSUME NEW n \in 1..N, NEW m \in 1..N
               PROVE  n < m <=> <<L[n], L[m]>> \in before
    OBVIOUS
  <2>1. L[n] \in T /\ L[m] \in T /\ place[L[n]] = n /\ place[L[m]] = m
    BY <1>6, <1>8
  <2>2. <<L[n], L[m]>> \in before => n < m
    BY <2>1, <1>5
  <2>3. <<L[m], L[n]>> \in before => m < n
    BY <2>1, <1>5
  <2>4. L[n] # L[m] => <<L[n], L[m]>> \in before \/ <<L[m], L[n]>> \in before
    BY <2>1 DEF Orders
  <2>5. L[n] = L[m] => n = m
    BY <2>1
  <2> QED BY <1>0, <2>1, <2>2, <2>3, <2>4, <2>5
<1> QED BY <1>0, <1>8, <1>9, <1>10 DEF L, N

LEMMA AscendingOrders ==
  ASSUME NEW T, T \subseteq Int PROVE Orders(Ascending(T), T)
BY DEF Orders, Ascending

LEMMA IndicesAreFinite ==
  ASSUME NEW N \in Nat, NEW T \in SUBSET (1..N)
  PROVE  IsFiniteSet(T) /\ Cardinality(T) \in 0..N
<1>1. IsFiniteSet(1..N) /\ Cardinality(1..N) = N
  BY FS_Interval
<1>2. IsFiniteSet(T) /\ Cardinality(T) <= N /\ Cardinality(T) \in Nat
  BY <1>1, FS_Subset, FS_CardinalityType
<1> QED BY <1>2

(* A filter keeps the elements at the indices it was asked to keep, in     *)
(* their order, and no other.                                              *)
LEMMA KeptElements ==
  ASSUME NEW S, NEW seq \in Seq(S), NEW T \in SUBSET (1..Len(seq))
  PROVE  /\ Kept(seq, T) \in Seq(S)
         /\ Len(Kept(seq, T)) = Cardinality(T) /\ Cardinality(T) \in 0..Len(seq)
         /\ \A n \in 1..Len(Kept(seq, T)) : \E i \in T : Kept(seq, T)[n] = seq[i]
         /\ \A i \in T : \E n \in 1..Len(Kept(seq, T)) : Kept(seq, T)[n] = seq[i]
<1> DEFINE N == Cardinality(T)
           at == Listed(T, Ascending(T))
           kept == [n \in 1..Len(at) |-> seq[at[n]]]
<1>1. Len(seq) \in Nat /\ T \subseteq Int
  OBVIOUS
<1>2. IsFiniteSet(T) /\ N \in 0..Len(seq)
  BY <1>1, IndicesAreFinite
<1>3. /\ at \in Seq(T) /\ Len(at) = N
      /\ \A i \in T : \E n \in 1..N : at[n] = i
  BY <1>1, <1>2, AscendingOrders, ListedIsBijective
<1>4. Kept(seq, T) = SubSeq(kept, 1, Len(at))
  <2>1. {SubSeq([n \in 1..Len(a) |-> seq[a[n]]], 1, Len(a)) : a \in {at}}
          = {SubSeq(kept, 1, Len(at))}
    OBVIOUS
  <2> QED BY <2>1, ValueOfSingleton DEF Kept
<1> HIDE DEF N, at
<1>5. \A n \in 1..N : at[n] \in T /\ seq[at[n]] \in S
  <2>1. at \in [1..Len(at) -> T]
    BY <1>3
  <2>2. \A i \in T : seq[i] \in S
    BY <1>1
  <2> QED BY <1>3, <2>1, <2>2
<1>6. kept \in [1..N -> S]
  BY <1>3, <1>5
<1>7. Kept(seq, T) \in Seq(S) /\ Len(Kept(seq, T)) = N
      /\ \A n \in 1..N : Kept(seq, T)[n] = seq[at[n]]
  BY <1>1, <1>2, <1>3, <1>4, <1>6
<1>8. \A n \in 1..N : \E i \in T : Kept(seq, T)[n] = seq[i]
  BY <1>5, <1>7
<1>9. \A i \in T : \E n \in 1..N : Kept(seq, T)[n] = seq[i]
  BY <1>3, <1>7
<1> QED BY <1>2, <1>7, <1>8, <1>9 DEF N

(* A sort keeps every element, and none has a higher score than one that   *)
(* comes before it.                                                        *)
LEMMA BestFirstSorts ==
  ASSUME NEW S, NEW seq \in Seq(S), NEW score \in [1..Len(seq) -> Int]
  PROVE  /\ BestFirst(seq, score) \in Seq(S)
         /\ Len(BestFirst(seq, score)) = Len(seq)
         /\ \E order \in [1..Len(seq) -> 1..Len(seq)] :
              /\ \A n \in 1..Len(seq) : BestFirst(seq, score)[n] = seq[order[n]]
              /\ \A i \in 1..Len(seq) : \E n \in 1..Len(seq) : order[n] = i
              /\ \A n, m \in 1..Len(seq) : n < m => score[order[n]] >= score[order[m]]
<1> DEFINE N == Len(seq)
           T == 1..N
           before == {e \in T \X T : \/ score[e[1]] > score[e[2]]
                                     \/ score[e[1]] = score[e[2]] /\ e[1] < e[2]}
           order == Listed(T, before)
           sorted == [n \in 1..Len(seq) |-> seq[order[n]]]
<1>1. N \in Nat /\ DOMAIN seq = T
  OBVIOUS
<1>2. Orders(before, T)
  <2>1. \A i \in T : <<i, i>> \notin before
    OBVIOUS
  <2>2. \A i, k \in T : i # k => <<i, k>> \in before \/ <<k, i>> \in before
    OBVIOUS
  <2>3. \A i, j, k \in T :
          <<i, j>> \in before /\ <<j, k>> \in before => <<i, k>> \in before
    OBVIOUS
  <2> HIDE DEF before, T
  <2> QED BY <2>1, <2>2, <2>3 DEF Orders
<1>3. IsFiniteSet(T) /\ Cardinality(T) = N
  <2> HIDE DEF N
  <2> QED BY <1>1, FS_Interval
<1>4. /\ order \in Seq(T) /\ Len(order) = N
      /\ \A i \in T : \E n \in 1..N : order[n] = i
      /\ \A n, m \in 1..N : n < m <=> <<order[n], order[m]>> \in before
  <2> HIDE DEF before, T, N
  <2> QED BY <1>2, <1>3, ListedIsBijective
<1>5. BestFirst(seq, score) = SubSeq(sorted, 1, N)
  <2>1. {SubSeq([n \in 1..Len(seq) |-> seq[o[n]]], 1, Len(seq)) : o \in {order}}
          = {SubSeq(sorted, 1, N)}
    OBVIOUS
  <2>2. BestFirst(seq, score) =
          Value({SubSeq([n \in 1..Len(seq) |-> seq[o[n]]], 1, Len(seq)) : o \in {order}})
    BY <1>1 DEF BestFirst
  <2> QED BY <2>1, <2>2, ValueOfSingleton
<1>6. \A n, m \in T : <<n, m>> \in before => score[n] >= score[m]
  OBVIOUS
<1>7. T = 1..N /\ \A n \in T : seq[n] \in S
  OBVIOUS
<1> HIDE DEF before, order, T
<1>8. order \in [1..N -> 1..N]
  <2>1. order \in [1..Len(order) -> T]
    BY <1>4
  <2> QED BY <2>1, <1>4, <1>7
<1>9. sorted \in [1..N -> S]
  BY <1>7, <1>8
<1>10. /\ BestFirst(seq, score) \in Seq(S) /\ Len(BestFirst(seq, score)) = N
       /\ \A n \in 1..N : BestFirst(seq, score)[n] = seq[order[n]]
  BY <1>1, <1>5, <1>9
<1>11. \A n, m \in 1..N : n < m => score[order[n]] >= score[order[m]]
  BY <1>4, <1>6, <1>7, <1>8
<1> QED BY <1>4, <1>7, <1>8, <1>10, <1>11

(* Among finitely many numbers one is the highest.                         *)
LEMMA HighestExists ==
  ASSUME NEW N \in Nat, N >= 1, NEW f \in [1..N -> Int]
  PROVE  \E top \in 1..N : \A k \in 1..N : f[top] >= f[k]
<1> DEFINE seq == [n \in 1..N |-> n]
<1>1. seq \in Seq(Nat) /\ Len(seq) = N
  OBVIOUS
<1> HIDE DEF seq
<1>f. f \in [1..Len(seq) -> Int]
  BY <1>1
<1>2. \E order \in [1..N -> 1..N] :
        /\ \A n \in 1..N : BestFirst(seq, f)[n] = seq[order[n]]
        /\ \A i \in 1..N : \E n \in 1..N : order[n] = i
        /\ \A n, m \in 1..N : n < m => f[order[n]] >= f[order[m]]
  <2>1. \E order \in [1..Len(seq) -> 1..Len(seq)] :
          /\ \A n \in 1..Len(seq) : BestFirst(seq, f)[n] = seq[order[n]]
          /\ \A i \in 1..Len(seq) : \E n \in 1..Len(seq) : order[n] = i
          /\ \A n, m \in 1..Len(seq) : n < m => f[order[n]] >= f[order[m]]
    BY <1>1, <1>f, BestFirstSorts
  <2> QED BY <1>1, <2>1
<1>3. PICK order \in [1..N -> 1..N] :
        /\ \A i \in 1..N : \E n \in 1..N : order[n] = i
        /\ \A n, m \in 1..N : n < m => f[order[n]] >= f[order[m]]
  BY <1>2
<1>4. 1 \in 1..N /\ order[1] \in 1..N
  BY <1>3
<1>5. ASSUME NEW k \in 1..N PROVE f[order[1]] >= f[k]
  <2>1. PICK n \in 1..N : order[n] = k
    BY <1>3
  <2>2. n = 1 \/ 1 < n
    OBVIOUS
  <2>3. CASE n = 1
    BY <1>4, <2>1, <2>3
  <2>4. CASE 1 < n
    BY <1>3, <1>4, <2>1, <2>4
  <2> QED BY <2>2, <2>3, <2>4
<1> QED BY <1>4, <1>5

(* The smaller of two integers.                                            *)
LEMMA TwoMin ==
  ASSUME NEW a \in Int, NEW b \in Int
  PROVE  Min({a, b}) \in {a, b} /\ Min({a, b}) <= a /\ Min({a, b}) <= b
<1>1. \E x \in {a, b} : \A y \in {a, b} : x <= y
  OBVIOUS
<1> QED BY <1>1 DEF Min

(* The first k elements of a sequence, or all of it.                       *)
LEMMA Prefix ==
  ASSUME NEW S, NEW seq \in Seq(S), NEW k \in Nat
  PROVE  LET p == SubSeq(seq, 1, Min({Len(seq), k}))
         IN  /\ p \in Seq(S) /\ Len(p) = Min({Len(seq), k})
             /\ Len(p) \in Nat /\ Len(p) <= Len(seq) /\ Len(p) <= k
             /\ (seq # <<>> /\ k > 0 => Len(p) > 0)
             /\ \A n \in 1..Len(p) : n \in 1..Len(seq) /\ p[n] = seq[n]
<1> DEFINE m == Min({Len(seq), k})
           p == SubSeq(seq, 1, m)
<1>0. Len(seq) \in Nat
  OBVIOUS
<1>1. m \in Nat /\ m <= Len(seq) /\ m <= k /\ m \in {Len(seq), k}
  <2> DEFINE N == Len(seq)
  <2> HIDE DEF N
  <2>1. N \in Int /\ k \in Int /\ N \in Nat
    BY <1>0 DEF N
  <2>2. Min({N, k}) \in {N, k} /\ Min({N, k}) <= N /\ Min({N, k}) <= k
    BY <2>1, TwoMin
  <2> QED BY <2>1, <2>2 DEF N
<1> HIDE DEF m
<1>2. \A i \in 1..m : seq[i] \in S
  BY <1>1
<1>3. p \in Seq(S) /\ Len(p) = m /\ \A i \in 1..m : p[i] = seq[i]
  BY <1>1, <1>2
<1>4. seq # <<>> /\ k > 0 => m > 0
  BY <1>1
<1> HIDE DEF p
<1>5. /\ p \in Seq(S) /\ Len(p) = m
      /\ Len(p) \in Nat /\ Len(p) <= Len(seq) /\ Len(p) <= k
      /\ (seq # <<>> /\ k > 0 => Len(p) > 0)
  BY <1>1, <1>3, <1>4
<1>6. \A n \in 1..Len(p) : n \in 1..Len(seq) /\ p[n] = seq[n]
  BY <1>0, <1>1, <1>3
<1> QED BY <1>5, <1>6 DEF p, m
=============================================================================
