---------------------------- MODULE FiniteOrders ----------------------------
(***************************************************************************)
(* A finite set that is strictly ordered, and the sequence that has its    *)
(* members in their order: the place of each is told by how many come      *)
(* before it.  The sources of a build and the entries of a page of logs    *)
(* are put in order in this way.                                           *)
(***************************************************************************)
EXTENDS FiniteSetTheorems, WellFoundedInduction, SequenceTheorems, TLAPS

\* R has the pairs <<a, b>> with a before b.
Orders(R, S) ==
  /\ \A a \in S : <<a, a>> \notin R
  /\ \A a, b \in S : a # b => <<a, b>> \in R \/ <<b, a>> \in R
  /\ \A a, b, c \in S : <<a, b>> \in R /\ <<b, c>> \in R => <<a, c>> \in R

Earlier(S, R, e) == {d \in S : <<d, e>> \in R}
Rank(S, R, e) == Cardinality(Earlier(S, R, e))
Ranked(S, R) == [i \in 1..Cardinality(S) |-> CHOOSE e \in S : Rank(S, R, e) = i - 1]

\* What is before another has fewer before it.
LEMMA RankGrows ==
  ASSUME NEW S, IsFiniteSet(S), NEW R, Orders(R, S)
  PROVE  /\ \A e \in S : Rank(S, R, e) \in 0..Cardinality(S) - 1
         /\ \A d, e \in S : <<d, e>> \in R => Rank(S, R, d) < Rank(S, R, e)
<1>1. \A T \in SUBSET S : IsFiniteSet(T) /\ Cardinality(T) \in Nat
  BY FS_Subset, FS_CardinalityType
<1>2. Cardinality(S) \in Nat
  BY FS_CardinalityType
<1>3. ASSUME NEW e \in S PROVE Rank(S, R, e) \in 0..Cardinality(S) - 1
  <2>1. Earlier(S, R, e) \in SUBSET S /\ Earlier(S, R, e) # S
    BY <1>3 DEF Earlier, Orders
  <2>2. Cardinality(Earlier(S, R, e)) <= Cardinality(S) /\ Cardinality(Earlier(S, R, e)) # Cardinality(S)
    BY <2>1, FS_Subset
  <2>3. Cardinality(Earlier(S, R, e)) \in Nat
    BY <1>1, <2>1
  <2> QED
    BY <1>2, <2>2, <2>3 DEF Rank
<1>4. ASSUME NEW d \in S, NEW e \in S, <<d, e>> \in R PROVE Rank(S, R, d) < Rank(S, R, e)
  <2> DEFINE D == Earlier(S, R, d)
             E == Earlier(S, R, e)
  <2>1. D \in SUBSET E /\ d \in E /\ d \notin D /\ E \in SUBSET S /\ D \in SUBSET S
    BY <1>4 DEF Earlier, Orders
  <2>2. IsFiniteSet(E) /\ Cardinality(E) \in Nat /\ Cardinality(D) \in Nat
    BY <1>1, <2>1
  <2>3. D # E
    BY <2>1
  <2> HIDE DEF D, E
  <2>4. Cardinality(D) <= Cardinality(E) /\ Cardinality(D) # Cardinality(E)
    BY <2>1, <2>2, <2>3, FS_Subset
  <2>5. Cardinality(D) < Cardinality(E)
    BY <2>2, <2>4
  <2> USE DEF D, E
  <2> QED
    BY <2>5 DEF Rank
<1> QED
  BY <1>3, <1>4

\* Every place is taken, by one member alone.
LEMMA EveryRank ==
  ASSUME NEW S, IsFiniteSet(S), NEW R, Orders(R, S)
  PROVE  /\ \A d, e \in S : Rank(S, R, d) = Rank(S, R, e) => d = e
         /\ \A k \in 0..Cardinality(S) - 1 : \E e \in S : Rank(S, R, e) = k
<1>1. Cardinality(S) \in Nat
  BY FS_CardinalityType
<1>2. \A e \in S : Rank(S, R, e) \in 0..Cardinality(S) - 1
  BY RankGrows
<1>3. ASSUME NEW d \in S, NEW e \in S, Rank(S, R, d) = Rank(S, R, e) PROVE d = e
  <2>1. ~(Rank(S, R, d) < Rank(S, R, e)) /\ ~(Rank(S, R, e) < Rank(S, R, d))
    BY <1>1, <1>2, <1>3
  <2>2. <<d, e>> \notin R /\ <<e, d>> \notin R
    BY <2>1, RankGrows
  <2> QED
    BY <2>2 DEF Orders
<1>4. ASSUME NEW k \in 0..Cardinality(S) - 1, \A e \in S : Rank(S, R, e) # k PROVE FALSE
  <2> DEFINE n == Cardinality(S)
             T == (0..n - 1) \ {k}
             f == [e \in S |-> Rank(S, R, e)]
  <2>1. IsFiniteSet(0..n - 1) /\ Cardinality(0..n - 1) = n
    <3>1. 0 \in Int /\ n - 1 \in Int /\ (IF 0 > n - 1 THEN 0 ELSE n - 1 - 0 + 1) = n
      BY <1>1, <1>4
    <3> HIDE DEF n
    <3> QED
      BY <3>1, FS_Interval
  <2>2. IsFiniteSet(T) /\ Cardinality(T) = n - 1
    BY <2>1, <1>4, FS_RemoveElement
  <2>3. f \in [S -> T]
    BY <1>2, <1>4
  <2>4. \A x, y \in S : f[x] = f[y] => x = y
    BY <1>3
  <2>5. Cardinality(T) < Cardinality(S)
    BY <1>1, <2>2
  <2> HIDE DEF T, f
  <2>6. \E x, y \in S : x # y /\ f[x] = f[y]
    BY <2>2, <2>3, <2>5, FS_PigeonHole
  <2> QED
    BY <2>4, <2>6
<1> QED
  BY <1>3, <1>4

LEMMA ListType ==
  ASSUME NEW X, NEW n \in Nat, NEW q \in [1..n -> X]
  PROVE  q \in Seq(X) /\ Len(q) = n
<1>1. q \in Seq(X)
  OBVIOUS
<1> QED
  BY <1>1

\* The members in their order.
LEMMA RankedList ==
  ASSUME NEW S, IsFiniteSet(S), NEW R, Orders(R, S)
  PROVE  LET q == Ranked(S, R)
         IN  /\ q \in Seq(S) /\ Len(q) = Cardinality(S)
             /\ \A i \in 1..Cardinality(S) : q[i] \in S /\ Rank(S, R, q[i]) = i - 1
             /\ \A e \in S : /\ Rank(S, R, e) + 1 \in 1..Cardinality(S)
                             /\ q[Rank(S, R, e) + 1] = e
<1> DEFINE q == Ranked(S, R)
<1> DEFINE n == Cardinality(S)
<1>1. n \in Nat
  BY FS_CardinalityType
<1> HIDE DEF n
<1>2. \A i \in 1..n : \E e \in S : Rank(S, R, e) = i - 1
  <2>1. \A i \in 1..n : i - 1 \in 0..n - 1
    BY <1>1
  <2>2. \A k \in 0..n - 1 : \E e \in S : Rank(S, R, e) = k
    BY EveryRank DEF n
  <2> QED
    BY <2>1, <2>2
<1>0. q = [i \in 1..n |-> CHOOSE e \in S : Rank(S, R, e) = i - 1]
  BY DEF Ranked, n
<1> HIDE DEF q
<1>3. \A i \in 1..n : q[i] \in S /\ Rank(S, R, q[i]) = i - 1
  BY <1>0, <1>2
<1>4. q \in Seq(S) /\ Len(q) = n
  <2>1. q = [i \in 1..n |-> q[i]]
    BY <1>0
  <2>2. q \in [1..n -> S]
    BY <1>3, <2>1
  <2> QED
    BY <1>1, <2>2, ListType
<1>5. ASSUME NEW e \in S PROVE Rank(S, R, e) + 1 \in 1..n /\ q[Rank(S, R, e) + 1] = e
  <2>1. Rank(S, R, e) \in 0..n - 1
    BY RankGrows DEF n
  <2>2. Rank(S, R, e) + 1 \in 1..n /\ Rank(S, R, e) + 1 - 1 = Rank(S, R, e)
    BY <1>1, <2>1
  <2>3. PICK i \in 1..n : i = Rank(S, R, e) + 1
    BY <2>2
  <2>4. i - 1 = Rank(S, R, e)
    BY <1>1, <2>1, <2>3
  <2>5. q[i] \in S /\ Rank(S, R, q[i]) = i - 1
    BY <1>3, Zenon
  <2>6. \A d \in S : Rank(S, R, d) = Rank(S, R, e) => d = e
    BY EveryRank
  <2>7. q[i] = e
    BY <2>4, <2>5, <2>6, Zenon
  <2> QED
    BY <2>2, <2>3, <2>7
<1> QED
  BY <1>3, <1>4, <1>5 DEF n, q

-----------------------------------------------------------------------------
(* The first members, and what stays of them when others join.             *)

Least(m, n) == IF m < n THEN m ELSE n
Firsts(S, R, k) == SubSeq(Ranked(S, R), 1, Least(Cardinality(S), k))

\* The members of the sequence of the first k are those with less than k before them.
LEMMA FirstsAre ==
  ASSUME NEW S, IsFiniteSet(S), NEW R, Orders(R, S), NEW k \in Nat
  PROVE  /\ Firsts(S, R, k) \in Seq(S) /\ Len(Firsts(S, R, k)) = Least(Cardinality(S), k)
         /\ \A i \in 1..Least(Cardinality(S), k) : Firsts(S, R, k)[i] = Ranked(S, R)[i]
         /\ {Firsts(S, R, k)[i] : i \in DOMAIN Firsts(S, R, k)} = {e \in S : Rank(S, R, e) < k}
<1> DEFINE q == Ranked(S, R)
           n == Cardinality(S)
           m == Least(n, k)
           f == Firsts(S, R, k)
<1>1. n \in Nat /\ m \in 0..n /\ m <= k /\ (m = n \/ m = k)
  BY FS_CardinalityType DEF Least
<1>2. /\ q \in Seq(S) /\ Len(q) = n
      /\ \A i \in 1..n : q[i] \in S /\ Rank(S, R, q[i]) = i - 1
      /\ \A e \in S : Rank(S, R, e) + 1 \in 1..n /\ q[Rank(S, R, e) + 1] = e
  BY RankedList
<1>3. f = SubSeq(q, 1, m)
  BY DEF Firsts
<1>4. \A e \in S : Rank(S, R, e) \in 0..n - 1
  BY RankGrows
<1> HIDE DEF q, n, m, f
<1>5. f \in Seq(S) /\ Len(f) = m /\ \A i \in 1..m : f[i] = q[i]
  BY <1>1, <1>2, <1>3
<1>6. DOMAIN f = 1..m
  BY <1>1, <1>5
<1>7. ASSUME NEW i \in 1..m PROVE f[i] \in S /\ Rank(S, R, f[i]) < k
  <2>1. i \in 1..n /\ i - 1 < k
    BY <1>1
  <2> QED
    BY <1>2, <1>5, <2>1
<1>8. ASSUME NEW e \in S, Rank(S, R, e) < k PROVE \E i \in 1..m : f[i] = e
  <2>1. PICK i \in 1..n : i = Rank(S, R, e) + 1
    BY <1>2
  <2>2. i \in 1..m
    BY <1>1, <1>4, <1>8, <2>1
  <2>3. f[i] = q[i] /\ q[i] = e
    BY <1>2, <1>5, <2>1, <2>2
  <2> QED
    BY <2>2, <2>3
<1>9. {f[i] : i \in DOMAIN f} = {e \in S : Rank(S, R, e) < k}
  BY <1>6, <1>7, <1>8
<1> QED
  BY <1>5, <1>9 DEF q, n, m, f

\* The first k of everything are the first k of the first k and of what joins them.
LEMMA FirstsJoined ==
  ASSUME NEW A, NEW B, IsFiniteSet(A), IsFiniteSet(B), NEW R, Orders(R, A \cup B), NEW k \in Nat
  PROVE  Firsts({e \in A : Rank(A, R, e) < k} \cup B, R, k) = Firsts(A \cup B, R, k)
<1> DEFINE S == A \cup B
           D == {e \in A : Rank(A, R, e) < k} \cup B
<1>1. IsFiniteSet(S) /\ D \in SUBSET S /\ A \in SUBSET S
  BY FS_Union
<1>2. /\ IsFiniteSet(D) /\ Cardinality(D) \in Nat /\ Cardinality(S) \in Nat
      /\ Cardinality(D) <= Cardinality(S)
  BY <1>1, FS_Subset, FS_CardinalityType
<1>3. Orders(R, S) /\ Orders(R, D)
  BY <1>1 DEF Orders
<1>4. \A T \in SUBSET S : IsFiniteSet(T) /\ Cardinality(T) \in Nat
  BY <1>1, FS_Subset, FS_CardinalityType
<1>5. ASSUME NEW e \in S, Rank(S, R, e) < k PROVE e \in D
  <2>1. CASE e \in B
    BY <2>1
  <2>2. CASE e \in A
    <3>1. Earlier(A, R, e) \in SUBSET Earlier(S, R, e) /\ Earlier(S, R, e) \in SUBSET S
          /\ Earlier(A, R, e) \in SUBSET S
      BY DEF Earlier
    <3>2. /\ Cardinality(Earlier(A, R, e)) <= Cardinality(Earlier(S, R, e))
          /\ Cardinality(Earlier(A, R, e)) \in Nat /\ Cardinality(Earlier(S, R, e)) \in Nat
      BY <1>4, <3>1, FS_Subset
    <3>3. Rank(A, R, e) < k
      BY <1>5, <3>2 DEF Rank
    <3> QED
      BY <2>2, <3>3
  <2> QED
    BY <2>1, <2>2
<1> HIDE DEF S, D
<1>6. \A e \in S : Rank(S, R, e) \in 0..Cardinality(S) - 1
  BY <1>1, <1>3, RankGrows
<1>7. ASSUME NEW e \in S, Rank(S, R, e) < k PROVE e \in D /\ Rank(D, R, e) = Rank(S, R, e)
  <2>1. ASSUME NEW d \in S, <<d, e>> \in R PROVE d \in D
    <3>1. Rank(S, R, d) < Rank(S, R, e)
      BY <1>1, <1>3, <2>1, RankGrows
    <3>2. Rank(S, R, d) < k
      BY <1>2, <1>6, <1>7, <3>1
    <3> QED
      BY <1>5, <3>2
  <2>2. Earlier(D, R, e) = Earlier(S, R, e)
    BY <1>1, <2>1 DEF Earlier
  <2> QED
    BY <1>5, <1>7, <2>2 DEF Rank
<1> DEFINE m == Least(Cardinality(S), k)
<1>8. Least(Cardinality(D), k) = m
  <2>1. CASE Cardinality(S) <= k
    <3>1. \A e \in S : Rank(S, R, e) < k
      BY <1>2, <1>6, <2>1
    <3>2. S = D
      BY <1>1, <1>5, <3>1
    <3> QED
      BY <3>2
  <2>2. CASE k = 0
    BY <1>2, <2>2 DEF Least
  <2>3. CASE Cardinality(S) > k /\ k # 0
    <3>1. k - 1 \in 0..Cardinality(S) - 1
      BY <1>2, <2>3
    <3>2. PICK e \in S : Rank(S, R, e) = k - 1
      BY <1>1, <1>3, <3>1, EveryRank
    <3>3. k - 1 < k
      OBVIOUS
    <3>4. e \in D /\ Rank(D, R, e) = k - 1
      BY <1>7, <3>2, <3>3
    <3>5. Rank(D, R, e) \in 0..Cardinality(D) - 1
      BY <1>2, <1>3, <3>4, RankGrows
    <3>6. Cardinality(D) >= k
      BY <1>2, <3>4, <3>5
    <3> QED
      BY <1>2, <2>3, <3>6 DEF Least
  <2> QED
    BY <1>2, <2>1, <2>2, <2>3
<1>9. m \in Nat /\ m <= Cardinality(S) /\ m <= k
  BY <1>2 DEF Least
<1>10. ASSUME NEW i \in 1..m PROVE Ranked(D, R)[i] = Ranked(S, R)[i]
  <2>1. i \in 1..Cardinality(S) /\ i - 1 < k
    BY <1>2, <1>9
  <2>2. PICK e : e = Ranked(S, R)[i]
    OBVIOUS
  <2>3. e \in S /\ Rank(S, R, e) = i - 1
    BY <1>1, <1>3, <2>1, <2>2, RankedList
  <2>4. e \in D /\ Rank(D, R, e) = i - 1
    BY <1>7, <2>1, <2>3
  <2>5. Ranked(D, R)[Rank(D, R, e) + 1] = e
    BY <1>2, <1>3, <2>4, RankedList
  <2>6. i - 1 + 1 = i
    BY <1>9
  <2>7. Ranked(D, R)[i] = e
    BY <2>4, <2>5, <2>6
  <2> QED
    BY <2>2, <2>7
<1> HIDE DEF m
<1>11. /\ Firsts(S, R, k) \in Seq(S) /\ Len(Firsts(S, R, k)) = m
       /\ \A i \in 1..m : Firsts(S, R, k)[i] = Ranked(S, R)[i]
  BY <1>1, <1>3, FirstsAre DEF m
<1>12. /\ Firsts(D, R, k) \in Seq(D) /\ Len(Firsts(D, R, k)) = m
       /\ \A i \in 1..m : Firsts(D, R, k)[i] = Ranked(D, R)[i]
  BY <1>2, <1>3, <1>8, FirstsAre
<1>13. Firsts(D, R, k) \in Seq(S)
  BY <1>1, <1>12, SeqMonotonic
<1>14. \A i \in 1..m : Firsts(D, R, k)[i] = Firsts(S, R, k)[i]
  BY <1>10, <1>11, <1>12
<1>15. Firsts(D, R, k) = Firsts(S, R, k)
  BY <1>11, <1>12, <1>13, <1>14, SeqEqual
<1> QED
  BY <1>15 DEF S, D

-----------------------------------------------------------------------------
(* Finite sets of numbers, and the members of a sequence.                  *)

\* A set of numbers without a first member is empty: induction, as the provers take it.
LEMMA NoFirst ==
  ASSUME NEW T \in SUBSET Nat, \A m \in T : m # 0 /\ \E k \in T : k < m
  PROVE  T = {}
<1>1. ASSUME NEW n \in T PROVE FALSE
  <2>1. IsWellFoundedOn(OpToRel(<, Nat), Nat)
    BY NatLessThanWellFounded, Zenon
  <2>2. PICK m \in T : \A k \in T : ~(<<k, m>> \in OpToRel(<, Nat))
    BY <1>1, <2>1, WFMin, Zenon
  <2> QED
    BY <2>2 DEF OpToRel
<1> QED
  BY <1>1

\* Numbers up to n have a last one.
LEMMA HasLast ==
  ASSUME NEW n \in Nat, NEW T \in SUBSET (0..n), T # {}
  PROVE  \E x \in T : \A y \in T : x >= y
<1> SUFFICES ASSUME \A x \in T : \E y \in T : ~(x >= y) PROVE FALSE
  OBVIOUS
<1> DEFINE U == {n - t : t \in T}
<1>1. U \in SUBSET Nat
  OBVIOUS
<1>2. ASSUME NEW m \in U PROVE m # 0 /\ \E k \in U : k < m
  <2>1. PICK t \in T : m = n - t
    OBVIOUS
  <2>2. PICK y \in T : y > t
    OBVIOUS
  <2>3. n - y \in U /\ n - y < m /\ m # 0
    BY <2>1, <2>2
  <2> QED
    BY <2>3
<1> HIDE DEF U
<1>3. U = {}
  BY <1>1, <1>2, NoFirst
<1> QED
  BY <1>3 DEF U

LEMMA FiniteMembers ==
  ASSUME NEW X, NEW s \in Seq(X)
  PROVE  IsFiniteSet({s[i] : i \in DOMAIN s})
<1> DEFINE S == {s[i] : i \in DOMAIN s}
<1>1. Len(s) \in Nat /\ DOMAIN s = 1..Len(s) /\ s \in [1..Len(s) -> S]
  OBVIOUS
<1>2. \A c \in S : \E i \in 1..Len(s) : s[i] = c
  BY <1>1
<1> HIDE DEF S
<1>3. s \in Surjection(1..Len(s), S)
  BY <1>1, <1>2 DEF Surjection
<1>4. IsFiniteSet(1..Len(s))
  BY <1>1, FS_Interval
<1>5. IsFiniteSet(S)
  BY <1>3, <1>4, FS_Surjection
<1> QED
  BY <1>5 DEF S

=============================================================================
