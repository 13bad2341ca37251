--------------------------- MODULE Sorting_proofs ---------------------------
EXTENDS MCSorting, Sequences, FiniteSetTheorems, FunctionTheorems, TLAPS

-----------------------------------------------------------------------------
(* Induction over a set of numbers instead of over a formula.              *)

LEMMA Induction ==
  ASSUME NEW S, 0 \in S, \A n \in Nat : n \in S => n + 1 \in S
  PROVE  Nat \subseteq S
<1> DEFINE T == Nat \ S
           R == OpToRel(<, Nat)
<1>1. SUFFICES ASSUME T # {} PROVE FALSE
  OBVIOUS
<1>2. PICK x \in T : \A y \in T : <<y, x>> \notin R
  <2>1. IsWellFoundedOn(R, Nat) /\ T \subseteq Nat
    BY NatLessThanWellFounded
  <2> HIDE DEF R, T
  <2> QED BY <1>1, <2>1, WFMin
<1>3. x - 1 \in Nat
  OBVIOUS
<1>4. <<x - 1, x>> \in R
  BY <1>3 DEF OpToRel
<1>5. x - 1 \in S
  <2> HIDE DEF R
  <2> QED BY <1>2, <1>3, <1>4
<1> QED BY <1>5, <1>3

-----------------------------------------------------------------------------
(* The division of n things into k parts.                                  *)

(* The first m of the cuts. *)
IsCut(g, n, k, m) ==
  g = [j \in 0 .. m |->
         IF j = 0 THEN 0 ELSE g[j - 1] + (n - g[j - 1]) \div (k - (j - 1))]

(* What a part takes of the things left is between nothing and all, and    *)
(* the last part takes all.                                                *)
LEMMA Taken ==
  ASSUME NEW left \in Nat, NEW parts \in Nat \ {0}
  PROVE  /\ left \div parts \in 0 .. left
         /\ left \div 1 = left
OBVIOUS

LEMMA CutExists ==
  ASSUME NEW n \in Nat, NEW k \in Nat \ {0}
  PROVE  \E g \in [0 .. k -> 0 .. n] : IsCut(g, n, k, k)
<1> DEFINE next(c, j) == c + (n - c) \div (k - (j - 1))
           Found == {m \in Nat : m <= k => \E g \in [0 .. m -> 0 .. n] : IsCut(g, n, k, m)}
<1>1. 0 \in Found
  <2>1. [j \in 0 .. 0 |-> 0] \in [0 .. 0 -> 0 .. n]
    OBVIOUS
  <2>2. IsCut([j \in 0 .. 0 |-> 0], n, k, 0)
    BY DEF IsCut
  <2> QED BY <2>1, <2>2
<1>2. ASSUME NEW m \in Nat, m \in Found PROVE m + 1 \in Found
  <2>1. SUFFICES ASSUME m + 1 <= k
                 PROVE  \E h \in [0 .. m + 1 -> 0 .. n] : IsCut(h, n, k, m + 1)
    OBVIOUS
  <2>2. PICK g \in [0 .. m -> 0 .. n] : IsCut(g, n, k, m)
    BY <1>2, <2>1
  <2> DEFINE h == [j \in 0 .. m + 1 |-> IF j = m + 1 THEN next(g[m], m + 1) ELSE g[j]]
  <2>3. next(g[m], m + 1) \in 0 .. n
    BY <2>1, Taken
  <2>4. h \in [0 .. m + 1 -> 0 .. n]
    BY <2>3
  <2>5. \A j \in 0 .. m : g[j] = IF j = 0 THEN 0 ELSE next(g[j - 1], j)
    BY <2>2 DEF IsCut
  <2>6. \A j \in 0 .. m + 1 : h[j] = IF j = 0 THEN 0 ELSE next(h[j - 1], j)
    <3> TAKE j \in 0 .. m + 1
    <3>1. CASE j = m + 1
      BY <3>1
    <3>2. CASE j # m + 1
      BY <3>2, <2>5
    <3> QED BY <3>1, <3>2
  <2>7. IsCut(h, n, k, m + 1)
    BY <2>6 DEF IsCut
  <2> QED BY <2>4, <2>7
<1>3. k \in Found
  <2> HIDE DEF Found
  <2> QED BY <1>1, <1>2, Induction
<1> QED BY <1>3

(* Cut is what its recursion says, and a division.                         *)
LEMMA CutEquation ==
  ASSUME NEW n \in Nat, NEW k \in Nat \ {0}
  PROVE  /\ Cut(n, k)[0] = 0
         /\ \A j \in 1 .. k :
              Cut(n, k)[j] = Cut(n, k)[j - 1] + (n - Cut(n, k)[j - 1]) \div (k - (j - 1))
<1>1. PICK g : IsCut(g, n, k, k)
  BY CutExists
<1>2. IsCut(Cut(n, k), n, k, k)
  BY <1>1 DEF Cut, IsCut
<1> HIDE DEF Cut
<1> QED BY <1>2 DEF IsCut

LEMMA CutInside ==
  ASSUME NEW n \in Nat, NEW k \in Nat \ {0}, NEW j \in 0 .. k
  PROVE  Cut(n, k)[j] \in 0 .. n
<1> DEFINE cut == Cut(n, k)
           Inside == {m \in Nat : m <= k => cut[m] \in 0 .. n}
<1>1. 0 \in Inside
  BY CutEquation
<1>2. ASSUME NEW m \in Nat, m \in Inside PROVE m + 1 \in Inside
  <2>1. SUFFICES ASSUME m + 1 <= k PROVE cut[m + 1] \in 0 .. n
    OBVIOUS
  <2>2. cut[m] \in 0 .. n
    BY <1>2, <2>1
  <2>3. cut[m + 1] = cut[m] + (n - cut[m]) \div (k - m)
    <3>1. m + 1 \in 1 .. k /\ (m + 1) - 1 = m
      BY <2>1
    <3> QED BY <3>1, CutEquation
  <2>4. (n - cut[m]) \div (k - m) \in 0 .. n - cut[m]
    BY <2>1, <2>2, Taken
  <2> HIDE DEF cut
  <2> QED BY <2>2, <2>3, <2>4
<1>3. Nat \subseteq Inside
  <2> HIDE DEF Inside
  <2> QED BY <1>1, <1>2, Induction
<1> QED BY <1>3

(* The parts lie one after the other, and the last ends where things end.  *)
LEMMA CutSteps ==
  ASSUME NEW n \in Nat, NEW k \in Nat \ {0}
  PROVE  /\ \A j \in 0 .. k - 1 : Cut(n, k)[j] <= Cut(n, k)[j + 1]
         /\ Cut(n, k)[k] = n
<1>1. ASSUME NEW j \in 0 .. k - 1
      PROVE  /\ Cut(n, k)[j + 1] = Cut(n, k)[j] + (n - Cut(n, k)[j]) \div (k - j)
             /\ Cut(n, k)[j] \in 0 .. n
  <2>1. j + 1 \in 1 .. k /\ (j + 1) - 1 = j /\ j \in 0 .. k
    OBVIOUS
  <2> QED BY <2>1, CutEquation, CutInside
<1>2. ASSUME NEW j \in 0 .. k - 1
      PROVE  Cut(n, k)[j] <= Cut(n, k)[j + 1]
  <2>1. n - Cut(n, k)[j] \in Nat /\ k - j \in Nat \ {0}
    BY <1>1
  <2>2. (n - Cut(n, k)[j]) \div (k - j) \in 0 .. n - Cut(n, k)[j]
    BY <2>1, Taken
  <2> QED BY <1>1, <2>2
<1>3. Cut(n, k)[k] = n
  <2>1. k - 1 \in 0 .. k - 1 /\ (k - 1) + 1 = k /\ k - (k - 1) = 1
    OBVIOUS
  <2>2. /\ Cut(n, k)[k] = Cut(n, k)[k - 1] + (n - Cut(n, k)[k - 1]) \div 1
        /\ Cut(n, k)[k - 1] \in 0 .. n
    BY <1>1, <2>1
  <2> QED BY <2>2, Taken
<1> QED BY <1>2, <1>3

LEMMA CutMonotone ==
  ASSUME NEW n \in Nat, NEW k \in Nat \ {0}, NEW i \in 0 .. k, NEW j \in i .. k
  PROVE  Cut(n, k)[i] <= Cut(n, k)[j]
<1> DEFINE cut == Cut(n, k)
           After == {m \in Nat : i + m <= k => cut[i] <= cut[i + m]}
<1>1. \A m \in 0 .. k : cut[m] \in Int
  BY CutInside
<1>2. 0 \in After
  BY <1>1
<1>3. ASSUME NEW m \in Nat, m \in After PROVE m + 1 \in After
  <2>1. SUFFICES ASSUME i + (m + 1) <= k PROVE cut[i] <= cut[i + (m + 1)]
    OBVIOUS
  <2>2. cut[i] <= cut[i + m]
    BY <1>3, <2>1
  <2>3. cut[i + m] <= cut[(i + m) + 1]
    BY <2>1, CutSteps
  <2>4. (i + m) + 1 = i + (m + 1)
    OBVIOUS
  <2> HIDE DEF cut
  <2> QED BY <1>1, <2>1, <2>2, <2>3, <2>4
<1>4. j - i \in After
  <2> HIDE DEF After
  <2> QED BY <1>2, <1>3, Induction
<1> QED BY <1>4

(* Each number below n is in one part.                                     *)
LEMMA CutCovers ==
  ASSUME NEW n \in Nat, NEW k \in Nat \ {0}, NEW p \in 0 .. n - 1
  PROVE  \E j \in 0 .. k - 1 : Cut(n, k)[j] <= p /\ p < Cut(n, k)[j + 1]
<1> DEFINE cut == Cut(n, k)
           Reached == {m \in Nat : m <= k /\ p < cut[m] =>
                         \E j \in 0 .. k - 1 : cut[j] <= p /\ p < cut[j + 1]}
<1>1. \A m \in 0 .. k : cut[m] \in Int
  BY CutInside
<1>2. 0 \in Reached
  BY CutEquation
<1>3. ASSUME NEW m \in Nat, m \in Reached PROVE m + 1 \in Reached
  <2> HIDE DEF cut
  <2>1. SUFFICES ASSUME m + 1 <= k, p < cut[m + 1]
                 PROVE  \E j \in 0 .. k - 1 : cut[j] <= p /\ p < cut[j + 1]
    OBVIOUS
  <2>2. CASE p < cut[m]
    BY <1>3, <2>1, <2>2
  <2>3. CASE cut[m] <= p
    BY <2>1, <2>3
  <2> QED BY <1>1, <2>1, <2>2, <2>3
<1>4. k \in Reached
  <2> HIDE DEF Reached
  <2> QED BY <1>2, <1>3, Induction
<1>5. p < cut[k]
  BY CutSteps
<1> QED BY <1>4, <1>5

LEMMA CutSeparates ==
  ASSUME NEW n \in Nat, NEW k \in Nat \ {0}, NEW p \in Int,
         NEW i \in 0 .. k - 1, Cut(n, k)[i] <= p, p < Cut(n, k)[i + 1],
         NEW j \in 0 .. k - 1, Cut(n, k)[j] <= p, p < Cut(n, k)[j + 1]
  PROVE  i = j
<1>1. \A m \in 0 .. k : Cut(n, k)[m] \in Int
  BY CutInside
<1>2. CASE i < j
  <2>1. Cut(n, k)[i + 1] <= Cut(n, k)[j]
    BY <1>2, CutMonotone
  <2> QED BY <1>1, <2>1
<1>3. CASE j < i
  <2>1. Cut(n, k)[j + 1] <= Cut(n, k)[i]
    BY <1>3, CutMonotone
  <2> QED BY <1>1, <2>1
<1> QED BY <1>2, <1>3

(* While what is left is between q and q + 1 per part, so it is after      *)
(* another part has taken its share, which is q or q + 1.                  *)
LEMMA ShareEven ==
  ASSUME NEW q \in Nat, NEW left \in Nat, NEW parts \in Nat \ {0},
         q * parts <= left, left <= (q + 1) * parts
  PROVE  /\ left \div parts \in {q, q + 1}
         /\ q * (parts - 1) <= left - left \div parts
         /\ left - left \div parts <= (q + 1) * (parts - 1)
<1>1. CASE left = (q + 1) * parts
  <2>1. left \div parts = q + 1
    BY <1>1
  <2>2. (q + 1) * parts - (q + 1) = (q + 1) * (parts - 1) /\ (q + 1) * (parts - 1) = q * (parts - 1) + (parts - 1)
    OBVIOUS
  <2> QED BY <1>1, <2>1, <2>2
<1>2. CASE left < (q + 1) * parts
  <2>1. left \div parts = q
    BY <1>2
  <2>2. /\ q * (parts - 1) = q * parts - q
        /\ (q + 1) * (parts - 1) = (q + 1) * parts - q - 1
    OBVIOUS
  <2> QED BY <1>2, <2>1, <2>2
<1> QED BY <1>1, <1>2

(* The sizes of the parts differ by at most 1.                             *)
LEMMA CutEven ==
  ASSUME NEW n \in Nat, NEW k \in Nat \ {0}
  PROVE  \E q \in Nat : \A j \in 0 .. k - 1 : Cut(n, k)[j + 1] - Cut(n, k)[j] \in {q, q + 1}
<1> DEFINE cut == Cut(n, k)
           q == n \div k
           Even == {m \in Nat : m <= k => /\ q * (k - m) <= n - cut[m]
                                          /\ n - cut[m] <= (q + 1) * (k - m)}
<1>1. q \in Nat /\ q * k <= n /\ n <= (q + 1) * k
  OBVIOUS
<1>2. ASSUME NEW m \in 0 .. k - 1
      PROVE  /\ cut[m + 1] = cut[m] + (n - cut[m]) \div (k - m)
             /\ cut[m] \in Nat /\ n - cut[m] \in Nat /\ k - m \in Nat \ {0}
  <2>1. m + 1 \in 1 .. k /\ (m + 1) - 1 = m /\ m \in 0 .. k
    OBVIOUS
  <2> QED BY <2>1, CutEquation, CutInside
<1> HIDE DEF cut, q
<1>3. 0 \in Even
  <2>1. cut[0] = 0
    BY CutEquation DEF cut
  <2> QED BY <1>1, <2>1
<1>4. ASSUME NEW m \in Nat, m \in Even PROVE m + 1 \in Even
  <2>1. SUFFICES ASSUME m + 1 <= k
                 PROVE  /\ q * (k - (m + 1)) <= n - cut[m + 1]
                        /\ n - cut[m + 1] <= (q + 1) * (k - (m + 1))
    OBVIOUS
  <2>2. m \in 0 .. k - 1 /\ q * (k - m) <= n - cut[m] /\ n - cut[m] <= (q + 1) * (k - m)
    BY <1>4, <2>1
  <2> DEFINE left == n - cut[m]
             parts == k - m
  <2>3. left \in Nat /\ parts \in Nat \ {0}
    BY <1>2, <2>2
  <2>4. /\ q * (parts - 1) <= left - left \div parts
        /\ left - left \div parts <= (q + 1) * (parts - 1)
    <3> HIDE DEF left, parts
    <3>1. q * parts <= left /\ left <= (q + 1) * parts
      BY <2>2 DEF left, parts
    <3> QED BY <1>1, <2>3, <3>1, ShareEven
  <2>5. left \div parts \in Int
    BY <2>3
  <2>6. n - cut[m + 1] = left - left \div parts /\ k - (m + 1) = parts - 1
    BY <1>2, <2>2, <2>5
  <2> HIDE DEF left, parts
  <2> QED BY <2>4, <2>6
<1>5. Nat \subseteq Even
  <2> HIDE DEF Even
  <2> QED BY <1>3, <1>4, Induction
<1>6. ASSUME NEW j \in 0 .. k - 1
      PROVE  cut[j + 1] - cut[j] \in {q, q + 1}
  <2> DEFINE left == n - cut[j]
             parts == k - j
  <2>1. left \in Nat /\ parts \in Nat \ {0}
    BY <1>2
  <2>2. q * parts <= left /\ left <= (q + 1) * parts
    BY <1>5
  <2>3. left \div parts \in {q, q + 1}
    <3> HIDE DEF left, parts
    <3> QED BY <1>1, <2>1, <2>2, ShareEven
  <2>4. cut[j + 1] = cut[j] + left \div parts
    BY <1>2
  <2> HIDE DEF left, parts
  <2> QED BY <1>1, <1>2, <2>3, <2>4
<1> QED BY <1>1, <1>6 DEF cut

-----------------------------------------------------------------------------
(* Places in a sorted list.                                                *)

(* What comes before i in the list of Place. *)
Before(S, val, inserted, i) ==
  {j \in S : \/ val[j] < val[i]
             \/ val[j] = val[i] /\ inserted[j] > inserted[i]}

(* The items of a finite set have distinct ranks by which they were        *)
(* inserted, so that there are no ties.                                    *)
Sortable(S, val, inserted) ==
  /\ IsFiniteSet(S)
  /\ \A i \in S : val[i] \in Int /\ inserted[i] \in Int
  /\ \A i, j \in S : inserted[i] = inserted[j] => i = j

LEMMA PlaceIsBefore ==
  ASSUME NEW S, NEW val, NEW inserted, NEW i
  PROVE  Place(S, val, inserted, i) = Cardinality(Before(S, val, inserted, i))
BY DEF Place, Before

LEMMA PlaceInside ==
  ASSUME NEW S, NEW val, NEW inserted, Sortable(S, val, inserted), NEW i \in S
  PROVE  Place(S, val, inserted, i) \in 0 .. Cardinality(S) - 1
<1> DEFINE B == Before(S, val, inserted, i)
<1>1. B \in SUBSET S /\ i \notin B
  BY DEF Before, Sortable
<1>2. IsFiniteSet(B) /\ Cardinality(B) <= Cardinality(S) /\ Cardinality(B) # Cardinality(S)
  <2> HIDE DEF B
  <2> QED BY <1>1, FS_Subset DEF Sortable
<1>3. Cardinality(B) \in Nat /\ Cardinality(S) \in Nat
  BY <1>2, FS_CardinalityType DEF Sortable
<1> HIDE DEF B
<1> QED BY <1>2, <1>3, PlaceIsBefore DEF B

(* Of two items the one that comes before the other has the lower place.   *)
LEMMA PlaceOrder ==
  ASSUME NEW S, NEW val, NEW inserted, Sortable(S, val, inserted),
         NEW i \in S, NEW j \in Before(S, val, inserted, i)
  PROVE  Place(S, val, inserted, j) < Place(S, val, inserted, i)
<1> DEFINE A == Before(S, val, inserted, j)
           B == Before(S, val, inserted, i)
<1>1. A \in SUBSET B /\ j \in B /\ j \notin A /\ B \in SUBSET S
  BY DEF Before, Sortable
<1>2. IsFiniteSet(B)
  <2> HIDE DEF B
  <2> QED BY <1>1, FS_Subset DEF Sortable
<1>3. IsFiniteSet(A) /\ Cardinality(A) <= Cardinality(B) /\ Cardinality(A) # Cardinality(B)
  <2> HIDE DEF A, B
  <2> QED BY <1>1, <1>2, FS_Subset
<1>4. Cardinality(A) \in Nat /\ Cardinality(B) \in Nat
  BY <1>2, <1>3, FS_CardinalityType
<1> HIDE DEF A, B
<1> QED BY <1>3, <1>4, PlaceIsBefore DEF A, B

LEMMA PlaceInjective ==
  ASSUME NEW S, NEW val, NEW inserted, Sortable(S, val, inserted),
         NEW i \in S, NEW j \in S, Place(S, val, inserted, i) = Place(S, val, inserted, j)
  PROVE  i = j
<1>1. SUFFICES ASSUME i # j PROVE FALSE
  OBVIOUS
<1>2. i \in Before(S, val, inserted, j) \/ j \in Before(S, val, inserted, i)
  BY <1>1 DEF Before, Sortable
<1>3. Place(S, val, inserted, i) \in Int
  BY PlaceInside
<1> QED BY <1>2, <1>3, PlaceOrder

(* The order of the places is that of the values.                          *)
LEMMA PlaceSorts ==
  ASSUME NEW S, NEW val, NEW inserted, Sortable(S, val, inserted),
         NEW i \in S, NEW j \in S, Place(S, val, inserted, i) <= Place(S, val, inserted, j)
  PROVE  val[i] <= val[j]
<1>1. SUFFICES ASSUME val[j] < val[i] PROVE FALSE
  BY DEF Sortable
<1>2. j \in Before(S, val, inserted, i)
  BY <1>1 DEF Before
<1>3. Place(S, val, inserted, i) \in Int /\ Place(S, val, inserted, j) \in Int
  BY PlaceInside
<1> QED BY <1>2, <1>3, PlaceOrder

(* As many items as there are places have a place from a up to c.          *)
LEMMA PlaceCounts ==
  ASSUME NEW S, NEW val, NEW inserted, Sortable(S, val, inserted),
         NEW a \in 0 .. Cardinality(S), NEW c \in a .. Cardinality(S)
  PROVE  LET P == {i \in S : /\ a <= Place(S, val, inserted, i)
                             /\ Place(S, val, inserted, i) < c}
         IN  IsFiniteSet(P) /\ Cardinality(P) = c - a
<1> DEFINE n == Cardinality(S)
           T == 0 .. n - 1
           place == [i \in S |-> Place(S, val, inserted, i)]
           P == {i \in S : /\ a <= Place(S, val, inserted, i)
                           /\ Place(S, val, inserted, i) < c}
           Q == a .. c - 1
           part == [i \in P |-> place[i]]
<1>1. n \in Nat
  BY FS_CardinalityType DEF Sortable
<1>2. IsFiniteSet(T) /\ Cardinality(T) = n
  <2>1. 0 \in Int /\ n - 1 \in Int
    BY <1>1
  <2>2. IsFiniteSet(T) /\ Cardinality(T) = IF 0 > n - 1 THEN 0 ELSE (n - 1) - 0 + 1
    BY <2>1, FS_Interval
  <2> QED BY <1>1, <2>2
<1>3. place \in Injection(S, T)
  <2>1. place \in [S -> T]
    BY PlaceInside
  <2>2. \A i, j \in S : place[i] = place[j] => i = j
    BY PlaceInjective
  <2> HIDE DEF place, T
  <2> QED BY <2>1, <2>2, Fun_IsInj
<1>4. place \in Surjection(S, T)
  <2> HIDE DEF place, T
  <2> QED BY <1>2, <1>3, FS_Injection DEF Sortable
<1>5. part \in [P -> Q]
  BY PlaceInside
<1>6. \A i, j \in P : part[i] = part[j] => i = j
  BY PlaceInjective
<1>7. \A p \in Q : \E i \in P : part[i] = p
  <2> TAKE p \in Q
  <2>1. p \in T
    BY <1>1
  <2>2. \A t \in T : \E i \in S : place[i] = t
    <3> HIDE DEF place, T
    <3> QED BY <1>4, Fun_SurjectionProperties
  <2>3. PICK i \in S : place[i] = p
    BY <2>1, <2>2
  <2>4. i \in P
    BY <2>3
  <2> QED BY <2>3, <2>4
<1>8. part \in Bijection(P, Q)
  <2> HIDE DEF part, P, Q
  <2> QED BY <1>5, <1>6, <1>7, Fun_IsBij
<1>9. ExistsBijection(Q, P)
  <2> HIDE DEF part, P, Q
  <2>1. ExistsBijection(P, Q)
    BY <1>8 DEF ExistsBijection
  <2> QED BY <2>1, Fun_ExistsBijSymmetric
<1>10. IsFiniteSet(Q) /\ Cardinality(Q) = c - a
  <2>1. a \in Int /\ c - 1 \in Int
    BY <1>1
  <2>2. IsFiniteSet(Q) /\ Cardinality(Q) = IF a > c - 1 THEN 0 ELSE (c - 1) - a + 1
    BY <2>1, FS_Interval
  <2> QED BY <1>1, <2>2
<1>11. IsFiniteSet(P) /\ Cardinality(P) = c - a
  <2> HIDE DEF P, Q
  <2> QED BY <1>9, <1>10, FS_Bijection
<1> QED BY <1>11

-----------------------------------------------------------------------------
(* Blocks and strata.                                                      *)

Criterion(val) == val \in [Items -> Int]

LEMMA BankSize == IsFiniteSet(Items) /\ Cardinality(Items) = NumItems /\ Items \subseteq Int
<1>1. 0 \in Int /\ NumItems - 1 \in Int
  BY BankAssumption
<1>2. /\ IsFiniteSet(0 .. NumItems - 1)
      /\ Cardinality(0 .. NumItems - 1) =
           IF 0 > NumItems - 1 THEN 0 ELSE (NumItems - 1) - 0 + 1
  BY <1>1, FS_Interval
<1> QED BY <1>2, BankAssumption DEF Items

LEMMA BankSortable ==
  ASSUME NEW blk, Criterion(blk)
  PROVE  /\ Sortable(Items, blk, [i \in Items |-> i])
         /\ ByBlock(blk) \in [Items -> 0 .. NumItems - 1]
         /\ \A i, j \in Items : ByBlock(blk)[i] = ByBlock(blk)[j] => i = j
<1> DEFINE index == [i \in Items |-> i]
<1>1. Sortable(Items, blk, index)
  BY BankSize DEF Sortable, Criterion
<1>2. ByBlock(blk) = [i \in Items |-> Place(Items, blk, index, i)]
  BY DEF ByBlock
<1> HIDE DEF index
<1>3. \A i \in Items : Place(Items, blk, index, i) \in 0 .. NumItems - 1
  BY <1>1, PlaceInside, BankSize
<1>4. \A i, j \in Items : Place(Items, blk, index, i) = Place(Items, blk, index, j) => i = j
  BY <1>1, PlaceInjective
<1>5. ByBlock(blk) \in [Items -> 0 .. NumItems - 1]
  BY <1>2, <1>3
<1>6. \A i, j \in Items : ByBlock(blk)[i] = ByBlock(blk)[j] => i = j
  BY <1>2, <1>4
<1> QED BY <1>1, <1>5, <1>6 DEF index

(* The blocks are a partition of the bank, in the order of the criterion,  *)
(* and their sizes are those of a cut.                                     *)
LEMMA BlocksPartition ==
  ASSUME NEW m \in Nat \ {0}, NEW blk, Criterion(blk)
  PROVE  /\ \A i \in Items : \E b \in 0 .. m - 1 : i \in Block(m, blk, b)
         /\ \A b, c \in 0 .. m - 1 : \A i \in Block(m, blk, b) \intersect Block(m, blk, c) : b = c
<1> DEFINE place(i) == ByBlock(blk)[i]
<1>1. \A i \in Items : place(i) \in 0 .. NumItems - 1
  BY BankSortable
<1>2. NumItems \in Nat
  BY BankAssumption
<1>3. ASSUME NEW i \in Items
      PROVE  \E b \in 0 .. m - 1 : i \in Block(m, blk, b)
  <2>1. \E b \in 0 .. m - 1 : Cut(NumItems, m)[b] <= place(i) /\ place(i) < Cut(NumItems, m)[b + 1]
    BY <1>1, <1>2, CutCovers
  <2> QED BY <2>1 DEF Block
<1>4. ASSUME NEW b \in 0 .. m - 1, NEW c \in 0 .. m - 1,
             NEW i \in Block(m, blk, b) \intersect Block(m, blk, c)
      PROVE  b = c
  <2>1. /\ Cut(NumItems, m)[b] <= place(i) /\ place(i) < Cut(NumItems, m)[b + 1]
        /\ Cut(NumItems, m)[c] <= place(i) /\ place(i) < Cut(NumItems, m)[c + 1]
        /\ i \in Items
    BY DEF Block
  <2>2. place(i) \in Int
    BY <1>1, <2>1
  <2> HIDE DEF place
  <2> QED BY <1>2, <2>1, <2>2, CutSeparates
<1> QED BY <1>3, <1>4

LEMMA BlockSortable ==
  ASSUME NEW m \in Nat \ {0}, NEW blk, Criterion(blk), NEW crit, Criterion(crit), NEW b
  PROVE  Sortable(Block(m, blk, b), crit, ByBlock(blk))
<1>1. Block(m, blk, b) \in SUBSET Items
  BY DEF Block
<1>2. IsFiniteSet(Block(m, blk, b))
  BY <1>1, BankSize, FS_Subset
<1>3. /\ ByBlock(blk) \in [Items -> 0 .. NumItems - 1]
      /\ \A i, j \in Items : ByBlock(blk)[i] = ByBlock(blk)[j] => i = j
  BY BankSortable
<1> QED BY <1>1, <1>2, <1>3 DEF Sortable, Criterion

(* The shares of the strata are a partition of the block.                  *)
LEMMA SharesPartition ==
  ASSUME NEW n \in Nat \ {0}, NEW crit, Criterion(crit),
         NEW m \in Nat \ {0}, NEW blk, Criterion(blk), NEW b
  PROVE  /\ \A i \in Block(m, blk, b) : \E s \in 0 .. n - 1 : i \in Share(n, crit, m, blk, b, s)
         /\ \A s : Share(n, crit, m, blk, b, s) \subseteq Block(m, blk, b)
         /\ \A s, t \in 0 .. n - 1 :
              \A i \in Share(n, crit, m, blk, b, s) \intersect Share(n, crit, m, blk, b, t) : s = t
<1> DEFINE B == Block(m, blk, b)
           size == Cardinality(B)
           place(i) == Place(B, crit, ByBlock(blk), i)
<1>1. Sortable(B, crit, ByBlock(blk))
  BY BlockSortable
<1>2. size \in Nat
  BY <1>1, FS_CardinalityType DEF Sortable
<1>3. \A i \in B : place(i) \in 0 .. size - 1
  <2> HIDE DEF B
  <2> QED BY <1>1, PlaceInside
<1>4. \A s : Share(n, crit, m, blk, b, s) =
        {i \in B : Cut(size, n)[s] <= place(i) /\ place(i) < Cut(size, n)[s + 1]}
  BY DEF Share
<1> HIDE DEF B, size, place
<1>5. ASSUME NEW i \in B
      PROVE  \E s \in 0 .. n - 1 : i \in Share(n, crit, m, blk, b, s)
  BY <1>2, <1>3, <1>4, CutCovers
<1>6. ASSUME NEW s \in 0 .. n - 1, NEW t \in 0 .. n - 1,
             NEW i \in Share(n, crit, m, blk, b, s) \intersect Share(n, crit, m, blk, b, t)
      PROVE  s = t
  <2>1. /\ Cut(size, n)[s] <= place(i) /\ place(i) < Cut(size, n)[s + 1]
        /\ Cut(size, n)[t] <= place(i) /\ place(i) < Cut(size, n)[t + 1]
        /\ i \in B
    BY <1>4
  <2>2. place(i) \in Int
    BY <1>2, <1>3, <2>1
  <2> QED BY <1>2, <2>1, <2>2, CutSeparates
<1>7. \A s : Share(n, crit, m, blk, b, s) \subseteq B
  BY <1>4
<1> QED BY <1>5, <1>6, <1>7 DEF B

(* The strata that stratify leaves. *)
Strata(n, crit, m, blk) ==
  [s \in 0 .. n - 1 |-> UNION {Share(n, crit, m, blk, b, s) : b \in 0 .. m - 1}]

(* What a stratum has of a block is its share.                             *)
LEMMA StratumInBlock ==
  ASSUME NEW n \in Nat \ {0}, NEW crit, Criterion(crit),
         NEW m \in Nat \ {0}, NEW blk, Criterion(blk),
         NEW b \in 0 .. m - 1, NEW s \in 0 .. n - 1
  PROVE  Block(m, blk, b) \intersect Strata(n, crit, m, blk)[s]
           = Share(n, crit, m, blk, b, s)
<1>1. Share(n, crit, m, blk, b, s) \subseteq Strata(n, crit, m, blk)[s]
  BY DEF Strata
<1>2. Share(n, crit, m, blk, b, s) \subseteq Block(m, blk, b)
  BY SharesPartition
<1>3. ASSUME NEW i \in Block(m, blk, b), i \in Strata(n, crit, m, blk)[s]
      PROVE  i \in Share(n, crit, m, blk, b, s)
  <2>1. PICK c \in 0 .. m - 1 : i \in Share(n, crit, m, blk, c, s)
    BY <1>3 DEF Strata
  <2>2. i \in Block(m, blk, c)
    BY <2>1, SharesPartition
  <2>3. b = c
    BY <1>3, <2>2, BlocksPartition
  <2> QED BY <2>1, <2>3
<1> QED BY <1>1, <1>2, <1>3

(* The strata are a partition of the bank.                                 *)
LEMMA StratifiedPartition ==
  ASSUME NEW n \in Nat \ {0}, NEW crit, Criterion(crit),
         NEW m \in Nat \ {0}, NEW blk, Criterion(blk)
  PROVE  /\ Strata(n, crit, m, blk) \in [0 .. n - 1 -> SUBSET Items]
         /\ \A i \in Items : \E s \in 0 .. n - 1 : i \in Strata(n, crit, m, blk)[s]
         /\ \A s, t \in 0 .. n - 1 :
              \A i \in Strata(n, crit, m, blk)[s] \intersect Strata(n, crit, m, blk)[t] : s = t
<1>1. \A b : Block(m, blk, b) \subseteq Items
  BY DEF Block
<1>2. \A b, s : Share(n, crit, m, blk, b, s) \subseteq Items
  BY <1>1, SharesPartition
<1>3. Strata(n, crit, m, blk) \in [0 .. n - 1 -> SUBSET Items]
  BY <1>2 DEF Strata
<1>4. ASSUME NEW i \in Items
      PROVE  \E s \in 0 .. n - 1 : i \in Strata(n, crit, m, blk)[s]
  <2>1. PICK b \in 0 .. m - 1 : i \in Block(m, blk, b)
    BY BlocksPartition
  <2>2. PICK s \in 0 .. n - 1 : i \in Share(n, crit, m, blk, b, s)
    BY <2>1, SharesPartition
  <2>3. i \in Strata(n, crit, m, blk)[s]
    BY <2>2 DEF Strata
  <2> QED BY <2>3
<1>5. ASSUME NEW s \in 0 .. n - 1, NEW t \in 0 .. n - 1,
             NEW i \in Strata(n, crit, m, blk)[s] \intersect Strata(n, crit, m, blk)[t]
      PROVE  s = t
  <2>1. PICK b \in 0 .. m - 1 : i \in Share(n, crit, m, blk, b, s)
    BY DEF Strata
  <2>2. i \in Block(m, blk, b)
    BY <2>1, SharesPartition
  <2>3. i \in Share(n, crit, m, blk, b, t)
    BY <2>2, StratumInBlock
  <2> QED BY <2>1, <2>3, SharesPartition
<1> QED BY <1>3, <1>4, <1>5

-----------------------------------------------------------------------------
(* The invariant: the strata are those of some call.                       *)

Usable == IF n_blocks > 1 THEN block ELSE [i \in Items |-> 0]

SortedInv ==
  /\ Criterion(f) /\ Criterion(block)
  /\ n_blocks \in Nat
  /\ stratify = [strata |-> stratify.strata, next |-> stratify.next]
  /\ n_blocks # 0 => \E n \in Nat \ {0} : stratify.strata = Strata(n, f, n_blocks, Usable)

LEMMA SortedInit == Init => SortedInv
<1> SUFFICES ASSUME Init PROVE SortedInv
  OBVIOUS
<1>1. Criterion(f) /\ Criterion(block)
  BY CriteriaAssumption DEF Init, Criterion
<1>2. n_blocks = 0
  BY DEF Init
<1>3. stratify = [strata |-> stratify.strata, next |-> stratify.next]
  BY DEF Init, Unstratified
<1> HIDE DEF Criterion
<1> QED BY <1>1, <1>2, <1>3 DEF SortedInv

LEMMA SortedStep == SortedInv /\ [Next]_vars => SortedInv'
<1> SUFFICES ASSUME SortedInv, [Next]_vars PROVE SortedInv'
  OBVIOUS
<1>1. ASSUME NEW n \in 1 .. MaxParts, NEW m \in 0 .. MaxParts, Restratify(n, m)
      PROVE  SortedInv'
  <2>1. /\ Criterion(f)' /\ Criterion(block)'
        /\ n_blocks' \in Nat /\ n_blocks' = IF m > 1 THEN m ELSE 1
    BY <1>1 DEF SortedInv, Criterion, Restratify
  <2>2. Usable' = IF m > 1 THEN block ELSE [i \in Items |-> 0]
    BY <1>1 DEF Usable, Restratify
  <2>3. stratify' = [stratify EXCEPT !.strata = Strata(n, f, n_blocks', Usable')]
    BY <1>1, <2>1, <2>2 DEF Restratify, Stratified, Strata
  <2>5. /\ stratify' = [strata |-> stratify'.strata, next |-> stratify'.next]
        /\ stratify'.strata = Strata(n, f, n_blocks', Usable')
    BY <2>3 DEF SortedInv
  <2>4. n \in Nat \ {0} /\ f' = f
    BY <1>1 DEF Restratify
  <2> QED BY <2>1, <2>4, <2>5 DEF SortedInv
<1>2. CASE UNCHANGED vars
  BY <1>2 DEF vars, SortedInv, Usable, Criterion
<1> QED BY <1>1, <1>2 DEF Next

(* Each item of the bank is in exactly one stratum, for any bank, criteria *)
(* and numbers of strata and blocks (oscats_alg_stratify_stratify).        *)
THEOREM StrataPartitionAlways == Spec => []StrataPartition
<1>1. SortedInv => StrataPartition
  <2> SUFFICES ASSUME SortedInv, n_blocks # 0
               PROVE  \A i \in Items : \E s \in DOMAIN stratify.strata :
                        /\ i \in stratify.strata[s]
                        /\ \A t \in DOMAIN stratify.strata \ {s} : i \notin stratify.strata[t]
    BY DEF StrataPartition
  <2>1. PICK n \in Nat \ {0} : stratify.strata = Strata(n, f, n_blocks, Usable)
    BY DEF SortedInv
  <2>2. Criterion(f) /\ Criterion(Usable) /\ n_blocks \in Nat \ {0}
    BY DEF SortedInv, Usable, Criterion
  <2> DEFINE strata == stratify.strata
  <2>3. /\ strata \in [0 .. n - 1 -> SUBSET Items]
        /\ \A i \in Items : \E s \in 0 .. n - 1 : i \in strata[s]
        /\ \A s, t \in 0 .. n - 1 : \A i \in strata[s] \intersect strata[t] : s = t
    BY <2>1, <2>2, StratifiedPartition
  <2> HIDE DEF strata
  <2>4. DOMAIN strata = 0 .. n - 1
    BY <2>3
  <2> QED BY <2>3, <2>4 DEF strata
<1> QED BY <1>1, SortedInit, SortedStep, PTL DEF Spec

-----------------------------------------------------------------------------
(* Sizes and order.                                                        *)

DifferByOne(S, T) ==
  /\ Cardinality(S) <= Cardinality(T) + 1
  /\ Cardinality(T) <= Cardinality(S) + 1

LEMMA BlocksEven ==
  ASSUME NEW m \in Nat \ {0}, NEW blk, Criterion(blk)
  PROVE  \A b, c \in 0 .. m - 1 : DifferByOne(Block(m, blk, b), Block(m, blk, c))
<1> DEFINE cut == Cut(NumItems, m)
           index == [i \in Items |-> i]
<1>1. NumItems \in Nat
  BY BankAssumption
<1>2. PICK q \in Nat : \A j \in 0 .. m - 1 : cut[j + 1] - cut[j] \in {q, q + 1}
  BY <1>1, CutEven
<1>3. ASSUME NEW b \in 0 .. m - 1
      PROVE  Cardinality(Block(m, blk, b)) = cut[b + 1] - cut[b]
  <2>1. cut[b] \in 0 .. NumItems /\ cut[b + 1] \in cut[b] .. NumItems
    <3>1. b \in 0 .. m /\ b + 1 \in 0 .. m
      OBVIOUS
    <3>2. cut[b] \in 0 .. NumItems /\ cut[b + 1] \in 0 .. NumItems
      BY <1>1, <3>1, CutInside
    <3>3. cut[b] <= cut[b + 1]
      BY <1>1, CutSteps
    <3> QED BY <3>2, <3>3
  <2>2. Block(m, blk, b) =
          {i \in Items : cut[b] <= Place(Items, blk, index, i) /\ Place(Items, blk, index, i) < cut[b + 1]}
    BY DEF Block, ByBlock
  <2>3. Sortable(Items, blk, index)
    BY BankSortable
  <2> HIDE DEF cut, index
  <2>4. cut[b] \in 0 .. Cardinality(Items) /\ cut[b + 1] \in cut[b] .. Cardinality(Items)
    BY <2>1, BankSize
  <2>5. Cardinality({i \in Items : /\ cut[b] <= Place(Items, blk, index, i)
                                  /\ Place(Items, blk, index, i) < cut[b + 1]})
          = cut[b + 1] - cut[b]
    BY <2>3, <2>4, PlaceCounts
  <2> QED BY <2>2, <2>5
<1> HIDE DEF cut
<1> QED BY <1>2, <1>3 DEF DifferByOne

LEMMA SharesEven ==
  ASSUME NEW n \in Nat \ {0}, NEW crit, Criterion(crit),
         NEW m \in Nat \ {0}, NEW blk, Criterion(blk), NEW b
  PROVE  \A s, t \in 0 .. n - 1 :
           DifferByOne(Share(n, crit, m, blk, b, s), Share(n, crit, m, blk, b, t))
<1> DEFINE B == Block(m, blk, b)
           size == Cardinality(B)
           cut == Cut(size, n)
           place(i) == Place(B, crit, ByBlock(blk), i)
<1>1. Sortable(B, crit, ByBlock(blk))
  BY BlockSortable
<1>2. size \in Nat
  BY <1>1, FS_CardinalityType DEF Sortable
<1>3. PICK q \in Nat : \A j \in 0 .. n - 1 : cut[j + 1] - cut[j] \in {q, q + 1}
  <2> HIDE DEF size
  <2> QED BY <1>2, CutEven
<1>4. ASSUME NEW s \in 0 .. n - 1
      PROVE  Cardinality(Share(n, crit, m, blk, b, s)) = cut[s + 1] - cut[s]
  <2>1. cut[s] \in 0 .. size /\ cut[s + 1] \in cut[s] .. size
    <3> HIDE DEF size
    <3>1. s \in 0 .. n /\ s + 1 \in 0 .. n
      OBVIOUS
    <3>2. cut[s] \in 0 .. size /\ cut[s + 1] \in 0 .. size
      BY <1>2, <3>1, CutInside
    <3>3. cut[s] <= cut[s + 1]
      BY <1>2, CutSteps
    <3> QED BY <1>2, <3>2, <3>3
  <2>2. Share(n, crit, m, blk, b, s) = {i \in B : cut[s] <= place(i) /\ place(i) < cut[s + 1]}
    BY DEF Share
  <2> HIDE DEF B, cut
  <2> QED BY <1>1, <2>1, <2>2, PlaceCounts
<1> HIDE DEF cut
<1> QED BY <1>3, <1>4 DEF DifferByOne

(* The blocks lie in the order of the block criterion.                     *)
LEMMA BlocksInOrder ==
  ASSUME NEW m \in Nat \ {0}, NEW blk, Criterion(blk),
         NEW b \in 0 .. m - 1, NEW c \in 0 .. m - 1, b < c,
         NEW i \in Block(m, blk, b), NEW j \in Block(m, blk, c)
  PROVE  blk[i] <= blk[j]
<1> DEFINE cut == Cut(NumItems, m)
           index == [x \in Items |-> x]
<1>1. NumItems \in Nat
  BY BankAssumption
<1>2. cut[b + 1] <= cut[c]
  BY <1>1, CutMonotone
<1>3. cut[b + 1] \in Int /\ cut[c] \in Int
  <2>1. b + 1 \in 0 .. m /\ c \in 0 .. m
    OBVIOUS
  <2> QED BY <1>1, <2>1, CutInside
<1>4. i \in Items /\ j \in Items
  BY DEF Block
<1>5. ByBlock(blk)[i] < cut[b + 1] /\ cut[c] <= ByBlock(blk)[j]
  BY DEF Block
<1>6. ByBlock(blk)[i] \in Int /\ ByBlock(blk)[j] \in Int
  <2>1. ByBlock(blk) \in [Items -> 0 .. NumItems - 1]
    BY BankSortable
  <2>2. ByBlock(blk)[i] \in 0 .. NumItems - 1 /\ ByBlock(blk)[j] \in 0 .. NumItems - 1
    BY <1>4, <2>1
  <2> QED BY <1>1, <2>2
<1>7. ByBlock(blk)[i] <= ByBlock(blk)[j]
  <2> HIDE DEF cut
  <2> QED BY <1>2, <1>3, <1>5, <1>6
<1>8. Place(Items, blk, index, i) <= Place(Items, blk, index, j)
  BY <1>4, <1>7 DEF ByBlock
<1>9. Sortable(Items, blk, index)
  BY BankSortable
<1> HIDE DEF index
<1> QED BY <1>4, <1>8, <1>9, PlaceSorts

(* Within a block the strata lie in the order of the criterion.            *)
LEMMA SharesInOrder ==
  ASSUME NEW n \in Nat \ {0}, NEW crit, Criterion(crit),
         NEW m \in Nat \ {0}, NEW blk, Criterion(blk), NEW b,
         NEW s \in 0 .. n - 1, NEW t \in 0 .. n - 1, s < t,
         NEW i \in Share(n, crit, m, blk, b, s), NEW j \in Share(n, crit, m, blk, b, t)
  PROVE  crit[i] <= crit[j]
<1> DEFINE B == Block(m, blk, b)
           size == Cardinality(B)
           cut == Cut(size, n)
           place(x) == Place(B, crit, ByBlock(blk), x)
<1>1. Sortable(B, crit, ByBlock(blk))
  BY BlockSortable
<1>2. size \in Nat
  BY <1>1, FS_CardinalityType DEF Sortable
<1>3. cut[s + 1] <= cut[t] /\ cut[s + 1] \in Int /\ cut[t] \in Int
  <2> HIDE DEF size
  <2>1. s + 1 \in 0 .. n /\ t \in s + 1 .. n /\ t \in 0 .. n
    OBVIOUS
  <2> QED BY <1>2, <2>1, CutMonotone, CutInside
<1>4. i \in B /\ j \in B /\ place(i) < cut[s + 1] /\ cut[t] <= place(j)
  BY DEF Share
<1> HIDE DEF B, cut
<1>5. place(i) \in Int /\ place(j) \in Int
  BY <1>1, <1>4, PlaceInside
<1>6. place(i) <= place(j)
  <2> HIDE DEF place
  <2> QED BY <1>3, <1>4, <1>5
<1> QED BY <1>1, <1>4, <1>6, PlaceSorts

(* Stratifying within blocks does what it says, for any bank, criteria and *)
(* numbers of strata and blocks (oscats_alg_stratify_stratify).            *)
THEOREM StratifiedWithinBlocksAlways == Spec => []StratifiedWithinBlocks
<1>1. SortedInv => StratifiedWithinBlocks
  <2> SUFFICES ASSUME SortedInv, n_blocks # 0
               PROVE  StratifiedWithinBlocks
    BY DEF StratifiedWithinBlocks
  <2> DEFINE strata == stratify.strata
             m == n_blocks
  <2>1. PICK n \in Nat \ {0} : strata = Strata(n, f, m, Usable)
    BY DEF SortedInv
  <2>2. Criterion(f) /\ Criterion(Usable) /\ m \in Nat \ {0}
    BY DEF SortedInv, Usable, Criterion
  <2> DEFINE home(i) == CHOOSE b \in 0 .. m - 1 : i \in Block(m, Usable, b)
             part == [i \in Items |-> home(i) + 1]
             of(b) == {i \in Items : part[i] = b}
  <2> HIDE DEF strata
  <2>3. \A i \in Items : home(i) \in 0 .. m - 1 /\ i \in Block(m, Usable, home(i))
    BY <2>2, BlocksPartition
  <2>4. ASSUME NEW b \in 1 .. m PROVE of(b) = Block(m, Usable, b - 1)
    <3>1. b - 1 \in 0 .. m - 1
      BY <2>2
    <3>2. Block(m, Usable, b - 1) \subseteq Items
      BY DEF Block
    <3>3. ASSUME NEW i \in Items PROVE part[i] = b <=> i \in Block(m, Usable, b - 1)
      <4>1. part[i] = home(i) + 1 /\ home(i) \in 0 .. m - 1 /\ i \in Block(m, Usable, home(i))
        BY <2>3
      <4>2. i \in Block(m, Usable, b - 1) => home(i) = b - 1
        <5> HIDE DEF home
        <5> QED BY <2>2, <3>1, <4>1, BlocksPartition
      <4> HIDE DEF home, part
      <4>3. home(i) + 1 = b <=> home(i) = b - 1
        BY <4>1
      <4> QED BY <4>1, <4>2, <4>3
    <3> HIDE DEF part
    <3> QED BY <3>2, <3>3
  <2>5. part \in [Items -> 1 .. m]
    <3>1. ASSUME NEW i \in Items PROVE home(i) + 1 \in 1 .. m
      <4>1. home(i) \in 0 .. m - 1
        BY <2>3
      <4> HIDE DEF home
      <4> QED BY <2>2, <4>1
    <3> HIDE DEF home
    <3> QED BY <3>1
  <2>6. ASSUME NEW i \in Items, NEW j \in Items, part[i] < part[j]
        PROVE  Usable[i] <= Usable[j]
    <3>1. /\ home(i) \in 0 .. m - 1 /\ i \in Block(m, Usable, home(i))
          /\ home(j) \in 0 .. m - 1 /\ j \in Block(m, Usable, home(j))
      BY <2>3
    <3>2. home(i) + 1 < home(j) + 1
      BY <2>6
    <3> HIDE DEF home
    <3>3. home(i) < home(j)
      BY <3>1, <3>2
    <3> QED BY <2>2, <3>1, <3>3, BlocksInOrder
  <2> HIDE DEF part
  <2>7. ASSUME NEW b \in 1 .. m, NEW c \in 1 .. m
        PROVE  DifferByOne(of(b), of(c))
    <3>1. b - 1 \in 0 .. m - 1 /\ c - 1 \in 0 .. m - 1
      BY <2>2
    <3> HIDE DEF of
    <3> QED BY <2>2, <2>4, <3>1, BlocksEven
  <2>8. DOMAIN strata = 0 .. n - 1
    BY <2>1 DEF Strata
  <2>9. ASSUME NEW b \in 1 .. m, NEW s \in DOMAIN strata
        PROVE  of(b) \intersect strata[s] = Share(n, f, m, Usable, b - 1, s)
    <3>1. b - 1 \in 0 .. m - 1 /\ s \in 0 .. n - 1
      BY <2>2, <2>8
    <3> HIDE DEF of, m
    <3> QED BY <2>1, <2>2, <2>4, <3>1, StratumInBlock
  <2>10. ASSUME NEW b \in 1 .. m, NEW s \in DOMAIN strata, NEW t \in DOMAIN strata
         PROVE  /\ DifferByOne(of(b) \intersect strata[s], of(b) \intersect strata[t])
                /\ s < t => \A i \in of(b) \intersect strata[s],
                               j \in of(b) \intersect strata[t] : f[i] <= f[j]
    <3> HIDE DEF of, m
    <3>1. DifferByOne(of(b) \intersect strata[s], of(b) \intersect strata[t])
      <4>1. DifferByOne(Share(n, f, m, Usable, b - 1, s), Share(n, f, m, Usable, b - 1, t))
        BY <2>2, <2>8, SharesEven
      <4> QED BY <2>9, <4>1
    <3>2. ASSUME s < t, NEW i \in of(b) \intersect strata[s], NEW j \in of(b) \intersect strata[t]
          PROVE  f[i] <= f[j]
      BY <2>2, <2>8, <2>9, <3>2, SharesInOrder
    <3> QED BY <3>1, <3>2
  <2>11. \E p \in [Items -> 1 .. m] :
           /\ \A i, j \in Items : p[i] < p[j] => Usable[i] <= Usable[j]
           /\ \A b, c \in 1 .. m : DifferByOne({i \in Items : p[i] = b}, {i \in Items : p[i] = c})
           /\ \A b \in 1 .. m : \A s, t \in DOMAIN strata :
                /\ DifferByOne({i \in Items : p[i] = b} \intersect strata[s],
                               {i \in Items : p[i] = b} \intersect strata[t])
                /\ s < t => \A i \in {x \in Items : p[x] = b} \intersect strata[s],
                               j \in {x \in Items : p[x] = b} \intersect strata[t] : f[i] <= f[j]
    <3> WITNESS part \in [Items -> 1 .. m]
    <3> QED BY <2>6, <2>7, <2>10
  <2> QED BY <2>11 DEF StratifiedWithinBlocks, DifferByOne, strata, Usable
<1> QED BY <1>1, SortedInit, SortedStep, PTL DEF Spec

-----------------------------------------------------------------------------
(* The choice of one of the closest items.                                 *)

(* What the invariant of the choice says of its state.                     *)
ChoiceType ==
  /\ num \in Nat \ {0}
  /\ dist \in [0 .. ChoiceItems - 1 -> Int]
  /\ eligible \subseteq 0 .. ChoiceItems - 1

(* The order of the list: closer items first, of equals the one visited    *)
(* first.                                                                  *)
Precedes(i, j) == dist[i] < dist[j] \/ (dist[i] = dist[j] /\ i < j)

(* The list is sorted, and an item visited that is not in it comes after   *)
(* all of a list that is full.                                             *)
Visited(n) == {i \in eligible : i < n}
Nearest(s, n) ==
  /\ Len(s) \in 0 .. num
  /\ \A p \in 1 .. Len(s) : s[p] \in Visited(n)
  /\ \A p, q \in 1 .. Len(s) : p < q => Precedes(s[p], s[q])
  /\ \A i \in Visited(n) : \/ \E p \in 1 .. Len(s) : s[p] = i
                           \/ Len(s) = num /\ \A p \in 1 .. Len(s) : Precedes(s[p], i)

(* There is a first place where the item goes.                             *)
LEMMA PlaceIsThere ==
  ASSUME ChoiceType, NEW n \in 0 .. ChoiceItems - 1, NEW s, Nearest(s, n)
  PROVE  LET p == Choosing!Place(s, n)
         IN  /\ p \in 1 .. Len(s) + 1
             /\ p <= Len(s) => dist[n] < dist[s[p]]
             /\ \A q \in 1 .. p - 1 : dist[n] >= dist[s[q]]
<1> DEFINE m == Len(s)
           Goes(p) == p <= m => dist[n] < dist[s[p]]
           First(p) == Goes(p) /\ \A q \in 1 .. p - 1 : ~Goes(q)
           T == {p \in Nat : p \in 1 .. m + 1 /\ Goes(p)}
           R == OpToRel(<, Nat)
<1>1. m \in Nat /\ num \in Nat
  BY DEF Nearest, ChoiceType
<1>2. m + 1 \in T
  BY <1>1
<1>3. PICK p \in T : \A q \in T : <<q, p>> \notin R
  <2>1. IsWellFoundedOn(R, Nat) /\ T \subseteq Nat
    BY NatLessThanWellFounded
  <2> HIDE DEF R, T
  <2> QED BY <1>2, <2>1, WFMin
<1>4. p \in 1 .. m + 1 /\ Goes(p)
  OBVIOUS
<1>5. ASSUME NEW q \in 1 .. p - 1 PROVE q <= m /\ dist[n] >= dist[s[q]]
  <2>1. q \in Nat /\ p \in Nat /\ q < p /\ q \in 1 .. m + 1 /\ q <= m
    BY <1>1, <1>4
  <2>2. <<q, p>> \in R
    BY <2>1 DEF OpToRel
  <2>3. q \notin T
    <3> HIDE DEF R, T
    <3> QED BY <1>3, <2>2
  <2>4. ~ dist[n] < dist[s[q]]
    BY <2>1, <2>3
  <2>5. s[q] \in 0 .. ChoiceItems - 1
    <3>1. q \in 1 .. m
      BY <1>1, <2>1
    <3> QED BY <3>1 DEF Nearest, Visited, ChoiceType
  <2>6. dist[n] \in Int /\ dist[s[q]] \in Int
    BY <2>5 DEF ChoiceType
  <2> QED BY <2>1, <2>4, <2>6
<1>6. /\ p \in 1 .. Len(s) + 1
      /\ p <= Len(s) => dist[n] < dist[s[p]]
      /\ \A q \in 1 .. p - 1 : dist[n] >= dist[s[q]]
  BY <1>4, <1>5
<1> HIDE DEF m, Goes, First, T, R
<1> QED BY <1>6 DEF Choosing!Place

(* So visiting an item keeps the list of the nearest.                      *)
LEMMA InsertedIsNearest ==
  ASSUME ChoiceType, NEW n \in 0 .. ChoiceItems - 1, n \in eligible, NEW s, Nearest(s, n)
  PROVE  Nearest(Choosing!Inserted(s, n), n + 1)
<1> DEFINE p == Choosing!Place(s, n)
           m == Len(s)
           size == IF m < num THEN m + 1 ELSE num
           t == Choosing!Inserted(s, n)
<1>1. /\ m \in 0 .. num /\ num \in Nat \ {0} /\ n \in Nat
      /\ \A q \in 1 .. m : s[q] \in eligible /\ s[q] < n /\ s[q] \in Nat
                           /\ dist[s[q]] \in Int
      /\ dist[n] \in Int
      /\ eligible \subseteq Nat
  <2>1. m \in 0 .. num /\ num \in Nat \ {0} /\ n \in Nat /\ eligible \subseteq Nat
        /\ dist[n] \in Int
    BY DEF Nearest, ChoiceType
  <2>2. ASSUME NEW q \in 1 .. m
        PROVE  s[q] \in eligible /\ s[q] < n /\ s[q] \in Nat /\ dist[s[q]] \in Int
    <3>1. s[q] \in Visited(n)
      BY DEF Nearest
    <3>2. s[q] \in eligible /\ s[q] < n
      BY <3>1 DEF Visited
    <3> QED BY <2>1, <3>2 DEF ChoiceType
  <2> QED BY <2>1, <2>2
<1>2. /\ p \in 1 .. m + 1
      /\ p <= m => dist[n] < dist[s[p]]
      /\ \A q \in 1 .. p - 1 : dist[n] >= dist[s[q]]
  BY PlaceIsThere
<1>3. \A q, r \in 1 .. m : q < r => Precedes(s[q], s[r])
  BY DEF Nearest
<1>4. t = [q \in 1 .. size |-> CASE q < p -> s[q] [] q = p -> n [] q > p -> s[q - 1]]
  BY DEF Choosing!Inserted
<1> HIDE DEF p, t, m
<1>5. size \in 1 .. num /\ size <= m + 1 /\ size \in Nat
  BY <1>1
<1> HIDE DEF size
<1>6. Len(t) = size
  BY <1>4, <1>5
<1>7. \A q \in 1 .. size : /\ q < p => t[q] = s[q] /\ q \in 1 .. m
                           /\ q = p => t[q] = n
                           /\ q > p => t[q] = s[q - 1] /\ q - 1 \in 1 .. m
  BY <1>1, <1>2, <1>4, <1>5
<1>8. Len(t) \in 0 .. num
  BY <1>1, <1>5, <1>6
<1>9. \A q \in 1 .. size : t[q] \in Visited(n + 1)
  <2> SUFFICES ASSUME NEW q \in 1 .. size PROVE t[q] \in Visited(n + 1)
    OBVIOUS
  <2>1. t[q] = n \/ \E r \in 1 .. m : t[q] = s[r]
    BY <1>2, <1>5, <1>7
  <2> QED BY <1>1, <2>1 DEF Visited
<1>10. \A q \in 1 .. m : q < p => Precedes(s[q], n)
  BY <1>1, <1>2 DEF Precedes
<1>11. \A q \in 1 .. m : q >= p => Precedes(n, s[q])
  <2> SUFFICES ASSUME NEW q \in 1 .. m, q >= p PROVE Precedes(n, s[q])
    OBVIOUS
  <2>1. p \in 1 .. m /\ dist[n] < dist[s[p]]
    BY <1>1, <1>2
  <2>2. q = p \/ Precedes(s[p], s[q])
    BY <1>2, <1>3, <2>1
  <2>3. dist[s[p]] <= dist[s[q]]
    BY <1>1, <2>1, <2>2 DEF Precedes
  <2> QED BY <1>1, <2>1, <2>3 DEF Precedes
<1>12. \A q, r \in 1 .. size : q < r => Precedes(t[q], t[r])
  <2> SUFFICES ASSUME NEW q \in 1 .. size, NEW r \in 1 .. size, q < r
               PROVE  Precedes(t[q], t[r])
    OBVIOUS
  <2>1. CASE r < p
    BY <1>2, <1>3, <1>5, <1>7, <2>1
  <2>2. CASE r = p
    BY <1>2, <1>5, <1>7, <1>10, <2>2
  <2>3. CASE r > p /\ q < p
    <3>1. t[q] = s[q] /\ t[r] = s[r - 1] /\ q \in 1 .. m /\ r - 1 \in 1 .. m /\ q < r - 1
      BY <1>2, <1>5, <1>7, <2>3
    <3> QED BY <1>3, <3>1
  <2>4. CASE r > p /\ q = p
    <3>1. t[q] = n /\ t[r] = s[r - 1] /\ r - 1 \in 1 .. m /\ r - 1 >= p
      BY <1>2, <1>5, <1>7, <2>4
    <3> QED BY <1>11, <3>1
  <2>5. CASE r > p /\ q > p
    <3>1. t[q] = s[q - 1] /\ t[r] = s[r - 1] /\ r - 1 \in 1 .. m /\ q - 1 \in 1 .. m
          /\ q - 1 < r - 1
      BY <1>2, <1>5, <1>7, <2>5
    <3> QED BY <1>3, <3>1
  <2> QED BY <1>2, <1>5, <2>1, <2>2, <2>3, <2>4, <2>5
(* What all of a full new list comes before.                               *)
<1>13. ASSUME NEW i \in Nat, size = num, p <= num => Precedes(n, i),
              \A q \in 1 .. m : q < num \/ q < p => Precedes(s[q], i)
       PROVE  \A q \in 1 .. size : Precedes(t[q], i)
  <2> SUFFICES ASSUME NEW q \in 1 .. size PROVE Precedes(t[q], i)
    OBVIOUS
  <2>1. CASE q < p
    BY <1>7, <1>13, <2>1
  <2>2. CASE q = p
    BY <1>5, <1>7, <1>13, <2>2
  <2>3. CASE q > p
    <3>1. t[q] = s[q - 1] /\ q - 1 \in 1 .. m /\ q - 1 < num
      BY <1>1, <1>2, <1>5, <1>7, <2>3
    <3> QED BY <1>13, <3>1
  <2> QED BY <1>2, <1>5, <2>1, <2>2, <2>3
<1>14. ASSUME NEW i \in Visited(n + 1)
       PROVE  \/ \E q \in 1 .. size : t[q] = i
              \/ size = num /\ \A q \in 1 .. size : Precedes(t[q], i)
  <2>1. i \in Nat /\ (i = n \/ i \in Visited(n))
    BY <1>1, <1>14 DEF Visited
  <2>2. CASE i = n
    <3>1. CASE p <= size
      BY <1>2, <1>5, <1>7, <2>2, <3>1
    <3>2. CASE p > size
      <4>1. size = num /\ p > num
        BY <1>1, <1>2, <1>5, <3>2 DEF size
      <4>2. \A q \in 1 .. m : q < num \/ q < p => Precedes(s[q], i)
        BY <1>1, <1>2, <1>10, <2>2, <4>1
      <4>3. ~ p <= num
        BY <1>1, <1>2, <4>1
      <4> QED BY <1>13, <2>1, <4>1, <4>2, <4>3
    <3> QED BY <1>2, <1>5, <3>1, <3>2
  <2>3. CASE \E r \in 1 .. m : s[r] = i
    <3>1. PICK r \in 1 .. m : s[r] = i
      BY <2>3
    <3>2. CASE r < p
      <4>1. r \in 1 .. size
        BY <1>1, <1>2, <3>2 DEF size
      <4> QED BY <1>7, <3>1, <3>2, <4>1
    <3>3. CASE r >= p /\ r + 1 <= size
      <4>1. r + 1 \in 1 .. size /\ r + 1 > p /\ (r + 1) - 1 = r
        BY <1>1, <1>2, <1>5, <3>3
      <4> QED BY <1>7, <3>1, <4>1
    <3>4. CASE r >= p /\ ~ r + 1 <= size
      <4>1. size = num /\ r = num /\ m = num /\ p <= num
        BY <1>1, <1>2, <1>5, <3>4 DEF size
      <4>2. Precedes(n, i)
        BY <1>11, <3>1, <3>4
      <4>3. \A q \in 1 .. m : q < num \/ q < p => Precedes(s[q], i)
        BY <1>1, <1>2, <1>3, <3>1, <4>1
      <4> QED BY <1>13, <2>1, <4>1, <4>2, <4>3
    <3> QED BY <1>1, <1>2, <3>2, <3>3, <3>4
  <2>4. CASE i \in Visited(n) /\ ~ \E r \in 1 .. m : s[r] = i
    <3>1. m = num /\ \A q \in 1 .. m : Precedes(s[q], i)
      BY <2>4 DEF Nearest, m
    <3>2. size = num
      BY <1>1, <3>1 DEF size
    <3>3. p <= num => Precedes(n, i)
      <4> SUFFICES ASSUME p <= num PROVE Precedes(n, i)
        OBVIOUS
      <4>1. p \in 1 .. m
        BY <1>1, <1>2, <3>1
      <4>2. dist[i] \in Int
        BY <2>4 DEF Visited, ChoiceType
      <4>3. Precedes(s[p], i) /\ dist[n] < dist[s[p]]
        BY <1>2, <1>1, <3>1, <4>1
      <4> QED BY <1>1, <4>1, <4>2, <4>3 DEF Precedes
    <3> QED BY <1>13, <2>1, <3>1, <3>2, <3>3
  <2> QED BY <2>1, <2>2, <2>3, <2>4
<1>15. Nearest(t, n + 1)
  BY <1>6, <1>8, <1>9, <1>12, <1>14 DEF Nearest
<1> QED BY <1>15 DEF t

(* The lists of the items, as the recursion has them.                      *)
IsKept(g, m) ==
  \A n \in 0 .. ChoiceItems :
    n <= m =>
      g[n] = IF n = 0 THEN <<>>
             ELSE IF n - 1 \in eligible THEN Choosing!Inserted(g[n - 1], n - 1) ELSE g[n - 1]

LEMMA KeptExists == \E g : g = [n \in 0 .. ChoiceItems |-> g[n]] /\ IsKept(g, ChoiceItems)
<1> DEFINE Found == {m \in Nat : \E g : g = [n \in 0 .. ChoiceItems |-> g[n]] /\ IsKept(g, m)}
<1>1. 0 \in Found
  <2> DEFINE g == [n \in 0 .. ChoiceItems |-> <<>>]
  <2>1. g = [n \in 0 .. ChoiceItems |-> g[n]] /\ IsKept(g, 0)
    BY DEF IsKept
  <2> QED BY <2>1
<1>2. ASSUME NEW m \in Nat, m \in Found PROVE m + 1 \in Found
  <2>1. PICK g : IsKept(g, m)
    BY <1>2
  <2> DEFINE value(n) == IF n = 0 THEN <<>>
                         ELSE IF n - 1 \in eligible
                              THEN Choosing!Inserted(g[n - 1], n - 1) ELSE g[n - 1]
             h == [n \in 0 .. ChoiceItems |-> value(n)]
  <2>2. \A n \in 0 .. ChoiceItems : h[n] = value(n)
    OBVIOUS
  <2>3. \A n \in 0 .. ChoiceItems : n <= m => h[n] = g[n]
    BY <2>1, <2>2 DEF IsKept
  <2>4. h = [n \in 0 .. ChoiceItems |-> h[n]]
    OBVIOUS
  <2> HIDE DEF h
  <2>5. ASSUME NEW n \in 0 .. ChoiceItems, n <= m + 1
        PROVE  h[n] = IF n = 0 THEN <<>>
                      ELSE IF n - 1 \in eligible
                           THEN Choosing!Inserted(h[n - 1], n - 1) ELSE h[n - 1]
    <3>1. CASE n = 0
      BY <2>2, <3>1
    <3>2. CASE n # 0
      <4>1. n - 1 \in 0 .. ChoiceItems /\ n - 1 <= m
        BY <2>5, <3>2, ChoiceAssumption
      <4>2. h[n - 1] = g[n - 1]
        BY <2>3, <4>1
      <4> QED BY <2>2, <3>2, <4>2
    <3> QED BY <3>1, <3>2
  <2>6. IsKept(h, m + 1)
    BY <2>5 DEF IsKept
  <2> HIDE DEF value
  <2>7. \E k : k = [n \in 0 .. ChoiceItems |-> k[n]] /\ IsKept(k, m + 1)
    BY <2>4, <2>6
  <2>8. m + 1 \in Nat
    OBVIOUS
  <2> QED BY <2>7, <2>8
<1>3. ChoiceItems \in Found
  <2> HIDE DEF Found
  <2>1. Nat \subseteq Found
    BY <1>1, <1>2, Induction
  <2> QED BY <2>1, ChoiceAssumption
<1> QED BY <1>3

LEMMA KeptEquation == IsKept(Choosing!KeptBelow, ChoiceItems)
<1> DEFINE value(g, n) == IF n = 0 THEN <<>>
                          ELSE IF n - 1 \in eligible
                               THEN Choosing!Inserted(g[n - 1], n - 1) ELSE g[n - 1]
           IsIt(g) == g = [n \in 0 .. ChoiceItems |-> value(g, n)]
           kept == Choosing!KeptBelow
<1>1. PICK g : g = [n \in 0 .. ChoiceItems |-> g[n]] /\ IsKept(g, ChoiceItems)
  BY KeptExists
<1>2. \A n \in 0 .. ChoiceItems : g[n] = value(g, n)
  BY <1>1, ChoiceAssumption DEF IsKept
<1>3. IsIt(g)
  BY <1>1, <1>2
<1>4. kept = CHOOSE h : IsIt(h)
  BY DEF Choosing!KeptBelow
<1>5. IsIt(kept)
  <2> HIDE DEF IsIt, kept
  <2> QED BY <1>3, <1>4
<1> HIDE DEF kept
<1>6. \A n \in 0 .. ChoiceItems : kept[n] = value(kept, n)
  BY <1>5
<1> QED BY <1>6 DEF IsKept, kept

LEMMA KeptIsNearest ==
  ASSUME ChoiceType
  PROVE  Nearest(Choosing!Kept, ChoiceItems)
<1> DEFINE kept == Choosing!KeptBelow
           Good == {n \in Nat : n <= ChoiceItems => Nearest(kept[n], n)}
<1>1. /\ ChoiceItems \in Nat
      /\ \A n \in 0 .. ChoiceItems :
           kept[n] = IF n = 0 THEN <<>>
                     ELSE IF n - 1 \in eligible
                          THEN Choosing!Inserted(kept[n - 1], n - 1) ELSE kept[n - 1]
  BY KeptEquation, ChoiceAssumption DEF IsKept
<1> HIDE DEF kept
<1>2. 0 \in Good
  <2>1. kept[0] = <<>>
    BY <1>1
  <2>2. \A i \in 0 .. ChoiceItems - 1 : ~ i < 0
    BY <1>1
  <2>3. \A i : i \notin Visited(0)
    BY <2>2 DEF Visited, ChoiceType
  <2> QED BY <2>1, <2>3 DEF Nearest, ChoiceType
<1>3. ASSUME NEW n \in Nat, n \in Good PROVE n + 1 \in Good
  <2> SUFFICES ASSUME n + 1 <= ChoiceItems PROVE Nearest(kept[n + 1], n + 1)
    OBVIOUS
  <2>1. /\ n \in 0 .. ChoiceItems - 1 /\ n + 1 \in 0 .. ChoiceItems /\ n + 1 # 0
        /\ (n + 1) - 1 = n /\ n <= ChoiceItems
    BY <1>1
  <2>2. Nearest(kept[n], n)
    BY <1>3, <2>1
  <2>3. kept[n + 1] = IF n \in eligible THEN Choosing!Inserted(kept[n], n) ELSE kept[n]
    BY <1>1, <2>1
  <2>4. CASE n \in eligible
    BY <2>1, <2>2, <2>3, <2>4, InsertedIsNearest
  <2>5. CASE n \notin eligible
    <3>1. \A i \in Nat : i < n + 1 <=> i < n \/ i = n
      BY <2>1
    <3>2. eligible \subseteq Nat
      BY <1>1 DEF ChoiceType
    <3>3. \A i \in eligible : i < n + 1 <=> i < n
      BY <2>5, <3>1, <3>2
    <3>4. \A i : i \in Visited(n + 1) <=> i \in Visited(n)
      BY <3>3 DEF Visited
    <3> QED BY <2>2, <2>3, <2>5, <3>4 DEF Nearest
  <2> QED BY <2>4, <2>5
<1>4. ChoiceItems \in Good
  <2> HIDE DEF Good
  <2>1. Nat \subseteq Good
    BY <1>2, <1>3, Induction
  <2> QED BY <2>1, <1>1
<1> QED BY <1>1, <1>4 DEF Choosing!Kept, kept

(* As many places as items kept hold no more items.                        *)
LEMMA ImageIsSmall ==
  ASSUME NEW s, NEW k \in Nat, NEW S, \A x \in S : \E q \in 1 .. k : s[q] = x
  PROVE  IsFiniteSet(S) /\ Cardinality(S) <= k
<1> DEFINE T == {s[q] : q \in 1 .. k}
           g == [q \in 1 .. k |-> s[q]]
<1>1. IsFiniteSet(1 .. k) /\ Cardinality(1 .. k) = k
  <2>1. k \in Int /\ 1 \in Int /\ (1 > k <=> k = 0)
    OBVIOUS
  <2>2. IsFiniteSet(1 .. k) /\ Cardinality(1 .. k) = IF 1 > k THEN 0 ELSE k - 1 + 1
    BY <2>1, FS_Interval
  <2> QED BY <2>1, <2>2
<1>2. g \in Surjection(1 .. k, T)
  BY DEF Surjection
<1> HIDE DEF g
<1>3. IsFiniteSet(T) /\ Cardinality(T) <= k
  BY <1>1, <1>2, FS_Surjection
<1>4. S \in SUBSET T
  OBVIOUS
<1> HIDE DEF T
<1>5. IsFiniteSet(S) /\ Cardinality(S) <= Cardinality(T)
  BY <1>3, <1>4, FS_Subset
<1> QED BY <1>3, <1>5, FS_CardinalityType

(* The items that come before one that is kept are kept in front of it.    *)
AheadOf(d, items, i) == {j \in items : d[j] < d[i] \/ (d[j] = d[i] /\ j < i)}
Ahead(i) == AheadOf(dist, eligible, i)

LEMMA FewAhead ==
  ASSUME ChoiceType, NEW p \in 1 .. Len(Choosing!Kept)
  PROVE  LET i == Choosing!Kept[p]
         IN  /\ i \in eligible /\ IsFiniteSet(Ahead(i))
             /\ Cardinality(Ahead(i)) \in Nat /\ Cardinality(Ahead(i)) < p
<1> DEFINE s == Choosing!Kept
           m == Len(s)
           i == s[p]
<1>1. Nearest(s, ChoiceItems)
  BY KeptIsNearest
<1> HIDE DEF s
<1>2. /\ m \in Nat /\ p \in 1 .. m
      /\ \A j \in eligible : j \in Nat /\ dist[j] \in Int /\ j \in Visited(ChoiceItems)
  BY <1>1, ChoiceAssumption DEF Nearest, ChoiceType, Visited, s
<1>3. \A q \in 1 .. m : s[q] \in eligible
  BY <1>1 DEF Nearest, Visited
<1>4. ASSUME NEW j \in Ahead(i) PROVE \E q \in 1 .. p - 1 : s[q] = j
  <2>1. j \in eligible /\ Precedes(j, i) /\ i \in eligible
    BY <1>2, <1>3 DEF Ahead, AheadOf, Precedes
  <2>2. ~Precedes(i, j) /\ i # j
    BY <1>2, <2>1 DEF Precedes
  <2>3. PICK q \in 1 .. m : s[q] = j
    BY <1>1, <1>2, <2>1, <2>2 DEF Nearest
  <2>4. q < p
    <3>1. \A a, b \in 1 .. m : a < b => Precedes(s[a], s[b])
      BY <1>1 DEF Nearest
    <3>2. ~ p < q
      BY <1>2, <2>2, <2>3, <3>1
    <3>3. q # p
      BY <2>2, <2>3
    <3> QED BY <1>2, <3>2, <3>3
  <2> QED BY <1>2, <2>3, <2>4
<1>5. p - 1 \in Nat
  BY <1>2
<1>6. IsFiniteSet(Ahead(i)) /\ Cardinality(Ahead(i)) <= p - 1
  <2> HIDE DEF i
  <2> QED BY <1>4, <1>5, ImageIsSmall
<1>7. Cardinality(Ahead(i)) \in Nat
  BY <1>6, FS_CardinalityType
<1> HIDE DEF m
<1>8. Cardinality(Ahead(i)) < p
  BY <1>2, <1>6, <1>7
<1> QED BY <1>2, <1>3, <1>6, <1>7, <1>8 DEF s

(* There is an item in the list if any is eligible, and the list is full   *)
(* if enough are.                                                          *)
LEMMA KeptIsFull ==
  ASSUME ChoiceType
  PROVE  /\ IsFiniteSet(eligible) /\ Cardinality(eligible) \in Nat
         /\ Len(Choosing!Kept) \in 0 .. num
         /\ eligible # {} => Len(Choosing!Kept) >= 1
         /\ Cardinality(eligible) >= num => Len(Choosing!Kept) = num
<1> DEFINE s == Choosing!Kept
           m == Len(s)
<1>1. Nearest(s, ChoiceItems)
  BY KeptIsNearest
<1> HIDE DEF s
<1>2. m \in 0 .. num /\ num \in Nat \ {0} /\ m \in Nat
  BY <1>1 DEF Nearest, ChoiceType
<1>3. \A j \in eligible : j \in Visited(ChoiceItems)
  BY ChoiceAssumption DEF ChoiceType, Visited
<1>4. \A j \in eligible : (\E q \in 1 .. m : s[q] = j) \/ m = num
  BY <1>1, <1>3 DEF Nearest
<1>5. IsFiniteSet(eligible)
  <2>1. 0 \in Int /\ ChoiceItems - 1 \in Int
    BY ChoiceAssumption
  <2>2. IsFiniteSet(0 .. ChoiceItems - 1)
    BY <2>1, FS_Interval
  <2> QED BY <2>2, FS_Subset DEF ChoiceType
<1>6. Cardinality(eligible) \in Nat
  BY <1>5, FS_CardinalityType
<1> HIDE DEF m
<1>7. eligible # {} => m >= 1
  BY <1>2, <1>4
<1>8. ASSUME Cardinality(eligible) >= num, m # num PROVE FALSE
  <2>1. \A j \in eligible : \E q \in 1 .. m : s[q] = j
    BY <1>4, <1>8
  <2>2. Cardinality(eligible) <= m
    BY <1>2, <2>1, ImageIsSmall
  <2> QED BY <1>2, <1>6, <1>8, <2>2
<1> QED BY <1>2, <1>5, <1>6, <1>7, <1>8 DEF m, s

(* What a choice is.                                                       *)
LEMMA ChoiceFacts ==
  ASSUME ChoiceType, NEW item \in Choosing!MayChoose
  PROVE  /\ eligible = {} => item = Choosing!NoItem
         /\ eligible # {} => item \in eligible
         /\ num <= Cardinality(eligible) =>
              Cardinality(Ahead(item)) \in Nat /\ Cardinality(Ahead(item)) < num
<1> DEFINE many == Cardinality(eligible)
           m == Len(Choosing!Kept)
<1>1. Choosing!Cardinality(eligible) = many
  BY DEF Choosing!Cardinality, Cardinality
<1>2. /\ many \in Nat /\ num \in Nat \ {0} /\ m \in 0 .. num
      /\ eligible # {} => m >= 1
      /\ many >= num => m = num
      /\ many = 0 <=> eligible = {}
  BY KeptIsFull, FS_EmptySet DEF ChoiceType
<1> HIDE DEF many, m
<1>3. CASE eligible = {}
  <2>1. item = Choosing!NoItem
    BY <1>1, <1>2, <1>3 DEF Choosing!MayChoose
  <2>2. ~ num <= many
    BY <1>2, <1>3
  <2> QED BY <1>3, <2>1, <2>2 DEF many
<1>4. CASE eligible # {} /\ num > 1 /\ many < num
  <2>1. item \in eligible
    BY <1>1, <1>2, <1>4 DEF Choosing!MayChoose
  <2>2. ~ num <= many
    BY <1>2, <1>4
  <2> QED BY <1>4, <2>1, <2>2 DEF many
<1>5. CASE eligible # {} /\ (num = 1 \/ many >= num)
  <2>1. PICK p \in 1 .. m : item = Choosing!Kept[p]
    <3>1. CASE num = 1
      <4>1. item = Choosing!Kept[1]
        BY <1>1, <1>2, <1>5, <3>1 DEF Choosing!MayChoose
      <4>2. 1 \in 1 .. m
        BY <1>2, <1>5
      <4> QED BY <4>1, <4>2
    <3>2. CASE num > 1 /\ many >= num
      <4>1. item \in {Choosing!Kept[p] : p \in 1 .. num - 1}
        BY <1>1, <1>2, <1>5, <3>2 DEF Choosing!MayChoose
      <4>2. PICK p \in 1 .. num - 1 : item = Choosing!Kept[p]
        BY <4>1
      <4>3. p \in 1 .. m
        BY <1>2, <3>2
      <4> QED BY <4>2, <4>3
    <3> QED BY <1>2, <1>5, <3>1, <3>2
  <2>2. /\ item \in eligible
        /\ Cardinality(Ahead(item)) \in Nat /\ Cardinality(Ahead(item)) < p
    BY <2>1, FewAhead DEF m
  <2>3. Cardinality(Ahead(item)) < num
    BY <1>2, <2>1, <2>2
  <2> QED BY <1>5, <2>2, <2>3
<1> QED BY <1>2, <1>3, <1>4, <1>5

(* What is true of an item chosen.                                         *)
Chosen(item) ==
  /\ eligible = {} => item = Choosing!NoItem
  /\ eligible # {} => item \in eligible
  /\ num <= Cardinality(eligible) =>
       Cardinality(Ahead(item)) \in Nat /\ Cardinality(Ahead(item)) < num

(* The program chooses or stratifies.                                      *)
ChoiceInv ==
  \/ use = "stratify" /\ choice = Choosing!NotCalled
  \/ use = "choose" /\ ChoiceType /\ (choice = Choosing!NotCalled \/ Chosen(choice))

LEMMA ChoiceInvariant == SortingSpec => []ChoiceInv
<1>1. SortingInit => ChoiceInv
  <2> SUFFICES ASSUME SortingInit PROVE ChoiceInv
    OBVIOUS
  <2>1. CASE use = "stratify" /\ choice = Choosing!NotCalled
    BY <2>1 DEF ChoiceInv
  <2>2. CASE use = "choose" /\ Choosing!Init
    <3>1. ChoiceType /\ choice = Choosing!NotCalled
      BY <2>2, ChoiceAssumption DEF Choosing!Init, Choosing!Items, ChoiceType
    <3> QED BY <2>2, <3>1 DEF ChoiceInv
  <2> QED BY <2>1, <2>2 DEF SortingInit
<1>2. ChoiceInv /\ [SortingNext]_<<use, vars, choosing>> => ChoiceInv'
  <2> SUFFICES ASSUME ChoiceInv, [SortingNext]_<<use, vars, choosing>> PROVE ChoiceInv'
    OBVIOUS
  <2>1. CASE UNCHANGED <<use, choosing>>
    BY <2>1 DEF ChoiceInv, choosing, ChoiceType, Chosen, Ahead
  <2>2. CASE use = "choose" /\ Choosing!Next /\ UNCHANGED <<use, vars>>
    <3>1. /\ num' = num /\ dist' = dist /\ eligible' = eligible /\ use' = use
          /\ choice' \in Choosing!MayChoose
      BY <2>2 DEF Choosing!Next, Choosing!Choose
    <3>2. ChoiceType
      BY <2>2 DEF ChoiceInv
    <3>3. Chosen(choice') /\ ChoiceType'
      BY <3>1, <3>2, ChoiceFacts DEF Chosen, ChoiceType
    <3>4. Chosen(choice)'
      BY <3>1, <3>3 DEF Chosen, Ahead
    <3> QED BY <2>2, <3>1, <3>3, <3>4 DEF ChoiceInv
  <2> QED BY <2>1, <2>2 DEF SortingNext
<1> QED BY <1>1, <1>2, PTL DEF SortingSpec

(* An item chosen (oscats_alg_chooser_choose) is eligible and fewer than   *)
(* num of the eligible are closer; for any bank, criterion and num.        *)
THEOREM AmongClosestAlways == SortingSpec => []AmongClosest
<1>1. ChoiceInv => AmongClosest
  <2> SUFFICES ASSUME ChoiceInv, choice # Choosing!NotCalled
               PROVE  /\ choice = Choosing!NoItem <=> eligible = {}
                      /\ choice # Choosing!NoItem =>
                            choice \in eligible /\ Cardinality(Choosing!Closer(choice)) < num
    BY DEF AmongClosest, Choosing!AmongClosest, Choosing!Cardinality, Cardinality
  <2>1. ChoiceType /\ Chosen(choice)
    BY DEF ChoiceInv
  <2>2. /\ eligible = {} => choice = Choosing!NoItem
        /\ eligible # {} => choice \in eligible
        /\ num <= Cardinality(eligible) =>
             Cardinality(Ahead(choice)) \in Nat /\ Cardinality(Ahead(choice)) < num
    BY <2>1 DEF Chosen
  <2>3. choice \in eligible => choice # Choosing!NoItem
    BY <2>1, ChoiceAssumption DEF ChoiceType, Choosing!NoItem
  <2>4. IsFiniteSet(eligible) /\ Cardinality(eligible) \in Nat /\ num \in Nat
    BY <2>1, KeptIsFull DEF ChoiceType
  <2>5. ASSUME choice \in eligible PROVE Cardinality(Choosing!Closer(choice)) < num
    <3> DEFINE C == Choosing!Closer(choice)
    <3>1. C \in SUBSET eligible /\ C \in SUBSET Ahead(choice)
      BY DEF Choosing!Closer, Ahead, AheadOf
    <3>2. Ahead(choice) \in SUBSET eligible
      BY DEF Ahead, AheadOf, Precedes
    <3> HIDE DEF C
    <3>3. /\ IsFiniteSet(C) /\ IsFiniteSet(Ahead(choice))
          /\ Cardinality(C) <= Cardinality(eligible)
      BY <2>4, <3>1, <3>2, FS_Subset
    <3>4. Cardinality(C) <= Cardinality(Ahead(choice)) /\ Cardinality(C) \in Nat
      BY <3>1, <3>3, FS_Subset, FS_CardinalityType
    <3>5. CASE num <= Cardinality(eligible)
      BY <2>2, <2>4, <3>4, <3>5 DEF C
    <3>6. CASE ~ num <= Cardinality(eligible)
      BY <2>4, <3>3, <3>4, <3>6 DEF C
    <3> QED BY <3>5, <3>6
  <2> QED BY <2>2, <2>3, <2>5
<1> QED BY <1>1, ChoiceInvariant, PTL

(* Of the items equally close the first in the bank are kept, for any bank,*)
(* criterion and num (the strict comparison of the insertion).             *)
THEOREM EarlierOfEqualAlways == SortingSpec => []EarlierOfEqual
<1>1. ChoiceInv => EarlierOfEqual
  <2> SUFFICES ASSUME ChoiceInv, num <= Cardinality(eligible), choice \in Choosing!Items
               PROVE  Cardinality(Choosing!Closer(choice) \union
                        {j \in eligible : dist[j] = dist[choice] /\ j < choice}) < num
    BY DEF EarlierOfEqual, Choosing!EarlierOfEqual, Choosing!Cardinality, Cardinality
  <2>1. choice # Choosing!NotCalled
    BY ChoiceAssumption DEF Choosing!Items, Choosing!NotCalled
  <2>2. Chosen(choice)
    BY <2>1 DEF ChoiceInv
  <2>3. Cardinality(Ahead(choice)) < num
    BY <2>2 DEF Chosen
  <2>4. \A j : j \in Ahead(choice) <=>
              j \in Choosing!Closer(choice) \union
                       {k \in eligible : dist[k] = dist[choice] /\ k < choice}
    BY DEF Ahead, AheadOf, Choosing!Closer
  <2>5. \A S, T : (\A x : x \in S <=> x \in T) => S = T
    OBVIOUS
  <2>6. Ahead(choice) = Choosing!Closer(choice) \union
                          {j \in eligible : dist[j] = dist[choice] /\ j < choice}
    BY <2>4, <2>5
  <2> QED BY <2>3, <2>6
<1> QED BY <1>1, ChoiceInvariant, PTL
=============================================================================
