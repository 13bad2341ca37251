-------------------------- MODULE ClassRates_proofs --------------------------
(***************************************************************************)
(* Proofs about ClassRates, for any names, spaces, numbers of points and   *)
(* examinees, and size of a byte: the cached default points, and the       *)
(* counters of the algorithm against the history of the tests.             *)
(***************************************************************************)
EXTENDS ClassRates, FiniteSetTheorems, TLAPS

(* The fields an examinee has, and the names its table has.                *)
ExamineeType ==
  /\ e = [simKey |-> e.simKey, simTheta |-> e.simTheta,
          estKey |-> e.estKey, estTheta |-> e.estTheta, theta |-> e.theta]
  /\ e.theta = [name \in Names |-> e.theta[name]]
  /\ e.simKey \in Names
  /\ e.estKey \in Names

(* The points that exist are those the examinee owns.                      *)
PointsOwned == DOMAIN bin = Owned(e)

DefaultsFollow ==
  /\ e.simTheta = e.theta[e.simKey]
  /\ e.estTheta = e.theta[e.estKey]

IInv == ExamineeType /\ PointsOwned /\ DefaultsFollow

-------------------------------------------------------------------------------

(* Setting a point keeps the caches: under both defaults, one or none.     *)
LEMMA SetThetaKeeps ==
  ASSUME NEW name \in Names, NEW point, ExamineeType, DefaultsFollow,
         e' = SetTheta(e, name, point)
  PROVE  ExamineeType' /\ DefaultsFollow'
BY Zenon DEF ExamineeType, DefaultsFollow, SetTheta

(* The invariant of the default points: at first, and from step to step.  *)
LEMMA InitCorrect == Init => IInv
<1> SUFFICES ASSUME Init PROVE IInv
  OBVIOUS
<1>1. ExamineeType
  BY NamesAssumption DEF Init, NewExaminee, ExamineeType
<1>2. PointsOwned
  BY DEF Init, NewExaminee, PointsOwned, Owned
<1>3. DefaultsFollow
  BY NamesAssumption DEF Init, NewExaminee, DefaultsFollow
<1> QED
  BY <1>1, <1>2, <1>3 DEF IInv

LEMMA StepCorrect == IInv /\ [Next]_vars => IInv'
<1> SUFFICES ASSUME IInv, [Next]_vars PROVE IInv'
  OBVIOUS
<1> USE DEF IInv
<1>1. ASSUME NEW name \in Names, NEW num_bin \in Spaces, InitTheta(name, num_bin)
      PROVE  IInv'
  <2> DEFINE point == CHOOSE p \in Addresses : p \notin DOMAIN bin
  <2>1. e' = SetTheta(e, name, point)
    BY <1>1 DEF InitTheta
  <2>2. ExamineeType' /\ DefaultsFollow'
    BY <2>1, SetThetaKeeps
  <2>3. PointsOwned'
    BY <1>1 DEF InitTheta, PointsOwned
  <2> QED
    BY <2>2, <2>3
<1>2. ASSUME NEW name \in Names \union {NoName}, ChangeSimKey(name)
      PROVE  IInv'
  BY <1>2, NamesAssumption
  DEF ChangeSimKey, SetSimKey, GetTheta, ExamineeType, PointsOwned, Owned, DefaultsFollow
<1>3. ASSUME NEW name \in Names \union {NoName}, ChangeEstKey(name)
      PROVE  IInv'
  BY <1>3, NamesAssumption
  DEF ChangeEstKey, SetEstKey, GetTheta, ExamineeType, PointsOwned, Owned, DefaultsFollow
<1>4. ASSUME NEW name \in Names, NEW dim, NEW value, SetBin(name, dim, value)
      PROVE  IInv'
  BY <1>4 DEF SetBin, ExamineeType, PointsOwned, Owned, DefaultsFollow
<1>5. ASSUME NEW to, NEW from, CopyPoint(to, from)
      PROVE  IInv'
  BY <1>5 DEF CopyPoint, ExamineeType, PointsOwned, Owned, DefaultsFollow
<1>6. CASE Finalize
  BY <1>6 DEF Finalize, ExamineeType, PointsOwned, Owned, DefaultsFollow
<1>7. CASE UNCHANGED vars
  BY <1>7 DEF vars, ExamineeType, PointsOwned, Owned, DefaultsFollow
<1> QED
  BY <1>1, <1>2, <1>3, <1>4, <1>5, <1>6, <1>7 DEF Next

(* The cached points are those under the default names and exist.          *)
LEMMA CacheSound == IInv => ThetaCached
BY DEF IInv, ExamineeType, PointsOwned, Owned, DefaultsFollow, ThetaCached, GetTheta

(* Simulation and estimation use the points under the examinee's default   *)
(* names (simTheta, estTheta of examinee.c), never a point that was freed. *)
THEOREM DefaultPoints == Spec => []ThetaCached
<1>1. Init => IInv
  BY InitCorrect
<1>2. IInv /\ [Next]_vars => IInv'
  BY StepCorrect
<1>3. IInv => ThetaCached
  BY CacheSound
<1> QED
  BY <1>1, <1>2, <1>3, PTL DEF Spec


-------------------------------------------------------------------------------
(* The patterns of the points.                                             *)

Arrays ==
  {a \in [bit_len : Spaces, data : SUBSET Nat, num_set : Int, pos : Int] :
     a.data \subseteq 0 .. a.bit_len - 1}

BinType == bin \in [DOMAIN bin -> Arrays]

(* What the operations on points make of an array is an array again.       *)
LEMMA NewIsArray == \A n \in Spaces : Bits!New(n) \in Arrays
<1> SUFFICES ASSUME NEW n \in Spaces PROVE Bits!New(n) \in Arrays
  OBVIOUS
<1>1. n \in Nat /\ ByteBits \in Nat \ {0}
  BY ClassRatesAssumption
<1>2. Bits!ByteLen(n) + 1 \in Int
  BY <1>1 DEF Bits!ByteLen
<1>3. \A m \in Int : m * ByteBits + (0 % ByteBits) \in Int
  BY <1>1
<1>4. (Bits!ByteLen(n) + 1) * ByteBits + (0 % ByteBits) \in Int
  BY <1>2, <1>3
<1> HIDE DEF Bits!ByteLen
<1> QED BY <1>4 DEF Bits!New, Bits!Resize, Bits!PastByte, Arrays

LEMMA SetBitIsArray ==
  ASSUME NEW a \in Arrays, NEW dim \in Nat, dim < a.bit_len, NEW value \in BOOLEAN
  PROVE  Bits!SetBitVal(a, dim, value) \in Arrays
<1>1. a.bit_len \in Nat /\ a.num_set \in Int
  BY ClassRatesAssumption DEF Arrays
<1>2. /\ a.data \union {dim} \in SUBSET Nat /\ a.data \union {dim} \subseteq 0 .. a.bit_len - 1
      /\ a.data \ {dim} \in SUBSET Nat /\ a.data \ {dim} \subseteq 0 .. a.bit_len - 1
  BY <1>1 DEF Arrays
<1>3. \A d \in SUBSET Nat, n \in Int :
        d \subseteq 0 .. a.bit_len - 1 => [a EXCEPT !.data = d, !.num_set = n] \in Arrays
  BY DEF Arrays
<1>4. a.num_set + 1 \in Int /\ a.num_set - 1 \in Int
  BY <1>1
<1> QED BY <1>2, <1>3, <1>4 DEF Bits!SetBitVal, Bits!SetBit, Bits!ClearBit

LEMMA CopyIsArray ==
  ASSUME NEW a \in Arrays, NEW b \in Arrays, a.bit_len = b.bit_len
  PROVE  Bits!Copy(a, b) \in Arrays
BY DEF Bits!Copy, Arrays

(* Every point that exists has an array of a space's length, no padding    *)
(* bit set.                                                                *)
LEMMA BinTypeStep == IInv /\ BinType /\ [Next]_vars => BinType'
<1> SUFFICES ASSUME IInv, BinType, [Next]_vars PROVE BinType'
  OBVIOUS
<1>1. ASSUME NEW name \in Names, NEW num_bin \in Spaces, InitTheta(name, num_bin)
      PROVE  BinType'
  <2> DEFINE point == CHOOSE p \in Addresses : p \notin DOMAIN bin
  <2>1. /\ e' = SetTheta(e, name, point)
        /\ bin' = [p \in Owned(e') |-> IF p = point THEN Bits!New(num_bin) ELSE bin[p]]
    BY <1>1 DEF InitTheta
  <2> HIDE DEF point
  <2>2. \A p \in Owned(e') : p = point \/ p \in Owned(e)
    BY <2>1 DEF SetTheta, Owned, IInv, ExamineeType
  <2>3. Bits!New(num_bin) \in Arrays
    BY NewIsArray
  <2>4. \A p \in Owned(e') : p # point => bin[p] \in Arrays
    BY <2>2 DEF BinType, IInv, PointsOwned
  <2> HIDE DEF Arrays
  <2> QED BY <2>1, <2>3, <2>4 DEF BinType
<1>2. ASSUME NEW name \in Names, NEW value \in BOOLEAN, NEW dim \in 0 .. Bits!Max(Spaces) - 1,
             SetBin(name, dim, value)
      PROVE  BinType'
  <2> DEFINE point == GetTheta(e, name)
  <2>1. /\ point # NoPoint /\ dim < bin[point].bit_len
        /\ bin' = [bin EXCEPT ![point] = Bits!SetBitVal(bin[point], dim, value)]
    BY <1>2 DEF SetBin
  <2>2. point \in DOMAIN bin
    BY <2>1 DEF GetTheta, IInv, PointsOwned, Owned, ExamineeType
  <2> HIDE DEF point
  <2>3. dim \in Nat
    OBVIOUS
  <2>4. Bits!SetBitVal(bin[point], dim, value) \in Arrays
    BY <2>1, <2>2, <2>3, SetBitIsArray DEF BinType
  <2> QED BY <2>1, <2>4 DEF BinType
<1>3. ASSUME NEW to \in Names, NEW from \in Names, CopyPoint(to, from)
      PROVE  BinType'
  <2> DEFINE lhs == GetTheta(e, to)
             rhs == GetTheta(e, from)
  <2>1. /\ lhs # NoPoint /\ rhs # NoPoint /\ bin[lhs].bit_len = bin[rhs].bit_len
        /\ bin' = [bin EXCEPT ![lhs] = Bits!Copy(bin[lhs], bin[rhs])]
    BY <1>3 DEF CopyPoint, Compatible
  <2>2. lhs \in DOMAIN bin /\ rhs \in DOMAIN bin
    BY <2>1 DEF GetTheta, IInv, PointsOwned, Owned, ExamineeType
  <2> HIDE DEF lhs, rhs
  <2>3. Bits!Copy(bin[lhs], bin[rhs]) \in Arrays
    BY <2>1, <2>2, CopyIsArray DEF BinType
  <2> QED BY <2>1, <2>3 DEF BinType
<1>4. ASSUME UNCHANGED bin PROVE BinType'
  BY <1>4 DEF BinType
<1> QED
  BY <1>1, <1>2, <1>3, <1>4 DEF Next, ChangeSimKey, ChangeEstKey, Finalize, vars

-------------------------------------------------------------------------------
(* Counting the tests.                                                     *)

Outcomes == {o \in [truth : Arrays, hat : Arrays] : o.truth.bit_len = o.hat.bit_len}

WrongIn(o) == (o.truth.data \ o.hat.data) \union (o.hat.data \ o.truth.data)

(* The tests of T with n attributes whose outcome is in S. *)
TestsIn(T, n, S) == {t \in DOMAIN T : T[t].truth.bit_len = n /\ T[t] \in S}
CountOf(T, n, S) == Cardinality(TestsIn(T, n, S))

(* Only finitely many tests count, so their numbers are natural numbers.   *)
LEMMA TestsFinite ==
  ASSUME NEW T \in Seq(Outcomes), NEW n, NEW S
  PROVE  IsFiniteSet(TestsIn(T, n, S)) /\ CountOf(T, n, S) \in Nat
<1>1. Len(T) \in Int /\ 1 \in Int
  OBVIOUS
<1>2. IsFiniteSet(1 .. Len(T))
  BY <1>1, FS_Interval
<1>3. TestsIn(T, n, S) \subseteq 1 .. Len(T)
  BY DEF TestsIn
<1>4. IsFiniteSet(TestsIn(T, n, S))
  BY <1>2, <1>3, FS_Subset
<1> QED BY <1>4, FS_CardinalityType DEF CountOf

(* Before the first test nothing counts; one test adds at most one.        *)
LEMMA CountNone == \A n, S : CountOf(<<>>, n, S) = 0
<1>1. \A n, S : TestsIn(<<>>, n, S) = {}
  BY DEF TestsIn
<1> QED BY <1>1, FS_EmptySet DEF CountOf

LEMMA CountMore ==
  ASSUME NEW T \in Seq(Outcomes), NEW n, NEW o \in Outcomes
  PROVE  \A S : CountOf(Append(T, o), n, S)
                  = IF o.truth.bit_len = n /\ o \in S THEN CountOf(T, n, S) + 1
                    ELSE CountOf(T, n, S)
<1> DEFINE U == Append(T, o)
           new == Len(T) + 1
<1>1. /\ U \in Seq(Outcomes) /\ DOMAIN U = DOMAIN T \union {new} /\ new \notin DOMAIN T
      /\ U[new] = o /\ \A t \in DOMAIN T : U[t] = T[t]
  OBVIOUS
<1> HIDE DEF U, new
<1> SUFFICES ASSUME NEW S
             PROVE  CountOf(U, n, S)
                      = IF o.truth.bit_len = n /\ o \in S THEN CountOf(T, n, S) + 1
                        ELSE CountOf(T, n, S)
  BY DEF U
<1>2. CASE o.truth.bit_len = n /\ o \in S
  <2>1. TestsIn(U, n, S) = TestsIn(T, n, S) \union {new} /\ new \notin TestsIn(T, n, S)
    BY <1>1, <1>2 DEF TestsIn
  <2>2. Cardinality(TestsIn(T, n, S) \union {new}) = Cardinality(TestsIn(T, n, S)) + 1
    BY <2>1, TestsFinite, FS_AddElement
  <2> QED BY <1>2, <2>1, <2>2 DEF CountOf
<1>3. CASE ~ (o.truth.bit_len = n /\ o \in S)
  <2>1. TestsIn(U, n, S) = TestsIn(T, n, S)
    BY <1>1, <1>3 DEF TestsIn
  <2> QED BY <1>3, <2>1 DEF CountOf
<1> QED BY <1>2, <1>3

-------------------------------------------------------------------------------
(* The counters of the tests T with n attributes.                          *)

AlgType(d) ==
  d = [simKey |-> d.simKey, estKey |-> d.estKey, num_examinees |-> d.num_examinees,
       num_attrs |-> d.num_attrs, correct_attribute |-> d.correct_attribute,
       correct_patterns |-> d.correct_patterns, misclassify_hist |-> d.misclassify_hist,
       rate_by_pattern |-> d.rate_by_pattern]

AllRight == {o \in Outcomes : WrongIn(o) = {}}
Right(i) == {o \in Outcomes : i \notin WrongIn(o)}
Mistakes(num) == {o \in Outcomes : Cardinality(WrongIn(o)) = num}
Having(data) == {o \in Outcomes : o.truth.data = data}
HavingRight(data) == {o \in Outcomes : o.truth.data = data /\ WrongIn(o) = {}}

Nodes == [attr : Arrays, tested : Nat, correct : Nat]

Rates(d, T, n) ==
  /\ d.num_examinees = CountOf(T, n, Outcomes)
  /\ d.correct_patterns = CountOf(T, n, AllRight)
  /\ d.correct_attribute = [i \in 0 .. n - 1 |-> CountOf(T, n, Right(i))]
  /\ d.misclassify_hist = [num \in 0 .. n |-> CountOf(T, n, Mistakes(num))]

Tree(d, T, n) ==
  /\ \A node \in d.rate_by_pattern :
       /\ node \in Nodes
       /\ node.tested = CountOf(T, n, Having(node.attr.data))
       /\ node.correct = CountOf(T, n, HavingRight(node.attr.data))
       /\ node.tested # 0
  /\ \A node, other \in d.rate_by_pattern :
       node.attr.data = other.attr.data => node = other
  /\ \A data : (\A node \in d.rate_by_pattern : node.attr.data # data)
                 => CountOf(T, n, Having(data)) = 0

Exact(d, T, n) == AlgType(d) /\ d.num_attrs = n /\ Rates(d, T, n) /\ Tree(d, T, n)

(* The counters just allocated are those of no test.                       *)
LEMMA ExactAtFirst ==
  ASSUME NEW n, NEW simKey, NEW estKey
  PROVE  Exact(Allocated(NewAlg(simKey, estKey), n), <<>>, n)
BY CountNone DEF Exact, AlgType, Rates, Tree, Allocated, NewAlg

(* A test of another number of attributes does not count. *)
LEMMA ExactElse ==
  ASSUME NEW d, NEW n, NEW T \in Seq(Outcomes), Exact(d, T, n),
         NEW o \in Outcomes, o.truth.bit_len # n
  PROVE  Exact(d, Append(T, o), n)
<1>1. \A S : CountOf(Append(T, o), n, S) = CountOf(T, n, S)
  BY CountMore
<1> QED BY <1>1 DEF Exact, Rates, Tree

(* The loop over the attributes counts the ones on which the two patterns  *)
(* differ.                                                                 *)
LEMMA WrongFacts ==
  ASSUME NEW o \in Outcomes
  PROVE  LET n     == o.truth.bit_len
             agree == {i \in 0 .. n - 1 : Bits!GetBit(o.truth, i) = Bits!GetBit(o.hat, i)}
         IN  /\ n \in Nat \ {0}
             /\ \A i \in 0 .. n - 1 : i \in agree <=> i \notin WrongIn(o)
             /\ Cardinality(WrongIn(o)) \in 0 .. n
             /\ n - Cardinality(agree) = Cardinality(WrongIn(o))
             /\ Cardinality(WrongIn(o)) = 0 <=> WrongIn(o) = {}
<1> DEFINE n == o.truth.bit_len
           all == 0 .. n - 1
           agree == {i \in all : Bits!GetBit(o.truth, i) = Bits!GetBit(o.hat, i)}
           wrong == WrongIn(o)
<1>1. n \in Nat \ {0} /\ o.truth.data \subseteq all /\ o.hat.data \subseteq all
  BY ClassRatesAssumption DEF Outcomes, Arrays
<1>2. agree \subseteq all /\ wrong = all \ agree
  BY <1>1 DEF WrongIn, Bits!GetBit
<1> HIDE DEF agree, wrong, n
<1>3. IsFiniteSet(all) /\ Cardinality(all) = n
  <2>1. 0 \in Int /\ n - 1 \in Int /\ n \in Nat \ {0}
    BY <1>1
  <2>2. IsFiniteSet(all) /\ Cardinality(all) = IF 0 > n - 1 THEN 0 ELSE n - 1 - 0 + 1
    BY <2>1, FS_Interval
  <2> QED BY <2>1, <2>2
<1>4. IsFiniteSet(agree) /\ IsFiniteSet(wrong)
  BY <1>2, <1>3, FS_Subset
<1>5. Cardinality(agree) \in Nat /\ Cardinality(wrong) \in Nat
  BY <1>4, FS_CardinalityType
<1>6. Cardinality(wrong) = n - Cardinality(agree)
  <2>1. all \intersect agree = agree
    BY <1>2
  <2> HIDE DEF all
  <2>2. Cardinality(all \ agree) = Cardinality(all) - Cardinality(all \intersect agree)
    BY <1>3, <1>4, FS_Difference
  <2> QED BY <1>2, <1>3, <2>1, <2>2
<1>7. Cardinality(wrong) = 0 <=> wrong = {}
  BY <1>4, FS_EmptySet
<1>8. n - Cardinality(agree) = Cardinality(wrong) /\ Cardinality(wrong) \in 0 .. n
  BY <1>1, <1>5, <1>6
<1>9. \A i \in 0 .. n - 1 : i \in agree <=> i \notin wrong
  BY <1>2
<1> QED BY <1>1, <1>7, <1>8, <1>9 DEF agree, wrong, n


(* The lookup in the tree finds the node of the pattern. *)
LEMMA LookupFacts ==
  ASSUME NEW tree, NEW attr
  PROVE  Lookup(tree, attr) = {node \in tree : node.attr.data = attr.data}
<1>1. ASSUME NEW node \in tree
      PROVE  Bits!SerialCompare(attr, node.attr) = 0 <=> attr.data = node.attr.data
  <2> DEFINE differ == (attr.data \ node.attr.data) \union (node.attr.data \ attr.data)
  <2>1. differ = {} <=> attr.data = node.attr.data
    OBVIOUS
  <2>2. Bits!SerialCompare(attr, node.attr) = 0 <=> differ = {}
    BY DEF Bits!SerialCompare
  <2> QED BY <2>1, <2>2
<1> QED BY <1>1 DEF Lookup


(* If no test counts in S, then none does in a part of S.                  *)
LEMMA CountZero ==
  ASSUME NEW T \in Seq(Outcomes), NEW n, NEW S, NEW R, R \subseteq S, CountOf(T, n, S) = 0
  PROVE  CountOf(T, n, R) = 0
<1>1. IsFiniteSet(TestsIn(T, n, S)) /\ Cardinality(TestsIn(T, n, S)) = 0
  BY TestsFinite DEF CountOf
<1>2. TestsIn(T, n, S) = {}
  BY <1>1, FS_EmptySet
<1>3. TestsIn(T, n, R) = {}
  BY <1>2 DEF TestsIn
<1> QED BY <1>3, FS_EmptySet DEF CountOf

(* A test of n attributes: the plain counters are those of one test more.  *)
LEMMA RatesMore ==
  ASSUME NEW d, NEW n, NEW T \in Seq(Outcomes), Exact(d, T, n),
         NEW o \in Outcomes, o.truth.bit_len = n
  PROVE  LET counted == Counted(d, o.truth, o.hat)
         IN  /\ AlgType(counted) /\ counted.num_attrs = n
             /\ Rates(counted, Append(T, o), n)
             /\ counted.rate_by_pattern
                  = Tabulated(d.rate_by_pattern, o.truth, WrongIn(o) = {})
<1> DEFINE U == Append(T, o)
           agree == {i \in 0 .. n - 1 : Bits!GetBit(o.truth, i) = Bits!GetBit(o.hat, i)}
           num == Cardinality(WrongIn(o))
           counted == Counted(d, o.truth, o.hat)
<1>1. /\ n \in Nat \ {0}
      /\ \A i \in 0 .. n - 1 : i \in agree <=> i \notin WrongIn(o)
      /\ num \in 0 .. n
      /\ n - Cardinality(agree) = num
      /\ num = 0 <=> WrongIn(o) = {}
  BY WrongFacts
<1>2. \A S : CountOf(U, n, S) = IF o \in S THEN CountOf(T, n, S) + 1 ELSE CountOf(T, n, S)
  BY CountMore
<1>3. AlgType(d) /\ d.num_attrs = n /\ Rates(d, T, n)
  BY DEF Exact
<1>4. counted =
        [d EXCEPT
           !.num_examinees     = @ + 1,
           !.correct_attribute = [i \in 0 .. n - 1 |-> IF i \in agree THEN @[i] + 1 ELSE @[i]],
           !.correct_patterns  = IF num = 0 THEN @ + 1 ELSE @,
           !.misclassify_hist[num] = @ + 1,
           !.rate_by_pattern   = Tabulated(@, o.truth, num = 0)]
  BY <1>1, <1>3 DEF Counted
<1> HIDE DEF agree, num, counted, U
<1>5. /\ AlgType(counted) /\ counted.num_attrs = n
      /\ counted.num_examinees = d.num_examinees + 1
      /\ counted.correct_attribute
           = [i \in 0 .. n - 1 |-> IF i \in agree THEN d.correct_attribute[i] + 1
                                   ELSE d.correct_attribute[i]]
      /\ counted.correct_patterns = IF num = 0 THEN d.correct_patterns + 1
                                    ELSE d.correct_patterns
      /\ counted.misclassify_hist = [d.misclassify_hist EXCEPT ![num] = @ + 1]
      /\ counted.rate_by_pattern = Tabulated(d.rate_by_pattern, o.truth, num = 0)
  BY <1>3, <1>4 DEF AlgType
<1>6. counted.num_examinees = CountOf(U, n, Outcomes)
  BY <1>2, <1>3, <1>5 DEF Rates
<1>7. counted.correct_patterns = CountOf(U, n, AllRight)
  <2>1. o \in AllRight <=> num = 0
    BY <1>1 DEF AllRight
  <2> QED BY <1>2, <1>3, <1>5, <2>1 DEF Rates
<1>8. counted.correct_attribute = [i \in 0 .. n - 1 |-> CountOf(U, n, Right(i))]
  <2>1. \A i \in 0 .. n - 1 : o \in Right(i) <=> i \in agree
    BY <1>1 DEF Right
  <2>2. d.correct_attribute = [i \in 0 .. n - 1 |-> CountOf(T, n, Right(i))]
    BY <1>3 DEF Rates
  <2>3. \A i \in 0 .. n - 1 : CountOf(U, n, Right(i))
          = IF i \in agree THEN d.correct_attribute[i] + 1 ELSE d.correct_attribute[i]
    BY <1>2, <2>1, <2>2
  <2> QED BY <1>5, <2>3
<1>9. counted.misclassify_hist = [m \in 0 .. n |-> CountOf(U, n, Mistakes(m))]
  <2>1. \A m \in 0 .. n : o \in Mistakes(m) <=> m = num
    BY DEF Mistakes, num
  <2>2. d.misclassify_hist = [m \in 0 .. n |-> CountOf(T, n, Mistakes(m))]
    BY <1>3 DEF Rates
  <2>3. \A m \in 0 .. n : CountOf(U, n, Mistakes(m))
          = IF m = num THEN d.misclassify_hist[m] + 1 ELSE d.misclassify_hist[m]
    BY <1>2, <2>1, <2>2
  <2> QED BY <1>1, <1>5, <2>2, <2>3
<1>10. counted.rate_by_pattern = Tabulated(d.rate_by_pattern, o.truth, WrongIn(o) = {})
  BY <1>1, <1>5
<1> QED BY <1>5, <1>6, <1>7, <1>8, <1>9, <1>10 DEF Rates, counted, U

(* The same for the tree: first one node, then the whole.                  *)
LEMMA NodeMore ==
  ASSUME NEW node \in Nodes, NEW right \in BOOLEAN
  PROVE  LET more == [node EXCEPT !.tested = @ + 1,
                                  !.correct = IF right THEN @ + 1 ELSE @]
         IN  /\ more \in Nodes
             /\ more.attr = node.attr
             /\ more.tested = node.tested + 1
             /\ more.correct = IF right THEN node.correct + 1 ELSE node.correct
<1>1. node.tested + 1 \in Nat /\ node.correct + 1 \in Nat /\ node.correct \in Nat
  BY DEF Nodes
<1>2. \A n, m \in Nat :
        LET more == [node EXCEPT !.tested = n, !.correct = m]
        IN  more \in Nodes /\ more.attr = node.attr /\ more.tested = n /\ more.correct = m
  BY DEF Nodes
<1> DEFINE m == IF right THEN node.correct + 1 ELSE node.correct
           more == [node EXCEPT !.tested = node.tested + 1, !.correct = m]
<1>3. m \in Nat
  BY <1>1
<1> HIDE DEF m
<1>4. more \in Nodes /\ more.attr = node.attr /\ more.tested = node.tested + 1 /\ more.correct = m
  BY <1>1, <1>2, <1>3
<1> QED BY <1>4 DEF m

LEMMA TreeMore ==
  ASSUME NEW d, NEW n, NEW T \in Seq(Outcomes), Tree(d, T, n),
         NEW o \in Outcomes, o.truth.bit_len = n,
         NEW new, new.rate_by_pattern
                    = Tabulated(d.rate_by_pattern, o.truth, WrongIn(o) = {})
  PROVE  Tree(new, Append(T, o), n)
<1> DEFINE U == Append(T, o)
           tree == d.rate_by_pattern
           truth == o.truth
           right == WrongIn(o) = {}
           found == Lookup(tree, truth)
           old == IF found = {} THEN [attr |-> truth, tested |-> 0, correct |-> 0]
                  ELSE CHOOSE m \in found : TRUE
           node == [old EXCEPT !.tested = @ + 1, !.correct = IF right THEN @ + 1 ELSE @]
<1>1. new.rate_by_pattern = (tree \ found) \union {node}
  BY DEF Tabulated
<1>2. found = {m \in tree : m.attr.data = truth.data}
  BY LookupFacts
<1>3. \A S : CountOf(U, n, S) = IF o \in S THEN CountOf(T, n, S) + 1 ELSE CountOf(T, n, S)
  BY CountMore
<1>4. \A S : CountOf(T, n, S) \in Nat
  BY TestsFinite
<1>15. CountOf(T, n, Having(truth.data)) = 0 => CountOf(T, n, HavingRight(truth.data)) = 0
  <2>1. HavingRight(truth.data) \subseteq Having(truth.data)
    BY DEF Having, HavingRight
  <2> QED BY <2>1, CountZero
<1>5. \A data : /\ o \in Having(data) <=> truth.data = data
                /\ o \in HavingRight(data) <=> truth.data = data /\ right
  BY DEF Having, HavingRight
<1>6. truth \in Arrays
  BY DEF Outcomes
<1> HIDE DEF found, U, node
<1>7. /\ old \in Nodes /\ old.attr.data = truth.data
      /\ old.tested = CountOf(T, n, Having(truth.data))
      /\ old.correct = CountOf(T, n, HavingRight(truth.data))
  <2>1. CASE found = {}
    <3>1. CountOf(T, n, Having(truth.data)) = 0
      BY <1>2, <2>1 DEF Tree
    <3>2. CountOf(T, n, HavingRight(truth.data)) = 0
      BY <1>15, <3>1
    <3>3. old = [attr |-> truth, tested |-> 0, correct |-> 0]
      BY <2>1
    <3> HIDE DEF old
    <3> QED BY <1>6, <3>1, <3>2, <3>3 DEF Nodes
  <2>2. CASE found # {}
    <3>1. old \in found
      BY <2>2
    <3> HIDE DEF old
    <3>2. old \in tree /\ old.attr.data = truth.data
      BY <1>2, <3>1
    <3> QED BY <3>2 DEF Tree
  <2> QED BY <2>1, <2>2
<1> HIDE DEF old
<1>8. /\ node \in Nodes
      /\ node.attr = old.attr
      /\ node.tested = old.tested + 1
      /\ node.correct = IF right THEN old.correct + 1 ELSE old.correct
  BY <1>7, NodeMore DEF node
<1>9. /\ node.attr.data = truth.data
      /\ node.tested = CountOf(U, n, Having(truth.data))
      /\ node.correct = CountOf(U, n, HavingRight(truth.data))
      /\ node.tested # 0
  BY <1>3, <1>4, <1>5, <1>7, <1>8
<1>10. \A m \in tree \ found :
         /\ m \in Nodes
         /\ m.attr.data # truth.data
         /\ m.tested = CountOf(T, n, Having(m.attr.data))
         /\ m.correct = CountOf(T, n, HavingRight(m.attr.data))
         /\ m.tested # 0
  BY <1>2 DEF Tree
<1>11. \A m \in tree \ found :
         /\ m.tested = CountOf(U, n, Having(m.attr.data))
         /\ m.correct = CountOf(U, n, HavingRight(m.attr.data))
  BY <1>3, <1>5, <1>10
<1>12. \A m \in new.rate_by_pattern :
         /\ m \in Nodes
         /\ m.tested = CountOf(U, n, Having(m.attr.data))
         /\ m.correct = CountOf(U, n, HavingRight(m.attr.data))
         /\ m.tested # 0
  <2> TAKE m \in new.rate_by_pattern
  <2>1. CASE m = node
    BY <1>8, <1>9, <2>1
  <2>2. CASE m \in tree \ found
    BY <1>10, <1>11, <2>2
  <2> QED BY <1>1, <2>1, <2>2
<1>13. \A m, other \in new.rate_by_pattern : m.attr.data = other.attr.data => m = other
  <2>1. \A m, other \in tree : m.attr.data = other.attr.data => m = other
    BY DEF Tree
  <2>2. ASSUME NEW m \in new.rate_by_pattern, NEW other \in new.rate_by_pattern,
               m.attr.data = other.attr.data
        PROVE  m = other
    <3>1. CASE m = node /\ other = node
      BY <3>1
    <3>2. CASE m # node /\ other # node
      BY <1>1, <2>1, <2>2, <3>2
    <3>3. CASE m = node /\ other # node
      BY <1>1, <1>9, <1>10, <2>2, <3>3
    <3>4. CASE m # node /\ other = node
      BY <1>1, <1>9, <1>10, <2>2, <3>4
    <3> QED BY <3>1, <3>2, <3>3, <3>4
  <2> QED BY <2>2
<1>14. ASSUME NEW data, \A m \in new.rate_by_pattern : m.attr.data # data
       PROVE  CountOf(U, n, Having(data)) = 0
  <2>1. data # truth.data
    BY <1>1, <1>9, <1>14
  <2>2. \A m \in tree : m.attr.data # data
    BY <1>1, <1>2, <1>14, <2>1
  <2>3. CountOf(T, n, Having(data)) = 0
    BY <2>2 DEF Tree
  <2> QED BY <1>3, <1>5, <2>1, <2>3
<1> QED BY <1>12, <1>13, <1>14 DEF Tree, U

(* Altogether: all counters are those of one test more.                    *)
LEMMA ExactMore ==
  ASSUME NEW d, NEW n, NEW T \in Seq(Outcomes), Exact(d, T, n),
         NEW o \in Outcomes, o.truth.bit_len = n
  PROVE  Exact(Counted(d, o.truth, o.hat), Append(T, o), n)
BY RatesMore, TreeMore DEF Exact


-------------------------------------------------------------------------------
(* The invariant of the counters. *)

Keys == {alg.simKey, alg.estKey} \subseteq Names \union {NoName}

TestedType == tested \in Seq(Outcomes)

Counters ==
  IF tested = <<>> THEN alg = NewAlg(alg.simKey, alg.estKey)
  ELSE Exact(alg, tested, tested[1].truth.bit_len)

CountersInv == IInv /\ BinType /\ Keys /\ TestedType /\ Counters

(* The invariant of the counters: at first.                                *)
LEMMA CountersInit == Init => CountersInv
<1> SUFFICES ASSUME Init PROVE CountersInv
  OBVIOUS
<1>1. PICK s \in AlgNames, t \in AlgNames : alg = NewAlg(s, t)
  BY DEF Init
<1>2. alg = NewAlg(alg.simKey, alg.estKey) /\ Keys
  BY <1>1, ClassRatesAssumption DEF NewAlg, Keys
<1>3. tested = <<>> /\ bin = <<>>
  BY DEF Init
<1>4. BinType
  BY <1>3 DEF BinType
<1> QED BY <1>2, <1>3, <1>4, InitCorrect DEF CountersInv, TestedType, Counters

(* A point that has a name exists.                                         *)
LEMMA PointsExist ==
  ASSUME IInv, NEW name, name \in Names, GetTheta(e, name) # NoPoint
  PROVE  GetTheta(e, name) \in DOMAIN bin
BY DEF GetTheta, IInv, PointsOwned, Owned, ExamineeType

(* What is compared is what the history records. *)
LEMMA ComparedFacts ==
  ASSUME IInv, BinType, Keys, Compatible(AlphaTrue, AlphaHat)
  PROVE  /\ PatternOf(alg.simKey, e.simKey) = bin[AlphaTrue]
         /\ PatternOf(alg.estKey, e.estKey) = bin[AlphaHat]
         /\ [truth |-> bin[AlphaTrue], hat |-> bin[AlphaHat]] \in Outcomes
<1>1. AlphaTrue = GetTheta(e, IF alg.simKey # NoName THEN alg.simKey ELSE e.simKey)
  BY DEF AlphaTrue, IInv, DefaultsFollow, GetTheta
<1>2. AlphaHat = GetTheta(e, IF alg.estKey # NoName THEN alg.estKey ELSE e.estKey)
  BY DEF AlphaHat, IInv, DefaultsFollow, GetTheta
<1>3. AlphaTrue # NoPoint /\ AlphaHat # NoPoint /\ bin[AlphaTrue].bit_len = bin[AlphaHat].bit_len
  BY DEF Compatible
<1>4. AlphaTrue \in DOMAIN bin /\ AlphaHat \in DOMAIN bin
  BY <1>1, <1>2, <1>3, PointsExist DEF Keys, IInv, ExamineeType
<1>5. bin[AlphaTrue] \in Arrays /\ bin[AlphaHat] \in Arrays
  BY <1>4 DEF BinType
<1>6. [truth |-> bin[AlphaTrue], hat |-> bin[AlphaHat]] \in Outcomes
  BY <1>3, <1>5 DEF Outcomes
<1> QED BY <1>1, <1>2, <1>6 DEF PatternOf

(* The counters are allocated by the first examinee only.                  *)
LEMMA AllocatedFacts ==
  ASSUME Keys, TestedType, Counters, NEW n \in Spaces
  PROVE  LET data  == Allocated(alg, n)
             first == IF tested = <<>> THEN n ELSE tested[1].truth.bit_len
         IN  /\ Exact(data, tested, first)
             /\ data.simKey = alg.simKey /\ data.estKey = alg.estKey
<1> DEFINE data == Allocated(alg, n)
<1>1. CASE tested = <<>>
  <2>1. alg = NewAlg(alg.simKey, alg.estKey)
    BY <1>1 DEF Counters
  <2>2. Exact(data, <<>>, n)
    BY <2>1, ExactAtFirst
  <2>3. data.simKey = alg.simKey /\ data.estKey = alg.estKey
    BY <2>1 DEF Allocated, NewAlg
  <2> QED BY <1>1, <2>2, <2>3
<1>2. CASE tested # <<>>
  <2> DEFINE first == tested[1].truth.bit_len
  <2>1. Exact(alg, tested, first)
    BY <1>2 DEF Counters
  <2>2. tested[1] \in Outcomes
    BY <1>2 DEF TestedType
  <2>3. first \in Nat \ {0}
    BY <2>2, WrongFacts
  <2>4. alg.correct_attribute = [i \in 0 .. first - 1 |-> CountOf(tested, first, Right(i))]
    BY <2>1 DEF Exact, Rates
  <2> HIDE DEF first
  <2>5. 0 \in DOMAIN alg.correct_attribute
    BY <2>3, <2>4
  <2>6. data = alg
    BY <2>5 DEF Allocated
  <2> QED BY <1>2, <2>1, <2>6 DEF first
<1> QED BY <1>1, <1>2

(* Counting leaves the algorithm's names.                                  *)
LEMMA KeysKept ==
  ASSUME NEW d, NEW truth, NEW hat, AlgType(d)
  PROVE  LET counted == Counted(d, truth, hat)
         IN  counted.simKey = d.simKey /\ counted.estKey = d.estKey
BY DEF Counted, AlgType

(* The handler of finalize keeps the invariant.                            *)
LEMMA FinalizeKeeps ==
  ASSUME CountersInv, Finalize
  PROVE  Keys' /\ TestedType' /\ Counters'
<1> DEFINE truth == bin[AlphaTrue]
           hat == bin[AlphaHat]
           o == [truth |-> truth, hat |-> hat]
           data == Allocated(alg, truth.bit_len)
           first == IF tested = <<>> THEN truth.bit_len ELSE tested[1].truth.bit_len
<1>1. o \in Outcomes /\ tested' = Append(tested, o)
  BY ComparedFacts DEF CountersInv, Finalize
<1>2. alg' = IF data.num_attrs = truth.bit_len THEN Counted(data, truth, hat) ELSE data
  BY DEF Finalize
<1>3. truth.bit_len \in Spaces /\ o.truth = truth /\ o.hat = hat
  BY <1>1 DEF Outcomes, Arrays
<1>4. Exact(data, tested, first) /\ data.simKey = alg.simKey /\ data.estKey = alg.estKey
  BY <1>3, AllocatedFacts DEF CountersInv
<1>5. tested \in Seq(Outcomes)
  BY DEF CountersInv, TestedType
<1> HIDE DEF o, data, truth, hat
<1>6. /\ tested' \in Seq(Outcomes) /\ tested' # <<>>
      /\ tested'[1].truth.bit_len = first
  BY <1>1, <1>3, <1>5
<1> HIDE DEF first
<1>7. data.num_attrs = first /\ AlgType(data)
  BY <1>4 DEF Exact
<1>8. Exact(alg', tested', first)
  <2>1. CASE first = truth.bit_len
    BY <1>1, <1>2, <1>3, <1>4, <1>5, <1>7, <2>1, ExactMore
  <2>2. CASE first # truth.bit_len
    BY <1>1, <1>2, <1>3, <1>4, <1>5, <1>7, <2>2, ExactElse
  <2> QED BY <2>1, <2>2
<1>9. alg'.simKey = alg.simKey /\ alg'.estKey = alg.estKey
  BY <1>2, <1>4, <1>7, KeysKept
<1> QED BY <1>6, <1>8, <1>9 DEF Keys, TestedType, Counters, CountersInv

(* The other actions leave the counters and the history.                   *)
LEMMA CountersStep == CountersInv /\ [Next]_vars => CountersInv'
<1> SUFFICES ASSUME CountersInv, [Next]_vars PROVE CountersInv'
  OBVIOUS
<1>1. IInv' /\ BinType'
  BY StepCorrect, BinTypeStep DEF CountersInv
<1>2. CASE Finalize
  BY <1>1, <1>2, FinalizeKeeps DEF CountersInv
<1>3. CASE UNCHANGED <<alg, tested>>
  BY <1>1, <1>3 DEF CountersInv, Keys, TestedType, Counters
<1> QED
  BY <1>2, <1>3
  DEF Next, InitTheta, ChangeSimKey, ChangeEstKey, SetBin, CopyPoint, vars

LEMMA CountersAlways == Spec => []CountersInv
BY CountersInit, CountersStep, PTL DEF Spec


-------------------------------------------------------------------------------
(* The invariant gives the properties. *)

LEMMA ComparableFacts ==
  ASSUME TestedType, tested # <<>>
  PROVE  LET n == tested[1].truth.bit_len
         IN  /\ \A t \in Comparable : /\ tested[t] \in Outcomes
                                      /\ Wrong(t) = WrongIn(tested[t])
                                      /\ Bits!Value(tested[t].truth) = tested[t].truth.data
             /\ \A S : TestsIn(tested, n, S) = {t \in Comparable : tested[t] \in S}
<1>1. \A t \in Comparable : tested[t] \in Outcomes
  BY DEF Comparable, TestedType
<1>2. \A a \in Arrays : Bits!Value(a) = a.data
  <2> TAKE a \in Arrays
  <2>1. a.bit_len \in Nat /\ a.data \subseteq 0 .. a.bit_len - 1
    BY ClassRatesAssumption DEF Arrays
  <2>2. \A p \in a.data : p < a.bit_len
    BY <2>1
  <2> QED BY <2>2 DEF Bits!Value
<1>3. \A o \in Outcomes : o.truth \in Arrays /\ o.hat \in Arrays
  BY DEF Outcomes
<1>4. \A t \in Comparable : Wrong(t) = WrongIn(tested[t])
  BY <1>1, <1>2, <1>3 DEF Wrong, WrongIn
<1>5. \A t \in Comparable : Bits!Value(tested[t].truth) = tested[t].truth.data
  BY <1>1, <1>2, <1>3
<1>6. ASSUME NEW S
      PROVE  TestsIn(tested, tested[1].truth.bit_len, S) = {t \in Comparable : tested[t] \in S}
  BY DEF TestsIn, Comparable
<1> QED BY <1>1, <1>4, <1>5, <1>6

(* The counters are the cardinalities the properties name.                 *)
LEMMA RatesSound == CountersInv => RatesExact
<1> SUFFICES ASSUME CountersInv PROVE RatesExact
  OBVIOUS
<1>1. CASE tested = <<>>
  <2>1. alg = NewAlg(alg.simKey, alg.estKey)
    BY <1>1 DEF CountersInv, Counters
  <2>2. alg.num_examinees = 0 /\ alg.correct_patterns = 0 /\ alg.num_attrs = 0
    BY <2>1 DEF NewAlg
  <2>3. Comparable = {} /\ {t \in Comparable : Wrong(t) = {}} = {}
    BY <1>1 DEF Comparable
  <2>4. Cardinality({}) = 0
    BY FS_EmptySet
  <2> QED BY <1>1, <2>2, <2>3, <2>4 DEF RatesExact
<1>2. CASE tested # <<>>
  <2> DEFINE n == tested[1].truth.bit_len
  <2>1. Exact(alg, tested, n)
    BY <1>2 DEF CountersInv, Counters
  <2>2. /\ \A t \in Comparable : tested[t] \in Outcomes /\ Wrong(t) = WrongIn(tested[t])
        /\ \A S : TestsIn(tested, n, S) = {t \in Comparable : tested[t] \in S}
    BY <1>2, ComparableFacts DEF CountersInv
  <2> HIDE DEF n
  <2>3. TestsIn(tested, n, Outcomes) = Comparable
    BY <2>2
  <2>4. TestsIn(tested, n, AllRight) = {t \in Comparable : Wrong(t) = {}}
    BY <2>2 DEF AllRight
  <2>5. \A i : TestsIn(tested, n, Right(i)) = {t \in Comparable : i \notin Wrong(t)}
    BY <2>2 DEF Right
  <2>6. \A num : TestsIn(tested, n, Mistakes(num))
                   = {t \in Comparable : Cardinality(Wrong(t)) = num}
    <3> TAKE num
    <3>1. \A t \in Comparable : tested[t] \in Mistakes(num) <=> Cardinality(Wrong(t)) = num
      BY <2>2 DEF Mistakes
    <3> QED BY <2>2, <3>1
  <2> QED BY <1>2, <2>1, <2>3, <2>4, <2>5, <2>6 DEF RatesExact, Exact, Rates, CountOf
<1> QED BY <1>1, <1>2

LEMMA TreeSound == CountersInv => PatternsCounted
<1> SUFFICES ASSUME CountersInv, tested # <<>>,
                    NEW pattern \in SUBSET (0 .. alg.num_attrs - 1)
             PROVE  LET asked == [Bits!New(alg.num_attrs) EXCEPT !.data = pattern]
                        have  == {t \in Comparable : Bits!Value(tested[t].truth) = pattern}
                        found == Lookup(alg.rate_by_pattern, asked)
                    IN  IF have = {} THEN found = {}
                        ELSE \E node \in found :
                               /\ found = {node}
                               /\ node.tested = Cardinality(have)
                               /\ node.correct = Cardinality({t \in have : Wrong(t) = {}})
  BY DEF PatternsCounted
<1> DEFINE n == tested[1].truth.bit_len
           asked == [Bits!New(alg.num_attrs) EXCEPT !.data = pattern]
           have == {t \in Comparable : Bits!Value(tested[t].truth) = pattern}
           right == {t \in have : Wrong(t) = {}}
           tree == alg.rate_by_pattern
           found == Lookup(tree, asked)
<1>1. Tree(alg, tested, n)
  BY DEF CountersInv, Counters, Exact
<1>2. asked.data = pattern
  BY DEF Bits!New, Bits!Resize
<1>3. found = {node \in tree : node.attr.data = pattern}
  BY <1>2, LookupFacts
<1> HIDE DEF asked, found, n
<1>4. /\ \A t \in Comparable : /\ tested[t] \in Outcomes /\ Wrong(t) = WrongIn(tested[t])
                               /\ Bits!Value(tested[t].truth) = tested[t].truth.data
      /\ \A S : TestsIn(tested, n, S) = {t \in Comparable : tested[t] \in S}
  BY ComparableFacts DEF CountersInv, n
<1>5. TestsIn(tested, n, Having(pattern)) = have
  BY <1>4 DEF Having
<1>6. TestsIn(tested, n, HavingRight(pattern)) = right
  BY <1>4 DEF HavingRight
<1> HIDE DEF have, right
<1>7. \A node \in found : /\ node.tested = Cardinality(have)
                          /\ node.correct = Cardinality(right)
                          /\ node.tested # 0
  BY <1>1, <1>3, <1>5, <1>6 DEF Tree, CountOf
<1>8. CASE found = {}
  <2>1. Cardinality(have) = 0
    BY <1>1, <1>3, <1>5, <1>8 DEF Tree, CountOf
  <2>2. IsFiniteSet(have)
    BY <1>5, TestsFinite DEF CountersInv, TestedType
  <2>3. have = {}
    BY <2>1, <2>2, FS_EmptySet
  <2> QED BY <1>8, <2>3 DEF have, found, asked
<1>9. CASE found # {}
  <2>1. PICK node \in found : TRUE
    BY <1>9
  <2>2. found = {node}
    BY <1>1, <1>3, <2>1 DEF Tree
  <2>3. have # {}
    BY <1>7, <2>1, FS_EmptySet
  <2>4. \E m \in found : found = {m} /\ m.tested = Cardinality(have) /\ m.correct = Cardinality(right)
    BY <1>7, <2>1, <2>2
  <2> QED BY <2>3, <2>4 DEF have, right, found, asked
<1> QED BY <1>8, <1>9

(* The rates (num_examinees, correct_attribute, correct_patterns and       *)
(* misclassify_hist of class_rates.c) are exactly those of the tests that  *)
(* ended with as many attributes as the first.                             *)
THEOREM RatesExactAlways == Spec => []RatesExact
BY CountersAlways, RatesSound, PTL

(* The tree rate_by_pattern has one node for each pattern examinees had,   *)
(* with the numbers of those examinees and of those classified correctly.  *)
THEOREM PatternsCountedAlways == Spec => []PatternsCounted
BY CountersAlways, TreeSound, PTL

===============================================================================
