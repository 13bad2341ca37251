------------------------ MODULE Administrands_proofs ------------------------
(***************************************************************************)
(* Theorems about items, banks and the models of items, for any items,     *)
(* banks, tests, names, spaces and parameters: the default model cached by *)
(* an item is the one its default name names, the freeze counts are those  *)
(* of the tests that exist, what a test uses does not change, the          *)
(* parameters of an item response model are named one by one, its          *)
(* probabilities add up to 1, and its distance is the logarithm of its     *)
(* odds.                                                                   *)
(***************************************************************************)
EXTENDS Administrands, Models, FiniteSetTheorems, FunctionTheorems, TLAPS

-----------------------------------------------------------------------------
(* The default models.                                                     *)

(* The models of an item are a table by name, one of whose names is the    *)
(* default; the pointer beside it follows.                                 *)
ModelType ==
  /\ models \in [Items -> [Names -> Models \union {NoModel}]]
  /\ defaultKey \in [Items -> Names]
  /\ defaultmodel \in [Items -> Models \union {NoModel}]

(* The invariant: that type, and the default model is cached.              *)
ModelInv == ModelType /\ DefaultCached

(* Setting a model by name, the default one included, keeps it.            *)
LEMMA SetModelKeepsModelInv ==
  ASSUME ModelInv, NEW i \in Items, NEW name \in Names \union {ZeroName}, NEW given \in Models,
         SetModel(i, name, given)
  PROVE  ModelInv'
<1> DEFINE key == IF name = ZeroName THEN defaultKey[i] ELSE name
<1>1. key \in Names
  BY DEF ModelInv, ModelType
<1>2. /\ models' = [models EXCEPT ![i][key] = given]
      /\ defaultmodel' = IF key = defaultKey[i]
                         THEN [defaultmodel EXCEPT ![i] = given] ELSE defaultmodel
      /\ defaultKey' = defaultKey
  BY DEF SetModel
<1> HIDE DEF key
<1>3. ModelType'
  BY <1>1, <1>2 DEF ModelInv, ModelType
<1>4. ASSUME NEW j \in Items
      PROVE  defaultmodel'[j] = models'[j][defaultKey'[j]]
  <2>1. CASE j # i
    BY <2>1, <1>2, <1>4 DEF ModelInv, ModelType, DefaultCached
  <2>2. CASE j = i /\ key = defaultKey[i]
    BY <2>2, <1>2, <1>4 DEF ModelInv, ModelType
  <2>3. CASE j = i /\ key # defaultKey[i]
    BY <2>3, <1>2, <1>4 DEF ModelInv, ModelType, DefaultCached
  <2> QED BY <2>1, <2>2, <2>3
<1> QED BY <1>3, <1>4 DEF ModelInv, DefaultCached

(* Whichever of the items the call reaches.                                *)
LEMMA SetDefaultModelKeepsModelInv ==
  ASSUME ModelInv, NEW x, NEW name \in Names \union {ZeroName}, SetDefaultModel(x, name)
  PROVE  ModelInv'
<1> DEFINE key == IF name = ZeroName THEN DefaultName ELSE name
<1>1. key \in Names
  BY NamesAssumption
<1>2. /\ defaultKey' = [i \in Items |-> IF i \in Unfrozen(x) THEN key ELSE defaultKey[i]]
      /\ defaultmodel' = [i \in Items |-> IF i \in Unfrozen(x) THEN models[i][key]
                                                               ELSE defaultmodel[i]]
      /\ models' = models
  BY DEF SetDefaultModel
<1> HIDE DEF key
<1>3. ModelType'
  BY <1>1, <1>2 DEF ModelInv, ModelType
<1>4. DefaultCached'
  BY <1>2 DEF ModelInv, DefaultCached
<1> QED BY <1>3, <1>4 DEF ModelInv

(* It holds in every reachable state.                                      *)
LEMMA ModelAlways == Spec => []ModelInv
<1>1. Init => ModelInv
  BY NamesAssumption DEF Init, ModelInv, ModelType, DefaultCached
<1>2. ModelInv /\ [Next]_vars => ModelInv'
  <2> SUFFICES ASSUME ModelInv, [Next]_vars PROVE ModelInv'
    OBVIOUS
  <2>1. ASSUME UNCHANGED modelVars PROVE ModelInv'
    BY <2>1 DEF modelVars, ModelInv, ModelType, DefaultCached
  <2>2. CASE \E t \in Tests, b \in Banks : NewTest(t, b)
    BY <2>1, <2>2 DEF NewTest
  <2>3. CASE \E t \in Tests : DisposeTest(t)
    BY <2>1, <2>3 DEF DisposeTest
  <2>4. CASE \E b \in Banks : \E x \in Items \union 1 .. b - 1 : AddItem(b, x) \/ RemoveItem(b, x)
    BY <2>1, <2>4 DEF AddItem, RemoveItem
  <2>5. CASE \E i \in Items, name \in Names \union {ZeroName}, given \in Free :
               SetModel(i, name, given)
    BY <2>5, SetModelKeepsModelInv DEF Free
  <2>6. CASE \E x \in Administrands, name \in Names \union {ZeroName} : SetDefaultModel(x, name)
    BY <2>6, SetDefaultModelKeepsModelInv
  <2>7. CASE UNCHANGED vars
    BY <2>1, <2>7 DEF vars
  <2> QED BY <2>2, <2>3, <2>4, <2>5, <2>6, <2>7 DEF Next
<1> QED BY <1>1, <1>2, PTL DEF Spec

(* oscats_administrand_set_model and oscats_administrand_set_default_model *)
(* keep the pointer beside an item's table of models at the entry of its   *)
(* default name, also when a bank passes the call on to the items that are *)
(* not frozen: the cached model is never one that was replaced.            *)
THEOREM DefaultCachedAlways == Spec => []DefaultCached
<1>1. ModelInv => DefaultCached
  BY DEF ModelInv
<1> QED BY <1>1, ModelAlways, PTL

-----------------------------------------------------------------------------
(* Sums of functions with a finite domain.                                 *)

(* The element that a fold takes from a set.                               *)
One(s) == CHOOSE y \in s : TRUE

(* g has the sums of f over the subsets of S. *)
IsSum(g, f, S) ==
  g = [s \in SUBSET S |-> IF s = {} THEN 0
                          ELSE LET x == CHOOSE y \in s : TRUE IN f[x] + g[s \ {x}]]

(* Induction over the numbers that are in a set.                           *)
LEMMA Induction ==
  ASSUME NEW S, 0 \in S, \A n \in Nat : n \in S => n + 1 \in S
  PROVE  Nat \subseteq S
<1> DEFINE T == Nat \ S
           R == OpToRel(<, Nat)
<1>1. SUFFICES ASSUME T # {} PROVE FALSE
  OBVIOUS
<1>2. PICK x \in T : \A y \in T : <<y, x>> \notin R
  <2>1. IsWellFoundedOn(R, Nat) /\ T \subseteq Nat
    BY NatLessThanWellFounded
  <2> HIDE DEF R, T
  <2> QED BY <1>1, <2>1, WFMin
<1>3. x - 1 \in Nat
  OBVIOUS
<1>4. <<x - 1, x>> \in R
  BY <1>3 DEF OpToRel
<1>5. x - 1 \in S
  <2> HIDE DEF R
  <2> QED BY <1>2, <1>3, <1>4
<1> QED BY <1>5, <1>3

(* Taking one element away leaves a finite set with one fewer.             *)
LEMMA OneTaken ==
  ASSUME NEW s, IsFiniteSet(s), NEW x \in s
  PROVE  /\ One(s) \in s
         /\ IsFiniteSet(s \ {x})
         /\ Cardinality(s) \in Nat
         /\ Cardinality(s) # 0
         /\ Cardinality(s \ {x}) = Cardinality(s) - 1
<1>1. Cardinality(s) \in Nat /\ IsFiniteSet(s \ {x}) /\ Cardinality(s \ {x}) = Cardinality(s) - 1
  BY FS_CardinalityType, FS_RemoveElement
<1>2. Cardinality(s) # 0
  BY FS_EmptySet
<1> QED BY <1>1, <1>2 DEF One

(* The definition by recursion has a solution. *)
LEMMA SumExists ==
  ASSUME NEW S, IsFiniteSet(S), NEW f
  PROVE  \E g : IsSum(g, f, S)
<1> DEFINE Value(g, s) == IF s = {} THEN 0 ELSE f[One(s)] + g[s \ {One(s)}]
           Upto(n) == {s \in SUBSET S : Cardinality(s) <= n}
           Found == {n \in Nat : \E g : /\ g = [s \in SUBSET S |-> g[s]]
                                        /\ \A s \in Upto(n) : g[s] = Value(g, s)}
<1>0. \A s \in SUBSET S : IsFiniteSet(s) /\ Cardinality(s) \in Nat /\ (Cardinality(s) = 0 => s = {})
  BY FS_Subset, FS_CardinalityType, FS_EmptySet
<1>1. 0 \in Found
  <2> DEFINE g == [s \in SUBSET S |-> 0]
  <2>1. g = [s \in SUBSET S |-> g[s]]
    OBVIOUS
  <2>2. \A s \in Upto(0) : s = {}
    BY <1>0
  <2>3. \A s \in Upto(0) : g[s] = Value(g, s)
    BY <2>2
  <2> QED BY <2>1, <2>3
<1>2. ASSUME NEW n \in Nat, n \in Found PROVE n + 1 \in Found
  <2>1. PICK g : g = [s \in SUBSET S |-> g[s]] /\ \A s \in Upto(n) : g[s] = Value(g, s)
    BY <1>2
  <2> DEFINE h == [s \in SUBSET S |-> Value(g, s)]
  <2>2. ASSUME NEW s \in Upto(n + 1) PROVE h[s] = Value(h, s)
    <3>1. CASE s = {}
      BY <3>1
    <3>2. CASE s # {}
      <4>1. One(s) \in s
        BY <3>2 DEF One
      <4>2. s \ {One(s)} \in Upto(n)
        <5>1. IsFiniteSet(s) /\ Cardinality(s) <= n + 1 /\ Cardinality(s) \in Nat
          BY <1>0, <2>2
        <5>2. Cardinality(s \ {One(s)}) = Cardinality(s) - 1
          BY <4>1, <5>1, OneTaken
        <5>3. Cardinality(s \ {One(s)}) <= n
          BY <5>1, <5>2
        <5> QED BY <5>3, <2>2
      <4>3. h[s \ {One(s)}] = g[s \ {One(s)}]
        BY <4>2, <2>1
      <4>4. h[s] = Value(g, s)
        BY <2>2
      <4> QED BY <4>3, <4>4, <3>2
    <3> QED BY <3>1, <3>2
  <2>3. h = [s \in SUBSET S |-> h[s]]
    OBVIOUS
  <2> HIDE DEF h
  <2>4. n + 1 \in Nat
    OBVIOUS
  <2> QED BY <2>2, <2>3, <2>4
<1>3. Cardinality(S) \in Found
  <2> HIDE DEF Found
  <2>1. Cardinality(S) \in Nat
    BY FS_CardinalityType
  <2> QED BY <1>1, <1>2, <2>1, Induction
<1>4. PICK g : g = [s \in SUBSET S |-> g[s]] /\ \A s \in Upto(Cardinality(S)) : g[s] = Value(g, s)
  BY <1>3
<1>5. ASSUME NEW s \in SUBSET S PROVE Cardinality(s) <= Cardinality(S)
  BY FS_Subset
<1>6. \A s \in SUBSET S : g[s] = Value(g, s)
  BY <1>4, <1>5
<1>7. g = [s \in SUBSET S |-> Value(g, s)]
  BY <1>4, <1>6
<1> QED BY <1>7 DEF IsSum, One

(* The sum of f is the entry of such a table for the whole domain.         *)
LEMMA SumTable ==
  ASSUME NEW f, IsFiniteSet(DOMAIN f)
  PROVE  \E g : IsSum(g, f, DOMAIN f) /\ SumFunction(f) = g[DOMAIN f]
<1> DEFINE g == CHOOSE g : IsSum(g, f, DOMAIN f)
<1>1. IsSum(g, f, DOMAIN f)
  BY SumExists
<1>2. SumFunction(f) = g[DOMAIN f]
  BY DEF SumFunction, SumFunctionOnSet, FoldFunctionOnSet, MapThenFoldSet, IsSum
<1> QED BY <1>1, <1>2

(* Sums of the same values are the same, in whatever table they are. *)
LEMMA SumUnique ==
  ASSUME NEW f, NEW g, NEW S, IsSum(g, f, S),
         NEW f1, NEW g1, NEW R, IsSum(g1, f1, R),
         IsFiniteSet(R), R \subseteq S, \A x \in R : f[x] = f1[x]
  PROVE  g[R] = g1[R]
<1> DEFINE Same == {n \in Nat : \A s \in SUBSET R : Cardinality(s) = n => g[s] = g1[s]}
<1>1. ASSUME NEW s \in SUBSET R
      PROVE  /\ g[s] = IF s = {} THEN 0 ELSE f[One(s)] + g[s \ {One(s)}]
             /\ g1[s] = IF s = {} THEN 0 ELSE f1[One(s)] + g1[s \ {One(s)}]
  BY DEF IsSum, One
<1>2. \A s \in SUBSET R : IsFiniteSet(s) /\ Cardinality(s) \in Nat /\ (Cardinality(s) = 0 => s = {})
  BY FS_Subset, FS_CardinalityType, FS_EmptySet
<1>3. 0 \in Same
  BY <1>1, <1>2
<1>4. ASSUME NEW n \in Nat, n \in Same PROVE n + 1 \in Same
  <2>1. SUFFICES ASSUME NEW s \in SUBSET R, Cardinality(s) = n + 1 PROVE g[s] = g1[s]
    OBVIOUS
  <2>2. s # {}
    BY <2>1, FS_EmptySet
  <2>3. One(s) \in s
    BY <2>2 DEF One
  <2>4. Cardinality(s \ {One(s)}) = n
    BY <1>2, <2>1, <2>3, OneTaken
  <2>5. g[s \ {One(s)}] = g1[s \ {One(s)}]
    BY <1>4, <2>4
  <2> QED BY <1>1, <2>2, <2>3, <2>5
<1>5. Cardinality(R) \in Same
  <2> HIDE DEF Same
  <2>1. Cardinality(R) \in Nat
    BY FS_CardinalityType
  <2> QED BY <1>3, <1>4, <2>1, Induction
<1> QED BY <1>5

(* The sum of f over T. *)
Over(f, T) == SumFunction([t \in T |-> f[t]])

(* Removing one element of one's choice. *)
LEMMA SumRemoves ==
  ASSUME NEW S, IsFiniteSet(S), NEW f
  PROVE  /\ Over(f, {}) = 0
         /\ S # {} => Over(f, S) = f[One(S)] + Over(f, S \ {One(S)})
<1> DEFINE F(T) == [t \in T |-> f[t]]
<1>0. ASSUME NEW T, IsFiniteSet(T)
      PROVE  \E g : IsSum(g, F(T), T) /\ Over(f, T) = g[T]
  <2>1. IsFiniteSet(DOMAIN F(T)) /\ DOMAIN F(T) = T
    BY <1>0
  <2>2. \E g : IsSum(g, F(T), DOMAIN F(T)) /\ SumFunction(F(T)) = g[DOMAIN F(T)]
    <3> HIDE DEF F
    <3> QED BY <2>1, SumTable
  <2> QED BY <2>1, <2>2 DEF Over
<1>1. PICK g : IsSum(g, F({}), {}) /\ Over(f, {}) = g[{}]
  BY <1>0, FS_EmptySet
<1>2. Over(f, {}) = 0
  BY <1>1 DEF IsSum
<1>3. ASSUME S # {} PROVE Over(f, S) = f[One(S)] + Over(f, S \ {One(S)})
  <2> DEFINE T == S \ {One(S)}
             all == F(S)
             rest == F(T)
  <2>1. One(S) \in S /\ IsFiniteSet(T) /\ T \subseteq S
    <3>1. One(S) \in S
      BY <1>3 DEF One
    <3> QED BY <3>1, OneTaken
  <2>2. PICK a : IsSum(a, all, S) /\ Over(f, S) = a[S]
    BY <1>0
  <2>3. PICK b : IsSum(b, rest, T) /\ Over(f, T) = b[T]
    BY <1>0, <2>1
  <2>4. a[S] = all[One(S)] + a[T]
    <3> HIDE DEF all
    <3> QED BY <1>3, <2>2 DEF IsSum, One
  <2>5. \A x \in T : all[x] = rest[x]
    OBVIOUS
  <2>6. all[One(S)] = f[One(S)]
    BY <2>1
  <2> HIDE DEF T, all, rest
  <2>7. a[T] = b[T]
    BY <2>1, <2>2, <2>3, <2>5, SumUnique
  <2> QED BY <2>2, <2>3, <2>4, <2>6, <2>7 DEF T
<1> QED BY <1>2, <1>3

(* The sum of integers is one, that of natural numbers too. *)
LEMMA SumInt ==
  ASSUME NEW S, IsFiniteSet(S), NEW f, NEW D, D = Nat \/ D = Int, \A x \in S : f[x] \in D
  PROVE  Over(f, S) \in D
<1> DEFINE All == {n \in Nat : \A T \in SUBSET S : Cardinality(T) = n => Over(f, T) \in D}
<1>1. \A s \in SUBSET S : IsFiniteSet(s) /\ Cardinality(s) \in Nat /\ (Cardinality(s) = 0 => s = {})
  BY FS_Subset, FS_CardinalityType, FS_EmptySet
<1>2. 0 \in All
  BY <1>1, SumRemoves
<1>3. ASSUME NEW n \in Nat, n \in All PROVE n + 1 \in All
  <2>1. SUFFICES ASSUME NEW T \in SUBSET S, Cardinality(T) = n + 1 PROVE Over(f, T) \in D
    OBVIOUS
  <2>2. T # {} /\ IsFiniteSet(T)
    BY <1>1, <2>1, FS_EmptySet
  <2>3. One(T) \in T
    BY <2>2 DEF One
  <2>4. Cardinality(T \ {One(T)}) = n
    BY <2>1, <2>2, <2>3, OneTaken
  <2>5. Over(f, T \ {One(T)}) \in D
    BY <1>3, <2>4
  <2>6. Over(f, T) = f[One(T)] + Over(f, T \ {One(T)})
    BY <2>2, SumRemoves
  <2> QED BY <2>3, <2>5, <2>6
<1>4. Cardinality(S) \in All
  <2> HIDE DEF All
  <2> QED BY <1>1, <1>2, <1>3, Induction
<1> QED BY <1>4

(* The sum of integers with any one of them taken out. *)
LEMMA SumTakes ==
  ASSUME NEW S, IsFiniteSet(S), NEW f, \A x \in S : f[x] \in Int, NEW x \in S
  PROVE  Over(f, S) \in Int /\ Over(f, S \ {x}) \in Int /\ Over(f, S) = f[x] + Over(f, S \ {x})
<1> DEFINE Good(T) == \A y \in T : Over(f, T) = f[y] + Over(f, T \ {y})
           All == {n \in Nat : \A T \in SUBSET S : Cardinality(T) = n => Good(T)}
<1>1. \A T \in SUBSET S : /\ IsFiniteSet(T) /\ Cardinality(T) \in Nat
                          /\ Cardinality(T) = 0 => T = {}
                          /\ Over(f, T) \in Int
  <2>1. \A T \in SUBSET S :
           IsFiniteSet(T) /\ Cardinality(T) \in Nat /\ (Cardinality(T) = 0 => T = {})
    BY FS_Subset, FS_CardinalityType, FS_EmptySet
  <2> QED BY <2>1, SumInt
<1>2. 0 \in All
  BY <1>1
<1>3. ASSUME NEW n \in Nat, n \in All PROVE n + 1 \in All
  <2>1. SUFFICES ASSUME NEW T \in SUBSET S, Cardinality(T) = n + 1, NEW y \in T
                 PROVE  Over(f, T) = f[y] + Over(f, T \ {y})
    OBVIOUS
  <2> DEFINE c == One(T)
  <2>2. IsFiniteSet(T) /\ c \in T
    BY <1>1, OneTaken
  <2>3. Good(T \ {c}) /\ Good(T \ {y})
    <3>1. Cardinality(T \ {c}) = n /\ Cardinality(T \ {y}) = n
      BY <2>1, <2>2, OneTaken
    <3> QED BY <1>3, <3>1
  <2>4. Over(f, T) = f[c] + Over(f, T \ {c})
    BY <2>2, SumRemoves
  <2>5. CASE y = c
    BY <2>4, <2>5
  <2>6. CASE y # c
    <3> DEFINE rest == Over(f, (T \ {c}) \ {y})
    <3>1. Over(f, T \ {c}) = f[y] + rest
      BY <2>2, <2>3, <2>6
    <3>2. Over(f, T \ {y}) = f[c] + rest
      <4>1. Over(f, T \ {y}) = f[c] + Over(f, (T \ {y}) \ {c})
        BY <2>2, <2>3, <2>6
      <4>2. (T \ {y}) \ {c} = (T \ {c}) \ {y}
        OBVIOUS
      <4> QED BY <4>1, <4>2
    <3>3. rest \in Int /\ f[c] \in Int /\ f[y] \in Int
      BY <1>1, <2>2
    <3> HIDE DEF rest, c
    <3> QED BY <2>4, <3>1, <3>2, <3>3
  <2> QED BY <2>5, <2>6
<1>4. Good(S)
  <2>1. Cardinality(S) \in All
    <3> HIDE DEF All
    <3> QED BY <1>1, <1>2, <1>3, Induction
  <2> QED BY <2>1
<1> QED BY <1>1, <1>4

(* The sum of natural numbers with any one of them taken out. *)
LEMMA SumFacts ==
  ASSUME NEW S, IsFiniteSet(S), NEW f, \A x \in S : f[x] \in Nat
  PROVE  /\ Over(f, S) \in Nat
         /\ \A x \in S : /\ Over(f, S \ {x}) \in Nat
                         /\ Over(f, S) = f[x] + Over(f, S \ {x})
                         /\ f[x] <= Over(f, S)
<1> SUFFICES ASSUME NEW x \in S
             PROVE  /\ Over(f, S) \in Nat
                    /\ Over(f, S \ {x}) \in Nat
                    /\ Over(f, S) = f[x] + Over(f, S \ {x})
                    /\ f[x] <= Over(f, S)
  BY SumInt
<1>1. IsFiniteSet(S \ {x})
  BY FS_Subset
<1>2. Over(f, S) \in Nat /\ Over(f, S \ {x}) \in Nat
  BY <1>1, SumInt
<1>3. \A y \in S : f[y] \in Int
  OBVIOUS
<1>4. Over(f, S) = f[x] + Over(f, S \ {x})
  BY <1>3, SumTakes
<1>5. f[x] \in Nat
  OBVIOUS
<1> QED BY <1>2, <1>4, <1>5

(* A sum depends on the values of its terms.                               *)
LEMMA SumSame ==
  ASSUME NEW S, NEW f, NEW g, \A x \in S : f[x] = g[x]
  PROVE  Over(f, S) = Over(g, S)
<1>1. [t \in S |-> f[t]] = [t \in S |-> g[t]]
  OBVIOUS
<1> QED BY <1>1 DEF Over

-----------------------------------------------------------------------------
(* The calls of freeze, for any contents C of the banks.                   *)

(* The visits of bank c, with those of the banks before it in v.           *)
Row(C, v, c) ==
  [x \in Administrands |-> C[c][x] + SumFunction([d \in 1 .. c - 1 |-> C[c][d] * v[d][x]])]

(* How often a traversal of bank b visits each administrand (Visits for    *)
(* the contents C).                                                        *)
VisitsIn(C, b) ==
  LET visits[c \in Banks] ==
        [x \in Administrands |->
           C[c][x] + SumFunction([d \in 1 .. c - 1 |-> C[c][d] * visits[d][x]])]
  IN  visits[b]

(* A row depends on the rows of the banks before it.                       *)
LEMMA RowSame ==
  ASSUME NEW C, NEW v, NEW w, NEW c, \A d \in 1 .. c - 1 : v[d] = w[d]
  PROVE  Row(C, v, c) = Row(C, w, c)
<1>1. ASSUME NEW x \in Administrands
      PROVE  [d \in 1 .. c - 1 |-> C[c][d] * v[d][x]] = [d \in 1 .. c - 1 |-> C[c][d] * w[d][x]]
  OBVIOUS
<1> QED BY <1>1 DEF Row

(* There is a table of rows: the recursive function of VisitsIn is one.    *)
LEMMA VisitsExist ==
  ASSUME NEW C
  PROVE  \E v : v = [c \in Banks |-> Row(C, v, c)]
<1> DEFINE Found == {n \in Nat : \E v : /\ v = [c \in Banks |-> v[c]]
                                        /\ \A c \in Banks : c <= n => v[c] = Row(C, v, c)}
<1>1. 0 \in Found
  <2> DEFINE v == [c \in Banks |-> 0]
  <2>1. v = [c \in Banks |-> v[c]] /\ \A c \in Banks : ~ c <= 0
    BY DEF Banks
  <2> HIDE DEF v
  <2> QED BY <2>1
<1>2. ASSUME NEW n \in Nat, n \in Found PROVE n + 1 \in Found
  <2>1. PICK v : v = [c \in Banks |-> v[c]] /\ \A c \in Banks : c <= n => v[c] = Row(C, v, c)
    BY <1>2
  <2> DEFINE w == [c \in Banks |-> Row(C, v, c)]
  <2>2. w = [c \in Banks |-> w[c]] /\ \A c \in Banks : w[c] = Row(C, v, c)
    OBVIOUS
  <2> HIDE DEF w
  <2>3. ASSUME NEW c \in Banks, c <= n + 1 PROVE w[c] = Row(C, w, c)
    <3>1. \A d \in 1 .. c - 1 : d \in Banks /\ d <= n
      BY <2>3, NumBanksAssumption DEF Banks
    <3>2. \A d \in 1 .. c - 1 : v[d] = w[d]
      BY <2>1, <2>2, <3>1
    <3> QED BY <2>2, <3>2, RowSame
  <2> QED BY <2>2, <2>3
<1>3. NumBanks \in Found
  <2> HIDE DEF Found
  <2> QED BY <1>1, <1>2, Induction, NumBanksAssumption
<1>4. PICK v : v = [c \in Banks |-> v[c]] /\ \A c \in Banks : c <= NumBanks => v[c] = Row(C, v, c)
  BY <1>3
<1>5. \A c \in Banks : v[c] = Row(C, v, c)
  BY <1>4, NumBanksAssumption DEF Banks
<1> QED BY <1>4, <1>5

(* The calls in a bank are those of its own loop and those of the banks    *)
(* inside, each as often as it is there.                                   *)
LEMMA VisitsEquation ==
  ASSUME NEW C, NEW b \in Banks
  PROVE  VisitsIn(C, b) =
           [x \in Administrands |->
              C[b][x] + Over([d \in 1 .. b - 1 |-> C[b][d] * VisitsIn(C, d)[x]], 1 .. b - 1)]
<1> DEFINE v == CHOOSE v : v = [c \in Banks |-> Row(C, v, c)]
<1>1. v = [c \in Banks |-> Row(C, v, c)]
  BY VisitsExist
<1>2. \A c : VisitsIn(C, c) = v[c]
  BY DEF VisitsIn, Row
<1> HIDE DEF v
<1>3. VisitsIn(C, b) = Row(C, v, b)
  BY <1>1, <1>2
<1>4. ASSUME NEW x \in Administrands
      PROVE  SumFunction([d \in 1 .. b - 1 |-> C[b][d] * v[d][x]])
               = Over([d \in 1 .. b - 1 |-> C[b][d] * VisitsIn(C, d)[x]], 1 .. b - 1)
  <2> DEFINE f == [d \in 1 .. b - 1 |-> C[b][d] * VisitsIn(C, d)[x]]
  <2>1. [d \in 1 .. b - 1 |-> C[b][d] * v[d][x]] = [d \in 1 .. b - 1 |-> f[d]]
    BY <1>2
  <2> QED BY <2>1 DEF Over
<1> QED BY <1>3, <1>4 DEF Row

(* The contents that banks can have.                                       *)
Counts == [Banks -> [Administrands -> Nat]]

(* A bank holds banks before it.                                           *)
LEMMA BanksBelow ==
  ASSUME NEW b \in Banks
  PROVE  /\ b \in Nat
         /\ IsFiniteSet(1 .. b - 1)
         /\ \A d \in 1 .. b - 1 : d \in Banks /\ d \in Administrands /\ d < b
<1>1. b \in Nat /\ 1 \in Int /\ b - 1 \in Int
  BY NumBanksAssumption DEF Banks
<1>2. IsFiniteSet(1 .. b - 1)
  BY <1>1, FS_Interval
<1> QED BY <1>1, <1>2, NumBanksAssumption DEF Banks, Administrands

(* Visits are counts.                                                      *)
LEMMA VisitsNat ==
  ASSUME NEW C \in Counts
  PROVE  \A b \in Banks : VisitsIn(C, b) \in [Administrands -> Nat]
<1> DEFINE All == {n \in Nat : \A b \in Banks : b <= n => VisitsIn(C, b) \in [Administrands -> Nat]}
<1>1. 0 \in All
  BY DEF Banks
<1>2. ASSUME NEW n \in Nat, n \in All PROVE n + 1 \in All
  <2>1. SUFFICES ASSUME NEW b \in Banks, b <= n + 1
                 PROVE  VisitsIn(C, b) \in [Administrands -> Nat]
    OBVIOUS
  <2>5. VisitsIn(C, b) = [y \in Administrands |-> VisitsIn(C, b)[y]]
    BY VisitsEquation
  <2> SUFFICES ASSUME NEW x \in Administrands PROVE VisitsIn(C, b)[x] \in Nat
    BY <2>5
  <2> DEFINE f == [d \in 1 .. b - 1 |-> C[b][d] * VisitsIn(C, d)[x]]
  <2>2. \A d \in 1 .. b - 1 : f[d] \in Nat
    <3> TAKE d \in 1 .. b - 1
    <3>1. d \in Banks /\ d \in Administrands /\ d <= n
      BY <2>1, BanksBelow
    <3>2. VisitsIn(C, d)[x] \in Nat
      BY <1>2, <2>1, <3>1
    <3>3. C[b][d] \in Nat
      BY <3>1 DEF Counts
    <3> QED BY <3>2, <3>3
  <2>3. Over(f, 1 .. b - 1) \in Nat
    <3> HIDE DEF f
    <3> QED BY <2>2, BanksBelow, SumInt
  <2>4. VisitsIn(C, b)[x] = C[b][x] + Over(f, 1 .. b - 1)
    BY VisitsEquation
  <2>6. C[b][x] \in Nat
    BY DEF Counts
  <2> HIDE DEF f
  <2> QED BY <2>3, <2>4, <2>6
<1>3. NumBanks \in All
  <2> HIDE DEF All
  <2> QED BY <1>1, <1>2, Induction, NumBanksAssumption
<1> QED BY <1>3, NumBanksAssumption DEF Banks

(* What is not visited does not matter: neither for the sums ...           *)
LEMMA NotVisited ==
  ASSUME NEW C \in Counts, NEW b \in Banks, NEW x \in Administrands, VisitsIn(C, b)[x] = 0
  PROVE  /\ C[b][x] = 0
         /\ \A d \in 1 .. b - 1 : C[b][d] = 0 \/ VisitsIn(C, d)[x] = 0
<1> DEFINE f == [d \in 1 .. b - 1 |-> C[b][d] * VisitsIn(C, d)[x]]
<1>1. \A d \in 1 .. b - 1 : /\ C[b][d] \in Nat /\ VisitsIn(C, d)[x] \in Nat
                            /\ f[d] = C[b][d] * VisitsIn(C, d)[x]
  BY BanksBelow, VisitsNat DEF Counts
<1>2. \A d \in 1 .. b - 1 : f[d] \in Nat
  BY <1>1
<1>3. VisitsIn(C, b)[x] = C[b][x] + Over(f, 1 .. b - 1) /\ C[b][x] \in Nat
  <2>1. VisitsIn(C, b)[x] = C[b][x] + Over(f, 1 .. b - 1)
    BY VisitsEquation
  <2>2. C[b][x] \in Nat
    BY DEF Counts
  <2> QED BY <2>1, <2>2
<1> HIDE DEF f
<1>4. Over(f, 1 .. b - 1) \in Nat /\ \A d \in 1 .. b - 1 : f[d] <= Over(f, 1 .. b - 1)
  BY <1>2, BanksBelow, SumFacts
<1>5. C[b][x] = 0 /\ Over(f, 1 .. b - 1) = 0
  BY <1>3, <1>4
<1>6. \A d \in 1 .. b - 1 : f[d] = 0
  BY <1>2, <1>4, <1>5
<1>7. \A m, n \in Nat : m * n = 0 => m = 0 \/ n = 0
  OBVIOUS
<1> QED BY <1>1, <1>5, <1>6, <1>7

(* ... nor for a bank that is changed. *)
LEMMA VisitsSame ==
  ASSUME NEW C \in Counts, NEW D \in Counts, NEW e \in Banks,
         \A c \in Banks \ {e} : D[c] = C[c]
  PROVE  \A b \in Banks : b # e /\ VisitsIn(C, b)[e] = 0 => VisitsIn(D, b) = VisitsIn(C, b)
<1> DEFINE Same(b) == b # e /\ VisitsIn(C, b)[e] = 0 => VisitsIn(D, b) = VisitsIn(C, b)
           All == {n \in Nat : \A b \in Banks : b <= n => Same(b)}
<1>1. 0 \in All
  BY DEF Banks
<1>2. ASSUME NEW n \in Nat, n \in All PROVE n + 1 \in All
  <2>1. SUFFICES ASSUME NEW b \in Banks, b <= n + 1, b # e, VisitsIn(C, b)[e] = 0
                 PROVE  VisitsIn(D, b) = VisitsIn(C, b)
    OBVIOUS
  <2>2. e \in Administrands
    BY DEF Administrands
  <2>3. D[b] = C[b] /\ C[b][e] = 0 /\ \A d \in 1 .. b - 1 : C[b][d] = 0 \/ VisitsIn(C, d)[e] = 0
    BY <2>1, <2>2, NotVisited
  <2> DEFINE f(x) == [d \in 1 .. b - 1 |-> C[b][d] * VisitsIn(C, d)[x]]
             g(x) == [d \in 1 .. b - 1 |-> D[b][d] * VisitsIn(D, d)[x]]
  <2>4. ASSUME NEW x \in Administrands, NEW d \in 1 .. b - 1 PROVE f(x)[d] = g(x)[d]
    <3>1. d \in Banks /\ d <= n
      BY <2>1, BanksBelow
    <3>2. VisitsIn(C, d)[x] \in Nat /\ VisitsIn(D, d)[x] \in Nat
      BY <3>1, VisitsNat
    <3>3. CASE C[b][d] = 0
      BY <2>3, <3>2, <3>3
    <3>4. CASE C[b][d] # 0
      <4>1. d # e /\ VisitsIn(C, d)[e] = 0
        BY <2>3, <3>4
      <4>2. VisitsIn(D, d) = VisitsIn(C, d)
        BY <1>2, <3>1, <4>1
      <4> QED BY <2>3, <4>2
    <3> QED BY <3>3, <3>4
  <2>5. /\ VisitsIn(C, b) = [x \in Administrands |-> C[b][x] + Over(f(x), 1 .. b - 1)]
        /\ VisitsIn(D, b) = [x \in Administrands |-> D[b][x] + Over(g(x), 1 .. b - 1)]
    BY VisitsEquation
  <2> HIDE DEF f, g
  <2>6. \A x \in Administrands : Over(f(x), 1 .. b - 1) = Over(g(x), 1 .. b - 1)
    BY <2>4, SumSame
  <2> QED BY <2>3, <2>5, <2>6
<1>3. NumBanks \in All
  <2> HIDE DEF All
  <2> QED BY <1>1, <1>2, Induction, NumBanksAssumption
<1> QED BY <1>3, NumBanksAssumption DEF Banks

-----------------------------------------------------------------------------
(* The freeze counts.                                                      *)

(* The calls of freeze on x by a test with bank b.                         *)
Calls(C, b, x) == VisitsIn(C, b)[x] + (IF x = b THEN 1 ELSE 0)

(* The calls on x of the tests with the banks T. *)
CallsOf(C, T, x) ==
  [t \in Tests |-> IF T[t] = NoBank THEN 0 ELSE Calls(C, T[t], x)]
(* The tests that exist, and the calls on x of all of them.                *)
LiveIn(T) == {t \in Tests : T[t] # NoBank}
Frozen(C, T, x) == Over(CallsOf(C, T, x), LiveIn(T))

(* The banks that tests hold.                                              *)
Holders == [Tests -> Banks \union {NoBank}]

(* The visits of the model are those of its contents, before and after a   *)
(* step.                                                                   *)
LEMMA VisitsIs == /\ \A b : Visits(b) = VisitsIn(contents, b)
                  /\ \A b : Visits(b)' = VisitsIn(contents', b)
BY DEF Visits, VisitsIn

(* So are the calls and the tests that exist.                              *)
LEMMA FreezeCallsIs ==
  /\ \A b : FreezeCalls(b) = [x \in Administrands |-> Calls(contents, b, x)]
  /\ Live = LiveIn(tests) /\ Live' = LiveIn(tests')
BY VisitsIs DEF FreezeCalls, Calls, Live, LiveIn

(* The calls on x as FreezeExact adds them.                                *)
LEMMA FrozenIs ==
  ASSUME NEW C, NEW T, NEW x
  PROVE  Frozen(C, T, x)
           = SumFunction([t \in LiveIn(T) |-> VisitsIn(C, T[t])[x] + (IF x = T[t] THEN 1 ELSE 0)])
<1>1. [t \in LiveIn(T) |-> CallsOf(C, T, x)[t]]
        = [t \in LiveIn(T) |-> VisitsIn(C, T[t])[x] + (IF x = T[t] THEN 1 ELSE 0)]
  BY DEF LiveIn, CallsOf, Calls
<1> QED BY <1>1 DEF Frozen, Over

(* FreezeExact says that each freeze count is the number of those calls.   *)
LEMMA FreezeExactIs ==
  /\ FreezeExact <=> \A x \in Administrands : freeze_count[x] = Frozen(contents, tests, x)
  /\ FreezeExact' <=> \A x \in Administrands : freeze_count'[x] = Frozen(contents', tests', x)
<1>1. \A x : Frozen(contents, tests, x)
        = SumFunction([t \in Live |-> Visits(tests[t])[x] + (IF x = tests[t] THEN 1 ELSE 0)])
  BY FrozenIs DEF Live, LiveIn, Visits, VisitsIn
<1>2. \A x : Frozen(contents', tests', x)
        = SumFunction([t \in Live |-> Visits(tests[t])[x] + (IF x = tests[t] THEN 1 ELSE 0)])'
  BY FrozenIs DEF Live, LiveIn, Visits, VisitsIn
<1>3. FreezeExact <=> \A x \in Administrands : freeze_count[x] = Frozen(contents, tests, x)
  BY <1>1 DEF FreezeExact
<1>4. FreezeExact' <=> \A x \in Administrands : freeze_count'[x] = Frozen(contents', tests', x)
  BY <1>2 DEF FreezeExact
<1> QED BY <1>3, <1>4

(* A frozen count is a natural number, of which every test has its part.   *)
LEMMA FrozenFacts ==
  ASSUME NEW C \in Counts, NEW T \in Holders, NEW x \in Administrands
  PROVE  /\ IsFiniteSet(LiveIn(T))
         /\ \A t \in LiveIn(T) : CallsOf(C, T, x)[t] = Calls(C, T[t], x)
         /\ \A t \in LiveIn(T) : Calls(C, T[t], x) \in Nat
         /\ Frozen(C, T, x) \in Nat
         /\ \A t \in LiveIn(T) : Calls(C, T[t], x) <= Frozen(C, T, x)
<1>1. IsFiniteSet(LiveIn(T))
  BY TestsAssumption, FS_Subset DEF LiveIn
<1>2. \A t \in LiveIn(T) : CallsOf(C, T, x)[t] = Calls(C, T[t], x)
  BY DEF LiveIn, CallsOf
<1>3. ASSUME NEW t \in LiveIn(T) PROVE Calls(C, T[t], x) \in Nat
  <2>1. T[t] \in Banks
    BY DEF LiveIn, Holders
  <2>2. VisitsIn(C, T[t])[x] \in Nat
    BY <2>1, VisitsNat
  <2> QED BY <2>2 DEF Calls
<1>4. \A t \in LiveIn(T) : CallsOf(C, T, x)[t] \in Nat
  BY <1>2, <1>3
<1>5. Over(CallsOf(C, T, x), LiveIn(T)) \in Nat
  BY <1>1, <1>4, SumInt
<1>6. \A t \in LiveIn(T) : CallsOf(C, T, x)[t] <= Over(CallsOf(C, T, x), LiveIn(T))
  BY <1>1, <1>4, SumFacts
<1> QED BY <1>1, <1>2, <1>3, <1>5, <1>6 DEF Frozen

(* A test more: construction read forwards, disposal backwards.            *)
LEMMA FrozenMore ==
  ASSUME NEW C \in Counts, NEW T \in Holders, NEW U \in Holders, NEW t \in Tests,
         T[t] = NoBank, U[t] \in Banks, \A s \in Tests \ {t} : U[s] = T[s],
         NEW x \in Administrands
  PROVE  Frozen(C, U, x) = Frozen(C, T, x) + Calls(C, U[t], x)
<1> DEFINE f == CallsOf(C, U, x)
<1>1. U[t] # NoBank
  BY DEF Banks, NoBank
<1>2. t \in LiveIn(U) /\ LiveIn(U) \ {t} = LiveIn(T)
  BY <1>1 DEF LiveIn
<1>3. IsFiniteSet(LiveIn(U)) /\ \A s \in LiveIn(U) : f[s] = Calls(C, U[s], x) /\ f[s] \in Nat
  BY FrozenFacts
<1>4. \A s \in LiveIn(T) : f[s] = CallsOf(C, T, x)[s]
  BY <1>1, <1>2 DEF CallsOf, LiveIn
<1>5. f[t] = Calls(C, U[t], x) /\ Frozen(C, U, x) = Over(f, LiveIn(U)) /\ f[t] \in Nat
  BY <1>2, <1>3 DEF Frozen
<1> HIDE DEF f
<1>6. Over(f, LiveIn(T)) = Frozen(C, T, x)
  BY <1>4, SumSame DEF Frozen
<1>7. Over(f, LiveIn(U)) = f[t] + Over(f, LiveIn(T)) /\ Over(f, LiveIn(T)) \in Nat
  BY <1>2, <1>3, SumFacts
<1> QED BY <1>5, <1>6, <1>7

(* A bank that no test reaches may change. *)
LEMMA FrozenSame ==
  ASSUME NEW C \in Counts, NEW D \in Counts, NEW T \in Holders, NEW e \in Banks,
         \A c \in Banks \ {e} : D[c] = C[c], Frozen(C, T, e) = 0,
         NEW x \in Administrands
  PROVE  Frozen(D, T, x) = Frozen(C, T, x)
<1>1. e \in Administrands
  BY DEF Administrands
<1>2. ASSUME NEW t \in LiveIn(T) PROVE CallsOf(D, T, x)[t] = CallsOf(C, T, x)[t]
  <2>1. T[t] \in Banks
    BY DEF LiveIn, Holders
  <2>2. Calls(C, T[t], e) = 0 /\ VisitsIn(C, T[t])[e] \in Nat
    BY <1>1, <2>1, FrozenFacts, VisitsNat
  <2>3. T[t] # e /\ VisitsIn(C, T[t])[e] = 0
    BY <2>2 DEF Calls
  <2>4. VisitsIn(D, T[t]) = VisitsIn(C, T[t])
    BY <2>1, <2>3, VisitsSame
  <2>5. Calls(D, T[t], x) = Calls(C, T[t], x)
    BY <2>4 DEF Calls
  <2> QED BY <2>5, FrozenFacts
<1>3. Over(CallsOf(D, T, x), LiveIn(T)) = Over(CallsOf(C, T, x), LiveIn(T))
  BY <1>2, SumSame
<1> QED BY <1>3 DEF Frozen

(* The inductive invariant. *)
FreezeInv ==
  /\ contents \in Counts
  /\ tests \in Holders
  /\ freeze_count \in [Administrands -> Nat]
  /\ FreezeExact

(* No test exists at first.                                                *)
LEMMA FreezeInit == Init => FreezeInv
<1> SUFFICES ASSUME Init PROVE FreezeInv
  OBVIOUS
<1>1. /\ contents \in Counts /\ tests \in Holders /\ freeze_count \in [Administrands -> Nat]
      /\ \A x \in Administrands : freeze_count[x] = 0
  BY DEF Init, Counts, Holders
<1>2. LiveIn(tests) = {}
  BY DEF Init, LiveIn
<1>3. \A x : Frozen(contents, tests, x) = 0
  BY <1>2, SumRemoves, FS_EmptySet DEF Frozen
<1> QED BY <1>1, <1>3, FreezeExactIs DEF FreezeInv

(* A new test freezes its bank and what is inside of it.                   *)
LEMMA FreezeNewTest ==
  ASSUME FreezeInv, NEW t \in Tests, NEW b \in Banks, NewTest(t, b)
  PROVE  FreezeInv'
<1>1. /\ tests[t] = NoBank
      /\ tests' = [tests EXCEPT ![t] = b]
      /\ freeze_count' = [x \in Administrands |-> freeze_count[x] + FreezeCalls(b)[x]]
      /\ contents' = contents
  BY DEF NewTest
<1>2. \A x \in Administrands : Calls(contents, b, x) \in Nat
  BY VisitsNat DEF FreezeInv, Calls
<1>3. \A x \in Administrands : FreezeCalls(b)[x] = Calls(contents, b, x)
  BY FreezeCallsIs
<1>4. freeze_count' \in [Administrands -> Nat]
  BY <1>1, <1>2, <1>3 DEF FreezeInv
<1>5. tests' \in Holders
  BY <1>1 DEF FreezeInv, Holders
<1>6. ASSUME NEW x \in Administrands PROVE freeze_count'[x] = Frozen(contents', tests', x)
  <2>1. Frozen(contents, tests', x) = Frozen(contents, tests, x) + Calls(contents, b, x)
    <3>1. /\ contents \in Counts /\ tests \in Holders /\ tests' \in Holders
          /\ tests[t] = NoBank /\ tests'[t] = b /\ \A s \in Tests \ {t} : tests'[s] = tests[s]
      BY <1>1, <1>5 DEF FreezeInv, Holders
    <3>2. tests'[t] \in Banks
      BY <3>1
    <3>3. Frozen(contents, tests', x) = Frozen(contents, tests, x) + Calls(contents, tests'[t], x)
      BY <3>1, <3>2, FrozenMore
    <3> QED BY <3>1, <3>3
  <2>2. freeze_count'[x] = Frozen(contents, tests, x) + Calls(contents, b, x)
    BY <1>1, <1>3, FreezeExactIs DEF FreezeInv
  <2> QED BY <1>1, <2>1, <2>2
<1> QED BY <1>1, <1>4, <1>5, <1>6, FreezeExactIs DEF FreezeInv

(* A test that is disposed of thaws what it froze.                         *)
LEMMA FreezeDisposeTest ==
  ASSUME FreezeInv, NEW t \in Tests, DisposeTest(t)
  PROVE  FreezeInv'
<1> DEFINE b == tests[t]
<1>1. /\ b \in Banks
      /\ tests' = [tests EXCEPT ![t] = NoBank]
      /\ freeze_count' = [x \in Administrands |-> Max({0, freeze_count[x] - FreezeCalls(b)[x]})]
      /\ contents' = contents
  BY DEF DisposeTest, FreezeInv, Holders
<1>2. tests' \in Holders /\ tests'[t] = NoBank /\ \A s \in Tests \ {t} : tests[s] = tests'[s]
  BY <1>1 DEF FreezeInv, Holders
<1>3. \A x \in Administrands : FreezeCalls(b)[x] = Calls(contents, b, x)
  BY FreezeCallsIs
<1>4. ASSUME NEW x \in Administrands
      PROVE  freeze_count'[x] = Frozen(contents', tests', x) /\ freeze_count'[x] \in Nat
  <2>1. Frozen(contents, tests, x) = Frozen(contents, tests', x) + Calls(contents, b, x)
    <3>1. /\ contents \in Counts /\ tests \in Holders /\ tests' \in Holders
          /\ tests'[t] = NoBank /\ tests[t] \in Banks /\ \A s \in Tests \ {t} : tests[s] = tests'[s]
      BY <1>1, <1>2 DEF FreezeInv
    <3> QED BY <3>1, FrozenMore
  <2>2. freeze_count[x] = Frozen(contents, tests, x)
    BY FreezeExactIs DEF FreezeInv
  <2>3. Frozen(contents, tests', x) \in Nat /\ Calls(contents, b, x) \in Nat
    <3>1. Frozen(contents, tests', x) \in Nat
      BY <1>2, FrozenFacts DEF FreezeInv
    <3>2. Calls(contents, b, x) \in Nat
      BY <1>1, VisitsNat DEF FreezeInv, Calls
    <3> QED BY <3>1, <3>2
  <2> DEFINE rest == Frozen(contents, tests', x)
  <2> HIDE DEF rest, b
  <2>4. freeze_count[x] - FreezeCalls(b)[x] = rest /\ rest \in Nat
    BY <1>3, <2>1, <2>2, <2>3 DEF rest
  <2>5. Max({0, rest}) = rest
    BY <2>4 DEF Max
  <2>6. freeze_count'[x] = rest
    BY <1>1, <2>4, <2>5
  <2> QED BY <1>1, <2>4, <2>6 DEF rest
<1>5. freeze_count' \in [Administrands -> Nat]
  BY <1>1, <1>4
<1> QED BY <1>1, <1>2, <1>4, <1>5, FreezeExactIs DEF FreezeInv

(* A bank with count 0 is reached by no test. *)
LEMMA FreezeEdit ==
  ASSUME FreezeInv, NEW b \in Banks, freeze_count[b] = 0, contents' \in Counts,
         \A c \in Banks \ {b} : contents'[c] = contents[c],
         UNCHANGED <<tests, freeze_count>>
  PROVE  FreezeInv'
<1>1. b \in Administrands
  BY DEF Administrands
<1>2. Frozen(contents, tests, b) = 0
  BY <1>1, FreezeExactIs DEF FreezeInv
<1>3. \A x \in Administrands : Frozen(contents', tests, x) = Frozen(contents, tests, x)
  BY <1>2, FrozenSame DEF FreezeInv
<1> QED BY <1>3, FreezeExactIs DEF FreezeInv

(* Only what no test holds is changed.                                     *)
LEMMA FreezeAddRemove ==
  ASSUME FreezeInv, NEW b \in Banks, NEW x \in Items \union 1 .. b - 1,
         AddItem(b, x) \/ RemoveItem(b, x)
  PROVE  FreezeInv'
<1>1. x \in Administrands
  BY BanksBelow DEF Administrands
<1>2. /\ freeze_count[b] = 0 /\ UNCHANGED <<tests, freeze_count>>
      /\ \/ contents' = [contents EXCEPT ![b][x] = @ + 1]
         \/ contents[b][x] > 0 /\ contents' = [contents EXCEPT ![b][x] = @ - 1]
  BY DEF AddItem, RemoveItem
<1>3. contents[b][x] \in Nat /\ contents \in Counts
  BY <1>1 DEF FreezeInv, Counts
<1>4. PICK n \in Nat : contents' = [contents EXCEPT ![b][x] = n]
  BY <1>2, <1>3 DEF Counts
<1>5. contents' \in Counts /\ \A c \in Banks \ {b} : contents'[c] = contents[c]
  BY <1>1, <1>3, <1>4 DEF Counts
<1> QED BY <1>2, <1>5, FreezeEdit

(* No step disturbs the freeze counts.                                     *)
LEMMA FreezeStep == FreezeInv /\ [Next]_vars => FreezeInv'
<1> SUFFICES ASSUME FreezeInv, [Next]_vars PROVE FreezeInv'
  OBVIOUS
<1>1. ASSUME UNCHANGED <<contents, tests, freeze_count>> PROVE FreezeInv'
  BY <1>1, FreezeExactIs DEF FreezeInv
<1>2. CASE \E t \in Tests, b \in Banks : NewTest(t, b)
  BY <1>2, FreezeNewTest
<1>3. CASE \E t \in Tests : DisposeTest(t)
  BY <1>3, FreezeDisposeTest
<1>4. CASE \E b \in Banks : \E x \in Items \union 1 .. b - 1 : AddItem(b, x) \/ RemoveItem(b, x)
  BY <1>4, FreezeAddRemove
<1>5. CASE \E i \in Items, name \in Names \union {ZeroName}, given \in Free :
             SetModel(i, name, given)
  BY <1>1, <1>5 DEF SetModel
<1>6. CASE \E x \in Administrands, name \in Names \union {ZeroName} : SetDefaultModel(x, name)
  BY <1>1, <1>6 DEF SetDefaultModel
<1>7. CASE UNCHANGED vars
  BY <1>1, <1>7 DEF vars
<1> QED BY <1>2, <1>3, <1>4, <1>5, <1>6, <1>7 DEF Next

(* Every freeze count is the number of times the tests that exist reach    *)
(* the administrand, on whatever paths, and however tests, banks and       *)
(* models come and go (freeze and unfreeze of administrand.c and           *)
(* itembank.c): an administrand is never thawed while a test uses it, and  *)
(* is free again when none does.                                           *)
THEOREM FreezeExactAlways == Spec => []FreezeExact
<1>1. FreezeInv => FreezeExact
  BY DEF FreezeInv
<1> QED BY <1>1, FreezeInit, FreezeStep, PTL DEF Spec

-----------------------------------------------------------------------------
(* What is in a test.                                                      *)

(* What a test uses is frozen. *)
LEMMA InTestFrozen ==
  ASSUME FreezeInv, NEW t \in Live, NEW x \in InTest(t)
  PROVE  /\ x \in Administrands
         /\ freeze_count[x] # 0
<1>1. tests[t] \in Banks /\ t \in LiveIn(tests)
  BY DEF Live, LiveIn, FreezeInv, Holders
<1>2. x \in Administrands /\ (x = tests[t] \/ VisitsIn(contents, tests[t])[x] > 0)
  BY <1>1, VisitsIs DEF InTest, Administrands
<1>3. VisitsIn(contents, tests[t])[x] \in Nat
  BY <1>1, <1>2, VisitsNat DEF FreezeInv
<1>4. Calls(contents, tests[t], x) > 0 /\ Calls(contents, tests[t], x) \in Nat
  BY <1>2, <1>3 DEF Calls
<1>5. /\ Calls(contents, tests[t], x) <= Frozen(contents, tests, x)
      /\ Frozen(contents, tests, x) \in Nat
  BY <1>1, <1>2, FrozenFacts DEF FreezeInv
<1>6. freeze_count[x] = Frozen(contents, tests, x)
  BY <1>2, FreezeExactIs DEF FreezeInv
<1> QED BY <1>2, <1>4, <1>5, <1>6

(* The items inside of a bank that a call of set_default_model reaches. *)
Within(v, b) ==
  {i \in Items : contents[b][i] > 0 /\ freeze_count[i] = 0} \union
  UNION {v[c] : c \in {d \in 1 .. b - 1 : /\ contents[b][d] > 0
                                          /\ freeze_count[d] = 0}}

(* What is within a bank depends on the banks before it.                   *)
LEMMA WithinSame ==
  ASSUME NEW v, NEW w, NEW b, \A d \in 1 .. b - 1 : v[d] = w[d]
  PROVE  Within(v, b) = Within(w, b)
BY DEF Within

(* There is such a table, by recursion over the banks.                     *)
LEMMA WithinExists == \E v : v = [b \in Banks |-> Within(v, b)]
<1> DEFINE Found == {n \in Nat : \E v : /\ v = [c \in Banks |-> v[c]]
                                        /\ \A c \in Banks : c <= n => v[c] = Within(v, c)}
<1>1. 0 \in Found
  <2> DEFINE v == [c \in Banks |-> 0]
  <2>1. v = [c \in Banks |-> v[c]] /\ \A c \in Banks : ~ c <= 0
    BY DEF Banks
  <2> HIDE DEF v
  <2> QED BY <2>1
<1>2. ASSUME NEW n \in Nat, n \in Found PROVE n + 1 \in Found
  <2>1. PICK v : v = [c \in Banks |-> v[c]] /\ \A c \in Banks : c <= n => v[c] = Within(v, c)
    BY <1>2
  <2> DEFINE w == [c \in Banks |-> Within(v, c)]
  <2>2. w = [c \in Banks |-> w[c]] /\ \A c \in Banks : w[c] = Within(v, c)
    OBVIOUS
  <2> HIDE DEF w
  <2>3. ASSUME NEW c \in Banks, c <= n + 1 PROVE w[c] = Within(w, c)
    <3>1. \A d \in 1 .. c - 1 : d \in Banks /\ d <= n
      BY <2>3, BanksBelow
    <3>2. \A d \in 1 .. c - 1 : v[d] = w[d]
      BY <2>1, <2>2, <3>1
    <3> QED BY <2>2, <3>2, WithinSame
  <2> QED BY <2>2, <2>3
<1>3. NumBanks \in Found
  <2> HIDE DEF Found
  <2> QED BY <1>1, <1>2, Induction, NumBanksAssumption
<1>4. PICK v : v = [c \in Banks |-> v[c]] /\ \A c \in Banks : c <= NumBanks => v[c] = Within(v, c)
  BY <1>3
<1>5. \A c \in Banks : v[c] = Within(v, c)
  BY <1>4, NumBanksAssumption DEF Banks
<1> QED BY <1>4, <1>5

(* A frozen item refuses the call on whatever path it comes. *)
LEMMA UnfrozenFacts ==
  ASSUME NEW x \in Administrands, freeze_count \in [Administrands -> Nat]
  PROVE  \A i \in Unfrozen(x) : freeze_count[i] = 0
<1> DEFINE v == CHOOSE v : v = [b \in Banks |-> Within(v, b)]
           Thawed(b) == \A i \in v[b] : freeze_count[i] = 0
           All == {n \in Nat : \A b \in Banks : b <= n => Thawed(b)}
<1>1. v = [b \in Banks |-> Within(v, b)]
  BY WithinExists
<1>2. Unfrozen(x) = CASE freeze_count[x] > 0               -> {}
                      [] freeze_count[x] = 0 /\ x \in Banks -> v[x]
                      [] OTHER                             -> {x}
  BY DEF Unfrozen, Within
<1> HIDE DEF v
<1>3. 0 \in All
  BY DEF Banks
<1>4. ASSUME NEW n \in Nat, n \in All PROVE n + 1 \in All
  <2>1. SUFFICES ASSUME NEW b \in Banks, b <= n + 1 PROVE Thawed(b)
    OBVIOUS
  <2>2. \A d \in 1 .. b - 1 : Thawed(d)
    <3>1. \A d \in 1 .. b - 1 : d \in Banks /\ d <= n
      BY <2>1, BanksBelow
    <3> QED BY <1>4, <3>1
  <2>3. v[b] = Within(v, b)
    BY <1>1
  <2> QED BY <2>2, <2>3 DEF Within
<1>5. NumBanks \in All
  <2> HIDE DEF All
  <2> QED BY <1>3, <1>4, Induction, NumBanksAssumption
<1>6. \A b \in Banks : Thawed(b)
  BY <1>5, NumBanksAssumption DEF Banks
<1>7. freeze_count[x] > 0 \/ freeze_count[x] = 0
  OBVIOUS
<1> QED BY <1>2, <1>6, <1>7

(* No step changes what an existing test uses.                             *)
LEMMA Untouched ==
  ASSUME FreezeInv, ModelType, [Next]_vars, NEW t \in Live
  PROVE  TestUntouched(t)
<1> SUFFICES ASSUME NEW x \in InTest(t)
             PROVE  /\ x \in Banks => contents'[x] = contents[x]
                    /\ x \in Items => /\ models'[x] = models[x]
                                      /\ defaultKey'[x] = defaultKey[x]
                                      /\ defaultmodel'[x] = defaultmodel[x]
  BY DEF TestUntouched
<1>1. x \in Administrands /\ freeze_count[x] # 0
  BY InTestFrozen
<1>2. CASE \E s \in Tests, b \in Banks : NewTest(s, b)
  BY <1>2 DEF NewTest, modelVars
<1>3. CASE \E s \in Tests : DisposeTest(s)
  BY <1>3 DEF DisposeTest, modelVars
<1>4. CASE \E b \in Banks : \E y \in Items \union 1 .. b - 1 : AddItem(b, y) \/ RemoveItem(b, y)
  <2>0. PICK b \in Banks : \E y \in Items \union 1 .. b - 1 : AddItem(b, y) \/ RemoveItem(b, y)
    BY <1>4
  <2>1. PICK y \in Items \union 1 .. b - 1 : AddItem(b, y) \/ RemoveItem(b, y)
    BY <2>0
  <2>2. /\ freeze_count[b] = 0 /\ UNCHANGED modelVars
        /\ \E n : contents' = [contents EXCEPT ![b][y] = n]
    BY <2>1 DEF AddItem, RemoveItem
  <2>3. x # b
    BY <1>1, <2>2
  <2>4. x \in Banks => contents'[x] = contents[x]
    BY <2>2, <2>3 DEF FreezeInv, Counts
  <2> QED BY <2>2, <2>4 DEF modelVars
<1>5. CASE \E i \in Items, name \in Names \union {ZeroName}, given \in Free :
             SetModel(i, name, given)
  <2>1. PICK i \in Items, name \in Names \union {ZeroName}, given \in Free :
               SetModel(i, name, given)
    BY <1>5
  <2>2. x # i
    BY <1>1, <2>1 DEF SetModel
  <2> QED BY <2>1, <2>2 DEF SetModel, ModelType
<1>6. CASE \E y \in Administrands, name \in Names \union {ZeroName} : SetDefaultModel(y, name)
  <2>1. PICK y \in Administrands, name \in Names \union {ZeroName} : SetDefaultModel(y, name)
    BY <1>6
  <2>2. x \notin Unfrozen(y)
    BY <1>1, UnfrozenFacts DEF FreezeInv
  <2> HIDE DEF Unfrozen
  <2> QED BY <2>1, <2>2 DEF SetDefaultModel, ModelType
<1>7. CASE UNCHANGED vars
  BY <1>7 DEF vars, modelVars
<1> QED BY <1>2, <1>3, <1>4, <1>5, <1>6, <1>7 DEF Next

(* "Once an administrand is added (directly or indirectly) to a test,      *)
(* changes to its list of models are no longer permitted" (freeze() of     *)
(* administrand.c and itembank.c): while a test exists, no call changes    *)
(* what its banks hold, or the models, default name and default model of   *)
(* an item in them, through whatever bank the call reaches it.             *)
THEOREM NothingChangesInTestAlways == Spec => NothingChangesInTest
<1>1. /\ FreezeInv /\ ModelInv /\ [Next]_vars
      => [\A t \in Live : tests'[t] = tests[t] => TestUntouched(t)]_vars
  BY Untouched DEF ModelInv
<1> QED BY <1>1, ModelAlways, FreezeInit, FreezeStep, PTL DEF Spec, NothingChangesInTest

-----------------------------------------------------------------------------
(* The parameters of the item response models.                            *)

(* The first n parameters have names, one each.                            *)
NamesFirst(layout, n) ==
    /\ {pair[1] : pair \in layout} = 0 .. n - 1
    /\ IsFiniteSet(layout)
    /\ Cardinality(layout) = n

(* A model without parameters.                                             *)
LEMMA NamesNone == NamesFirst({}, 0)
  BY FS_EmptySet DEF NamesFirst

(* A loop of a constructor writes n names from index m on: f[i] is the     *)
(* name it writes in its i-th round.                                       *)
WrittenFrom(m, n, f) == {<<m + i - 1, f[i]>> : i \in 1 .. n}

(* They are the names of the n parameters from m on.                       *)
LEMMA WrittenNames ==
    ASSUME NEW m \in Nat, NEW n \in Nat, NEW f
    PROVE  /\ {pair[1] : pair \in WrittenFrom(m, n, f)} = m .. m + n - 1
           /\ IsFiniteSet(WrittenFrom(m, n, f))
           /\ Cardinality(WrittenFrom(m, n, f)) = n
<1> DEFINE W == WrittenFrom(m, n, f)
           h == [i \in 1 .. n |-> <<m + i - 1, f[i]>>]
<1>1. h \in Bijection(1 .. n, W)
  <2>1. h \in [1 .. n -> W] /\ \A w \in W : \E i \in 1 .. n : h[i] = w
    BY DEF WrittenFrom
  <2>2. ASSUME NEW i \in 1 .. n, NEW j \in 1 .. n, h[i] = h[j] PROVE i = j
    <3>1. h[i][1] = m + i - 1 /\ h[j][1] = m + j - 1
      OBVIOUS
    <3> QED BY <2>2, <3>1
  <2> HIDE DEF h, W
  <2> QED BY <2>1, <2>2 DEF Bijection, Injection, Surjection, IsInjective
<1>2. IsFiniteSet(1 .. n) /\ Cardinality(1 .. n) = n
  BY FS_Interval
<1>3. IsFiniteSet(W) /\ Cardinality(W) = n
  <2> HIDE DEF h, W
  <2>1. ExistsBijection(1 .. n, W)
    BY <1>1 DEF ExistsBijection
  <2> QED BY <2>1, <1>2, FS_Bijection
<1>4. {pair[1] : pair \in W} = m .. m + n - 1
  <2>1. ASSUME NEW pair \in W PROVE pair[1] \in m .. m + n - 1
    BY DEF WrittenFrom
  <2>2. ASSUME NEW p \in m .. m + n - 1 PROVE \E pair \in W : pair[1] = p
    <3> DEFINE i == p - m + 1
    <3>1. i \in 1 .. n /\ m + i - 1 = p
      OBVIOUS
    <3>2. <<m + i - 1, f[i]>> \in W
      BY <3>1 DEF WrittenFrom
    <3> HIDE DEF i
    <3> QED BY <3>1, <3>2
  <2> HIDE DEF W
  <2> QED BY <2>1, <2>2
<1> QED BY <1>3, <1>4

(* Names that follow those there are.                                      *)
LEMMA NamesFollow ==
    ASSUME NEW m \in Nat, NEW n \in Nat, NEW f, NEW L, NamesFirst(L, m)
    PROVE  NamesFirst(L \cup WrittenFrom(m, n, f), m + n)
<1> DEFINE W == WrittenFrom(m, n, f)
           U == L \cup W
<1>1. {pair[1] : pair \in W} = m .. m + n - 1 /\ IsFiniteSet(W) /\ Cardinality(W) = n
  BY WrittenNames
<1>2. {pair[1] : pair \in L} = 0 .. m - 1 /\ IsFiniteSet(L) /\ Cardinality(L) = m
  BY DEF NamesFirst
<1> HIDE DEF W
<1>3. L \cap W = {}
  <2>1. ASSUME NEW pair \in L, pair \in W PROVE FALSE
    <3>1. pair[1] \in 0 .. m - 1 /\ pair[1] \in m .. m + n - 1
      BY <1>1, <1>2, <2>1
    <3> QED BY <3>1
  <2> QED BY <2>1
<1>4. IsFiniteSet(U)
  BY <1>1, <1>2, FS_Union
<1>5. Cardinality(U) = m + n - Cardinality(L \cap W)
  BY <1>1, <1>2, FS_Union
<1>6. Cardinality(L \cap W) = 0
  BY <1>3, FS_EmptySet
<1>7. {pair[1] : pair \in U} = {pair[1] : pair \in L} \cup {pair[1] : pair \in W}
  OBVIOUS
<1>8. {pair[1] : pair \in U} = 0 .. m + n - 1
  BY <1>1, <1>2, <1>7
<1> QED BY <1>4, <1>5, <1>6, <1>8 DEF NamesFirst, W

(* One name more.                                                          *)
LEMMA NameFollows ==
    ASSUME NEW m \in Nat, NEW name, NEW L, NamesFirst(L, m)
    PROVE  NamesFirst(L \cup {<<m, name>>}, m + 1)
<1>1. WrittenFrom(m, 1, <<name>>) = {<<m, name>>}
  <2>1. 1 .. 1 = {1} /\ m + 1 - 1 = m
    OBVIOUS
  <2> QED BY <2>1 DEF WrittenFrom
<1> QED BY <1>1, NamesFollow

(* The dimensions kept of the first n requested.                           *)
IsKept(g, requested, n) ==
    g = [k \in 0 .. n |->
            IF k = 0 THEN <<>>
              ELSE IF requested[k] \in Space THEN Append(g[k - 1], requested[k])
              ELSE g[k - 1]]

(* The definition by recursion of the dimensions kept has a solution.      *)
LEMMA KeptExists ==
    ASSUME NEW D, NEW requested \in Seq(D)
    PROVE  \E g \in [0 .. Len(requested) -> Seq(Space)] : IsKept(g, requested, Len(requested))
<1> DEFINE Found == {n \in Nat : n <= Len(requested) =>
                        \E g \in [0 .. n -> Seq(Space)] : IsKept(g, requested, n)}
<1>1. 0 \in Found
  <2>1. [k \in 0 .. 0 |-> <<>>] \in [0 .. 0 -> Seq(Space)]
    OBVIOUS
  <2>2. IsKept([k \in 0 .. 0 |-> <<>>], requested, 0)
    BY DEF IsKept
  <2> QED BY <2>1, <2>2
<1>2. ASSUME NEW n \in Nat, n \in Found PROVE n + 1 \in Found
  <2>1. SUFFICES ASSUME n + 1 <= Len(requested)
                 PROVE  \E h \in [0 .. n + 1 -> Seq(Space)] : IsKept(h, requested, n + 1)
    OBVIOUS
  <2>2. PICK g \in [0 .. n -> Seq(Space)] : IsKept(g, requested, n)
    BY <1>2, <2>1
  <2> DEFINE taken == IF requested[n + 1] \in Space THEN Append(g[n], requested[n + 1]) ELSE g[n]
             h == [k \in 0 .. n + 1 |-> IF k = n + 1 THEN taken ELSE g[k]]
  <2>3. taken \in Seq(Space)
    BY <2>1
  <2>4. h \in [0 .. n + 1 -> Seq(Space)]
    <3> HIDE DEF taken
    <3> QED BY <2>3
  <2>5. ASSUME NEW k \in 0 .. n + 1
        PROVE  h[k] = IF k = 0 THEN <<>>
                        ELSE IF requested[k] \in Space THEN Append(h[k - 1], requested[k])
                        ELSE h[k - 1]
    <3>1. CASE k = n + 1
      <4>1. h[k] = taken /\ h[k - 1] = g[n] /\ k > 0 /\ k # 0
        <5> HIDE DEF taken
        <5> QED BY <3>1
      <4> HIDE DEF h
      <4> QED BY <4>1, <3>1
    <3>2. CASE k # n + 1
      <4>1. k \in 0 .. n /\ h[k] = g[k] /\ (k > 0 => h[k - 1] = g[k - 1])
        <5> HIDE DEF taken
        <5> QED BY <3>2
      <4>2. g[k] = IF k = 0 THEN <<>>
                     ELSE IF requested[k] \in Space THEN Append(g[k - 1], requested[k])
                     ELSE g[k - 1]
        BY <2>2, <4>1 DEF IsKept
      <4> HIDE DEF h
      <4>3. CASE k = 0
        BY <4>1, <4>2, <4>3
      <4>4. CASE k > 0
        BY <4>1, <4>2, <4>4
      <4> QED BY <4>1, <4>3, <4>4
    <3> QED BY <3>1, <3>2
  <2>6. h = [k \in 0 .. n + 1 |-> h[k]]
    OBVIOUS
  <2>7. IsKept(h, requested, n + 1)
    <3> HIDE DEF h
    <3> QED BY <2>5, <2>6 DEF IsKept
  <2> HIDE DEF h
  <2> QED BY <2>4, <2>7
<1>3. Len(requested) \in Found
  <2>1. Len(requested) \in Nat
    OBVIOUS
  <2> HIDE DEF Found
  <2> QED BY <1>1, <1>2, <2>1, Induction
<1> QED BY <1>3

(* A model keeps those that are in the space, or one in their place.       *)
LEMMA KeptDimsAre ==
    ASSUME NEW D, NEW requested \in Seq(D)
    PROVE  /\ Len(KeptDims(requested)) \in Nat
           /\ requested = <<>> => KeptDims(requested) = <<<<DefaultType, 0>>>>
           /\ requested # <<>> => \/ KeptDims(requested) = <<<<NoType, 0>>>>
                                 \/ KeptDims(requested) \in Seq(Space)
<1> DEFINE g == CHOOSE k : IsKept(k, requested, Len(requested))
<1>1. PICK k \in [0 .. Len(requested) -> Seq(Space)] : IsKept(k, requested, Len(requested))
  BY KeptExists
<1>2. IsKept(g, requested, Len(requested))
  BY <1>1
<1> HIDE DEF g
<1>3. g[Len(requested)] \in Seq(Space)
  <2> DEFINE N == Len(requested)
             Same == {n \in Nat : n <= N => g[n] \in Seq(Space)}
  <2>0. N \in Nat /\ \A n \in 1 .. N : requested[n] \in D
    OBVIOUS
  <2>1. 0 \in Same
    <3>1. g[0] = <<>>
      BY <1>2, <2>0 DEF IsKept
    <3> QED BY <3>1
  <2>2. ASSUME NEW n \in Nat, n \in Same PROVE n + 1 \in Same
    <3>1. SUFFICES ASSUME n + 1 <= N PROVE g[n + 1] \in Seq(Space)
      OBVIOUS
    <3>2. g[n] \in Seq(Space) /\ requested[n + 1] \in D
      BY <2>0, <2>2, <3>1
    <3>3. g[n + 1] = IF requested[n + 1] \in Space THEN Append(g[n], requested[n + 1]) ELSE g[n]
      <4>1. n + 1 \in 0 .. N /\ n + 1 > 0 /\ n + 1 # 0 /\ n + 1 - 1 = n
        BY <2>0, <3>1
      <4> DEFINE j == n + 1
      <4>2. j \in 0 .. Len(requested)
        BY <4>1
      <4>3. g[j] = IF j = 0 THEN <<>>
                     ELSE IF requested[j] \in Space THEN Append(g[j - 1], requested[j])
                     ELSE g[j - 1]
        <5> HIDE DEF N, j
        <5> QED BY <1>2, <4>2 DEF IsKept
      <4>4. j > 0 /\ j # 0 /\ j - 1 = n
        BY <4>1
      <4>5. g[j] = IF requested[j] \in Space THEN Append(g[n], requested[j]) ELSE g[n]
        <5> HIDE DEF N, j
        <5> QED BY <4>3, <4>4
      <4> QED BY <4>5
    <3> HIDE DEF g
    <3> QED BY <3>2, <3>3
  <2>3. N \in Same
    <3> HIDE DEF Same, N
    <3> QED BY <2>0, <2>1, <2>2, Induction
  <2> QED BY <2>0, <2>3
<1>4. /\ requested = <<>> => KeptDims(requested) = <<<<DefaultType, 0>>>>
      /\ requested # <<>> => KeptDims(requested) \in {<<<<NoType, 0>>>>, g[Len(requested)]}
  BY DEF KeptDims, IsKept, g
<1>5. Len(<<<<DefaultType, 0>>>>) = 1 /\ Len(<<<<NoType, 0>>>>) = 1 /\ 1 \in Nat
  OBVIOUS
<1> QED BY <1>3, <1>4, <1>5

(* The names of a model are those of its parameters.                       *)
Named(m) ==
    /\ {"Np", "layout", "params"} \subseteq DOMAIN m
    /\ m.Np \in Nat
    /\ m.params \in [0 .. m.Np - 1 -> Int]
    /\ NamesFirst(m.layout, m.Np)

(* A constructor that names its parameters makes a model that has names.   *)
LEMMA ConstructedNamed ==
    ASSUME NEW base, NEW Np \in Nat, NEW L, NamesFirst(L, Np), NEW type
    PROVE  /\ Named(WithParams(base, Np, L))
           /\ Named(Restricted(WithParams(base, Np, L), type))
<1> DEFINE m == WithParams(base, Np, L)
<1>1. Named(m)
  BY DEF Named, WithParams
<1>2. Named([m EXCEPT !.Ndims = 0])
  BY DEF Named, WithParams
<1> HIDE DEF m
<1>3. Restricted(m, type) \in {m, [m EXCEPT !.Ndims = 0]}
  BY DEF Restricted
<1> QED BY <1>1, <1>2, <1>3 DEF m

(* What a constructor is given.                                            *)
IsBase(base) == base.Ndims \in Nat /\ base.Ncov \in Nat /\ base.Ncat \in Nat \ {0}

(* The covariates are named in a loop.                                     *)
LEMMA CovariatesWritten ==
    ASSUME NEW base, NEW first \in Nat
    PROVE  \E f : CovariateNames(base, first) = WrittenFrom(first, base.Ncov, f)
<1>1. CovariateNames(base, first)
        = WrittenFrom(first, base.Ncov,
                      [j \in 1 .. base.Ncov |-> <<"Covariate", base.covariates[j]>>])
  BY DEF CovariateNames, WrittenFrom
<1> QED BY <1>1

(* The discriminations are named in a loop over the dimensions.            *)
LEMMA DiscriminationsWritten ==
    ASSUME NEW base, NEW first \in Nat
    PROVE  \E f : DiscrNames(base, first) = WrittenFrom(first, base.Ndims, f)
<1>1. DiscrNames(base, first)
        = WrittenFrom(first, base.Ndims, [i \in 1 .. base.Ndims |-> <<"Discr", base.dims[i]>>])
  BY DEF DiscrNames, WrittenFrom
<1> QED BY <1>1

(* One name that is written without a loop.                                *)
LEMMA OneName == ASSUME NEW name PROVE NamesFirst({<<0, name>>}, 1)
<1>1. NamesFirst({} \cup {<<0, name>>}, 0 + 1)
  BY NamesNone, NameFollows
<1>2. {} \cup {<<0, name>>} = {<<0, name>>} /\ 0 + 1 = 1
  OBVIOUS
<1> QED BY <1>1, <1>2

(* Two names that are written without a loop.                              *)
LEMMA TwoNames ==
    ASSUME NEW name, NEW other
    PROVE  NamesFirst({<<0, name>>, <<1, other>>}, 2)
<1>1. NamesFirst({<<0, name>>} \cup {<<1, other>>}, 1 + 1)
  BY OneName, NameFollows
<1>2. {<<0, name>>} \cup {<<1, other>>} = {<<0, name>>, <<1, other>>} /\ 1 + 1 = 2
  OBVIOUS
<1> QED BY <1>1, <1>2

(* OscatsModelL1p, L2p and L3p (l1p.c, l2p.c, l3p.c: model_constructed).   *)
LEMMA LogisticNamed ==
    ASSUME NEW base, IsBase(base)
    PROVE  Named(L1pNew(base)) /\ Named(L2pNew(base)) /\ Named(L3pNew(base))
<1> USE DEF IsBase
<1>1. NamesFirst({<<0, <<"Diff", 0>>>>}, 1)
  BY OneName
<1>2. Named(L1pNew(base))
  <2>1. PICK f : CovariateNames(base, 1) = WrittenFrom(1, base.Ncov, f)
    BY CovariatesWritten
  <2>2. NamesFirst({<<0, <<"Diff", 0>>>>} \cup WrittenFrom(1, base.Ncov, f), 1 + base.Ncov)
    BY <1>1, NamesFollow
  <2>3. NamesFirst(L1pLayout(base), 1 + base.Ncov)
    BY <2>1, <2>2 DEF L1pLayout, L1pB, L1pCov
  <2> QED BY <2>3, ConstructedNamed DEF L1pNew
<1>3. Named(L2pNew(base))
  <2>1. PICK f : DiscrNames(base, 1) = WrittenFrom(1, base.Ndims, f)
    BY DiscriminationsWritten
  <2>2. PICK c : CovariateNames(base, 1 + base.Ndims)
                      = WrittenFrom(1 + base.Ndims, base.Ncov, c)
    BY CovariatesWritten
  <2>3. NamesFirst({<<0, <<"Diff", 0>>>>} \cup WrittenFrom(1, base.Ndims, f), 1 + base.Ndims)
    BY <1>1, NamesFollow
  <2>4. NamesFirst({<<0, <<"Diff", 0>>>>} \cup WrittenFrom(1, base.Ndims, f)
                       \cup WrittenFrom(1 + base.Ndims, base.Ncov, c), 1 + base.Ndims + base.Ncov)
    BY <2>3, NamesFollow
  <2>5. NamesFirst(L2pLayout(base), 1 + base.Ndims + base.Ncov)
    BY <2>1, <2>2, <2>4 DEF L2pLayout, L2pB, L2pA
  <2> QED BY <2>5, ConstructedNamed DEF L2pNew
<1>4. Named(L3pNew(base))
  <2>1. PICK f : DiscrNames(base, 2) = WrittenFrom(2, base.Ndims, f)
    BY DiscriminationsWritten
  <2>2. PICK c : CovariateNames(base, 2 + base.Ndims)
                      = WrittenFrom(2 + base.Ndims, base.Ncov, c)
    BY CovariatesWritten
  <2> DEFINE L == {<<0, <<"Diff", 0>>>>, <<1, <<"Guess", 0>>>>}
  <2>3. NamesFirst(L, 2)
    BY TwoNames
  <2>4. L3pLayout(base)
         = L \cup DiscrNames(base, 2) \cup CovariateNames(base, 2 + base.Ndims)
    BY DEF L3pLayout, L3pB, L3pC, L3pA
  <2> HIDE DEF L
  <2>5. NamesFirst(L \cup WrittenFrom(2, base.Ndims, f), 2 + base.Ndims)
    BY <2>3, NamesFollow
  <2>6. NamesFirst(L \cup WrittenFrom(2, base.Ndims, f)
                     \cup WrittenFrom(2 + base.Ndims, base.Ncov, c),
                   2 + base.Ndims + base.Ncov)
    BY <2>5, NamesFollow
  <2>7. NamesFirst(L3pLayout(base), 2 + base.Ndims + base.Ncov)
    BY <2>1, <2>2, <2>4, <2>6
  <2> QED BY <2>7, ConstructedNamed DEF L3pNew
<1> QED BY <1>2, <1>3, <1>4

(* The difficulties of the categories come first.                          *)
LEMMA DifficultiesFirst ==
    ASSUME NEW base, base.Ncat \in Nat
    PROVE  NamesFirst(DiffNames(base), base.Ncat)
<1> DEFINE f == [k \in 1 .. base.Ncat |-> <<"Diff", k>>]
<1>1. DiffNames(base) = {} \cup WrittenFrom(0, base.Ncat, f)
  <2>1. \A k \in 1 .. base.Ncat : <<0 + k - 1, f[k]>> = <<k - 1, <<"Diff", k>>>>
    OBVIOUS
  <2> HIDE DEF f
  <2> QED BY <2>1 DEF DiffNames, WrittenFrom
<1> HIDE DEF f
<1>2. NamesFirst({} \cup WrittenFrom(0, base.Ncat, f), 0 + base.Ncat)
  BY NamesNone, NamesFollow
<1> QED BY <1>1, <1>2

(* Then those of the first n dimensions, a discrimination per category.    *)
NominalUpto(base, n) ==
    DiffNames(base)
        \cup {<<i * base.Ncat + k - 1, <<"Discr", k, base.dims[i]>>>> :
                i \in 1 .. n, k \in 1 .. base.Ncat}

(* Each dimension adds Ncat names, where those of the one before end.      *)
LEMMA NominalUptoNamed ==
    ASSUME NEW base, IsBase(base), NEW n \in Nat
    PROVE  NamesFirst(NominalUpto(base, n), (n + 1) * base.Ncat)
<1> DEFINE N == base.Ncat
           Good == {m \in Nat : NamesFirst(NominalUpto(base, m), (m + 1) * N)}
<1>0. N \in Nat
  BY DEF IsBase
<1>1. 0 \in Good
  <2>1. NominalUpto(base, 0) = DiffNames(base)
    BY DEF NominalUpto
  <2>2. (0 + 1) * N = N
    BY <1>0
  <2> QED BY <1>0, <2>1, <2>2, DifficultiesFirst
<1>2. ASSUME NEW m \in Nat, m \in Good PROVE m + 1 \in Good
  <2> DEFINE first == (m + 1) * N
             f == [k \in 1 .. N |-> <<"Discr", k, base.dims[m + 1]>>]
  <2>1. first \in Nat /\ first + N = (m + 1 + 1) * N
    <3> HIDE DEF N
    <3> QED BY <1>0
  <2>2. NamesFirst(NominalUpto(base, m) \cup WrittenFrom(first, N, f), first + N)
    <3> HIDE DEF first, f, N
    <3>1. NamesFirst(NominalUpto(base, m), first)
      BY <1>2 DEF first
    <3> QED BY <1>0, <2>1, <3>1, NamesFollow
  <2>3. NominalUpto(base, m + 1) = NominalUpto(base, m) \cup WrittenFrom(first, N, f)
    <3>1. 1 .. m + 1 = (1 .. m) \cup {m + 1}
      OBVIOUS
    <3> DEFINE D(i) == {<<i * N + k - 1, <<"Discr", k, base.dims[i]>>>> : k \in 1 .. N}
    <3>2. NominalUpto(base, m) = DiffNames(base) \cup UNION {D(i) : i \in 1 .. m}
      BY DEF NominalUpto
    <3>3. NominalUpto(base, m + 1) = DiffNames(base) \cup UNION {D(i) : i \in 1 .. m + 1}
      BY DEF NominalUpto
    <3>4. D(m + 1) = WrittenFrom(first, N, f)
      BY DEF WrittenFrom
    <3> HIDE DEF D, first, f
    <3> QED BY <3>1, <3>2, <3>3, <3>4
  <2>4. NamesFirst(NominalUpto(base, m + 1), (m + 1 + 1) * N)
    <3> HIDE DEF first, f, N
    <3> QED BY <2>1, <2>2, <2>3
  <2> QED BY <2>4
<1>3. n \in Good
  <2> HIDE DEF Good
  <2> QED BY <1>1, <1>2, Induction
<1> QED BY <1>3

(* OscatsModelNominal.                                                     *)
LEMMA NominalNamed ==
    ASSUME NEW base, IsBase(base)
    PROVE  Named(NominalNew(base))
<1> DEFINE m == (base.Ndims + 1) * base.Ncat
<1>1. base.Ndims \in Nat /\ base.Ncov \in Nat /\ m \in Nat
  BY DEF IsBase
<1>2. PICK c : CovariateNames(base, m) = WrittenFrom(m, base.Ncov, c)
  <2> HIDE DEF m
  <2> QED BY <1>1, CovariatesWritten
<1>3. NamesFirst(NominalUpto(base, base.Ndims), m)
  BY <1>1, NominalUptoNamed
<1>4. NominalLayout(base) = NominalUpto(base, base.Ndims) \cup CovariateNames(base, m)
  BY DEF NominalLayout, NominalUpto
<1>5. NominalNew(base)
        = Restricted(WithParams(base, m + base.Ncov, NominalLayout(base)), "cont")
  BY DEF NominalNew
<1> HIDE DEF m
<1>6. NamesFirst(NominalLayout(base), m + base.Ncov)
  BY <1>1, <1>2, <1>3, <1>4, NamesFollow
<1> QED BY <1>1, <1>5, <1>6, ConstructedNamed

(* OscatsModelPc, Gpc and Gr.                                              *)
LEMMA PcNamed ==
    ASSUME NEW base, IsBase(base)
    PROVE  Named(PcNew(base)) /\ Named(GpcNew(base)) /\ Named(GrNew(base))
<1> DEFINE N == base.Ncat
           f == [i \in 1 .. base.Ndims |-> <<"Discr", 0, base.dims[i]>>]
           A == {<<GpcA(base, i), <<"Discr", 0, base.dims[i]>>>> : i \in 1 .. base.Ndims}
<1>0. base.Ndims \in Nat /\ base.Ncov \in Nat /\ N \in Nat
  BY DEF IsBase
<1>1. NamesFirst(DiffNames(base), N)
  BY <1>0, DifficultiesFirst
<1>2. PICK c : CovariateNames(base, N) = WrittenFrom(N, base.Ncov, c)
  BY <1>0, CovariatesWritten
<1>3. PICK d : CovariateNames(base, N + base.Ndims) = WrittenFrom(N + base.Ndims, base.Ncov, d)
  BY <1>0, CovariatesWritten
<1>4. A = WrittenFrom(N, base.Ndims, f)
  BY DEF GpcA, WrittenFrom
<1>5. PcNew(base)
        = Restricted(WithParams(base, N + base.Ncov,
              DiffNames(base) \cup CovariateNames(base, N)), "cont")
  BY DEF PcNew, PcCov
<1>6. GpcNew(base)
        = Restricted(WithParams(base, N + base.Ndims + base.Ncov,
              DiffNames(base) \cup A \cup CovariateNames(base, N + base.Ndims)), "cont")
  BY DEF GpcNew, GpcCov
<1> HIDE DEF N, f, A
<1>7. NamesFirst(DiffNames(base) \cup CovariateNames(base, N), N + base.Ncov)
  BY <1>0, <1>1, <1>2, NamesFollow
<1>8. NamesFirst(DiffNames(base) \cup A, N + base.Ndims)
  BY <1>0, <1>1, <1>4, NamesFollow
<1>9. NamesFirst(DiffNames(base) \cup A \cup CovariateNames(base, N + base.Ndims),
                 N + base.Ndims + base.Ncov)
  BY <1>0, <1>3, <1>8, NamesFollow
<1>10. Named(PcNew(base))
  BY <1>0, <1>5, <1>7, ConstructedNamed
<1>11. Named(GpcNew(base))
  BY <1>0, <1>6, <1>9, ConstructedNamed
<1> QED BY <1>10, <1>11 DEF GrNew

(* OscatsModelDina and Nida; the two loops of the latter are one.          *)
LEMMA DiagnosticNamed ==
    ASSUME NEW base, IsBase(base)
    PROVE  Named(DinaNew(base)) /\ Named(NidaNew(base))
<1>1. Named(DinaNew(base))
  <2> DEFINE L == {<<0, <<"Guess", 0>>>>, <<1, <<"Slip", 0>>>>}
  <2>1. NamesFirst(L, 2)
    BY TwoNames
  <2>2. DinaNew(base) = Restricted(WithParams(base, 2, L), "bin")
    BY DEF DinaNew, Guess, Slip
  <2> HIDE DEF L
  <2> QED BY <2>1, <2>2, ConstructedNamed
<1>2. Named(NidaNew(base))
  <2> DEFINE N == base.Ndims
             g == [i \in 1 .. N |-> <<"Guess", base.dims[i]>>]
             s == [i \in 1 .. N |-> <<"Diff", base.dims[i]>>]
             L == UNION {{<<NidaGuess(i), <<"Guess", base.dims[i]>>>>,
                          <<NidaSlip(base, i), <<"Diff", base.dims[i]>>>>} : i \in 1 .. N}
  <2>0. N \in Nat
    BY DEF IsBase
  <2>1. L = {} \cup WrittenFrom(0, N, g) \cup WrittenFrom(N, N, s)
    <3>1. WrittenFrom(0, N, g) = {<<NidaGuess(i), <<"Guess", base.dims[i]>>>> : i \in 1 .. N}
      <4>1. \A i \in 1 .. N : <<0 + i - 1, g[i]>> = <<NidaGuess(i), <<"Guess", base.dims[i]>>>>
        BY <2>0 DEF NidaGuess
      <4> HIDE DEF N, g
      <4> QED BY <4>1 DEF WrittenFrom
    <3>2. WrittenFrom(N, N, s)
           = {<<NidaSlip(base, i), <<"Diff", base.dims[i]>>>> : i \in 1 .. N}
      BY <2>0 DEF NidaSlip, WrittenFrom
    <3> QED BY <3>1, <3>2
  <2>2. NidaNew(base) = Restricted(WithParams(base, 2 * N, L), "bin")
    BY DEF NidaNew
  <2> HIDE DEF N, g, s, L
  <2>3. NamesFirst({} \cup WrittenFrom(0, N, g), 0 + N)
    BY <2>0, NamesNone, NamesFollow
  <2>4. NamesFirst({} \cup WrittenFrom(0, N, g) \cup WrittenFrom(N, N, s), N + N)
    BY <2>0, <2>3, NamesFollow
  <2>5. NamesFirst(L, 2 * N)
    BY <2>0, <2>1, <2>4
  <2> QED BY <2>0, <2>2, <2>5, ConstructedNamed
<1> QED BY <1>1, <1>2

(* Every constructor names the parameters of its model.                    *)
LEMMA AllNamed ==
    ASSUME NEW base, IsBase(base), NEW kind \in ContinuousKinds \cup BinaryKinds
    PROVE  Named(Construct(kind, base))
BY LogisticNamed, NominalNamed, PcNamed, DiagnosticNamed
DEF Construct, ContinuousKinds, BinaryKinds

(* Setting one parameter through its name.                                 *)
SetOne(seed, pair, m) ==
    SetParam(m, pair[2], 2 + ((pair[1] * pair[1] + seed * pair[1] + seed) % 5))

(* The model after the parameters of each subset of a layout are set.      *)
IsSetting(g, seed, m, S) ==
    g = [s \in SUBSET S |-> IF s = {} THEN m ELSE SetOne(seed, One(s), g[s \ {One(s)}])]

(* The definition by recursion of what calibration sets has a solution.    *)
LEMMA SettingExists ==
    ASSUME NEW S, IsFiniteSet(S), NEW seed, NEW m
    PROVE  \E g : IsSetting(g, seed, m, S)
<1> DEFINE Value(g, s) == IF s = {} THEN m ELSE SetOne(seed, One(s), g[s \ {One(s)}])
           Upto(n) == {s \in SUBSET S : Cardinality(s) <= n}
           Found == {n \in Nat : \E g : /\ g = [s \in SUBSET S |-> g[s]]
                                        /\ \A s \in Upto(n) : g[s] = Value(g, s)}
<1>0. \A s \in SUBSET S : IsFiniteSet(s) /\ Cardinality(s) \in Nat /\ (Cardinality(s) = 0 => s = {})
  BY FS_Subset, FS_CardinalityType, FS_EmptySet
<1>1. 0 \in Found
  <2> DEFINE g == [s \in SUBSET S |-> m]
  <2>1. g = [s \in SUBSET S |-> g[s]]
    OBVIOUS
  <2>2. \A s \in Upto(0) : s = {}
    BY <1>0
  <2>3. \A s \in Upto(0) : g[s] = Value(g, s)
    BY <2>2
  <2> QED BY <2>1, <2>3
<1>2. ASSUME NEW n \in Nat, n \in Found PROVE n + 1 \in Found
  <2>1. PICK g : g = [s \in SUBSET S |-> g[s]] /\ \A s \in Upto(n) : g[s] = Value(g, s)
    BY <1>2
  <2> DEFINE h == [s \in SUBSET S |-> Value(g, s)]
  <2>2. ASSUME NEW s \in Upto(n + 1) PROVE h[s] = Value(h, s)
    <3>1. CASE s = {}
      BY <3>1
    <3>2. CASE s # {}
      <4>1. One(s) \in s
        BY <3>2 DEF One
      <4>2. s \ {One(s)} \in Upto(n)
        <5>1. IsFiniteSet(s) /\ Cardinality(s) <= n + 1 /\ Cardinality(s) \in Nat
          BY <1>0, <2>2
        <5>2. Cardinality(s \ {One(s)}) = Cardinality(s) - 1
          BY <4>1, <5>1, FS_RemoveElement
        <5>3. Cardinality(s \ {One(s)}) <= n
          BY <5>1, <5>2
        <5> QED BY <5>3, <2>2
      <4>3. h[s \ {One(s)}] = g[s \ {One(s)}]
        BY <4>2, <2>1
      <4>4. h[s] = Value(g, s)
        BY <2>2
      <4> QED BY <4>3, <4>4, <3>2
    <3> QED BY <3>1, <3>2
  <2>3. h = [s \in SUBSET S |-> h[s]]
    OBVIOUS
  <2> HIDE DEF h
  <2>4. n + 1 \in Nat
    OBVIOUS
  <2> QED BY <2>2, <2>3, <2>4
<1>3. Cardinality(S) \in Found
  <2> HIDE DEF Found
  <2>1. Cardinality(S) \in Nat
    BY FS_CardinalityType
  <2> QED BY <1>1, <1>2, <2>1, Induction
<1>4. PICK g : g = [s \in SUBSET S |-> g[s]] /\ \A s \in Upto(Cardinality(S)) : g[s] = Value(g, s)
  BY <1>3
<1>5. ASSUME NEW s \in SUBSET S PROVE Cardinality(s) <= Cardinality(S)
  BY FS_Subset
<1>6. \A s \in SUBSET S : g[s] = Value(g, s)
  BY <1>4, <1>5
<1>7. g = [s \in SUBSET S |-> Value(g, s)]
  BY <1>4, <1>6
<1> QED BY <1>7 DEF IsSetting

(* m is a model of which only the values of parameters may have changed.   *)
SameShape(m, old) ==
    /\ {"Np", "layout", "params"} \subseteq DOMAIN m
    /\ m.kind = old.kind /\ m.dims = old.dims /\ m.Ndims = old.Ndims
    /\ m.covariates = old.covariates /\ m.Ncov = old.Ncov /\ m.Ncat = old.Ncat
    /\ m.Np = old.Np /\ m.layout = old.layout
    /\ m.params \in [0 .. old.Np - 1 -> Int]

(* Setting a parameter leaves the names alone.                             *)
LEMMA SetOneKeeps ==
    ASSUME NEW old, NEW m, SameShape(m, old), NEW seed \in Int,
           NEW pair, pair[1] \in Int
    PROVE  SameShape(SetOne(seed, pair, m), old)
<1> DEFINE value == 2 + ((pair[1] * pair[1] + seed * pair[1] + seed) % 5)
           p == FirstIndex(m, pair[2])
<1>1. SetOne(seed, pair, m) \in {m, [m EXCEPT !.params[p] = value]}
  BY DEF SetOne, SetParam, SetParamByIndex
<1>2. value \in Int
  OBVIOUS
<1> HIDE DEF value, p
<1>3. [m.params EXCEPT ![p] = value] \in [0 .. old.Np - 1 -> Int]
  BY <1>2 DEF SameShape
<1>4. SameShape([m EXCEPT !.params[p] = value], old)
  BY <1>3 DEF SameShape
<1> QED BY <1>1, <1>4

(* Calibrating a model leaves its names alone.                             *)
LEMMA SettingKeeps ==
    ASSUME NEW S, IsFiniteSet(S), \A pair \in S : pair[1] \in Int,
           NEW seed \in Int, NEW m, SameShape(m, m),
           NEW g, IsSetting(g, seed, m, S)
    PROVE  SameShape(g[S], m)
<1> DEFINE Kept == {n \in Nat : \A s \in SUBSET S : Cardinality(s) = n => SameShape(g[s], m)}
<1>0. \A s \in SUBSET S : IsFiniteSet(s) /\ Cardinality(s) \in Nat /\ (Cardinality(s) = 0 => s = {})
  BY FS_Subset, FS_CardinalityType, FS_EmptySet
<1>1. ASSUME NEW s \in SUBSET S
      PROVE  g[s] = IF s = {} THEN m ELSE SetOne(seed, One(s), g[s \ {One(s)}])
  BY DEF IsSetting
<1>2. 0 \in Kept
  BY <1>0, <1>1
<1>3. ASSUME NEW n \in Nat, n \in Kept PROVE n + 1 \in Kept
  <2>1. SUFFICES ASSUME NEW s \in SUBSET S, Cardinality(s) = n + 1 PROVE SameShape(g[s], m)
    OBVIOUS
  <2>2. s # {} /\ IsFiniteSet(s)
    BY <1>0, <2>1, FS_EmptySet
  <2>3. One(s) \in s
    BY <2>2 DEF One
  <2>4. Cardinality(s \ {One(s)}) = n
    <3>1. Cardinality(s \ {One(s)}) = Cardinality(s) - 1
      BY <2>2, <2>3, FS_RemoveElement
    <3> QED BY <2>1, <3>1
  <2>5. SameShape(g[s \ {One(s)}], m)
    BY <1>3, <2>1, <2>4
  <2> QED BY <1>1, <2>2, <2>3, <2>5, SetOneKeeps
<1>4. Cardinality(S) \in Kept
  <2> HIDE DEF Kept
  <2>1. Cardinality(S) \in Nat
    BY FS_CardinalityType
  <2> QED BY <1>2, <1>3, <2>1, Induction
<1> QED BY <1>4

(* Calibration is such a table.                                            *)
LEMMA CalibrateTable ==
    ASSUME NEW seed, Calibrate(seed), IsFiniteSet(model.layout)
    PROVE  \E g : IsSetting(g, seed, model, model.layout) /\ model' = g[model.layout]
<1> DEFINE g == CHOOSE k : IsSetting(k, seed, model, model.layout)
<1>1. IsSetting(g, seed, model, model.layout)
  BY SettingExists
<1>2. model' = g[model.layout]
  BY DEF Calibrate, FoldSet, MapThenFoldSet, IsSetting, SetOne, One
<1> QED BY <1>1, <1>2

-----------------------------------------------------------------------------
(* A model that exists has its names.                                      *)
NamesInv == model # Unmade => Named(model)

(* No model exists at first.                                               *)
LEMMA NamesInit == IrtInit => NamesInv
  BY DEF IrtInit, NamesInv

(* A constructor is called with arrays, and with two categories or more    *)
(* above the first.                                                        *)
LEMMA NewNames ==
    ASSUME NEW kind \in ContinuousKinds \cup BinaryKinds,
           NEW requested \in Requests, NEW covariates \in CovariateLists, NEW Ncat \in Ncats,
           New(kind, requested, covariates, Ncat)
    PROVE  NamesInv'
<1> DEFINE covs == IF kind \in BinaryKinds THEN <<>> ELSE covariates
           base == BaseModel(kind, requested, covs, Ncat)
<1>1. requested \in Seq(Range(requested)) /\ covariates \in Seq(Range(covariates))
      /\ Ncat \in Nat \ {0}
  BY CallerAssumption
<1>2. Len(KeptDims(requested)) \in Nat
  BY <1>1, KeptDimsAre
<1>3. Len(covs) \in Nat
  BY <1>1
<1>4. IsBase(base)
  <2> HIDE DEF covs
  <2> QED BY <1>1, <1>2, <1>3 DEF IsBase, BaseModel
<1>5. model' = Construct(kind, base)
  BY DEF New
<1> HIDE DEF base
<1> QED BY <1>4, <1>5, AllNamed DEF NamesInv

(* Setting parameters through their names leaves the names alone.          *)
LEMMA CalibrateNames ==
    ASSUME NamesInv, NEW seed \in Seeds, Calibrate(seed)
    PROVE  NamesInv' /\ SameShape(model', model)
<1>1. Named(model)
  <2>1. model.Ndims > 0
    BY DEF Calibrate
  <2>2. model # Unmade
    BY <2>1 DEF Unmade
  <2> QED BY <2>2 DEF NamesInv
<1>2. PICK g : IsSetting(g, seed, model, model.layout) /\ model' = g[model.layout]
  BY <1>1, CalibrateTable DEF Named, NamesFirst
<1>3. seed \in Int /\ \A pair \in model.layout : pair[1] \in Int
  <2>1. \A pair \in model.layout : pair[1] \in 0 .. model.Np - 1
    BY <1>1 DEF Named, NamesFirst
  <2>2. \A n \in 0 .. model.Np - 1 : n \in Int
    OBVIOUS
  <2> QED BY <2>1, <2>2, SituationsAssumption
<1>4. SameShape(model, model) /\ IsFiniteSet(model.layout)
  BY <1>1 DEF SameShape, Named, NamesFirst
<1>5. SameShape(model', model)
  BY <1>2, <1>3, <1>4, SettingKeeps
<1> QED BY <1>1, <1>5 DEF NamesInv, SameShape, Named

(* No step disturbs the names.                                             *)
LEMMA NamesStep ==
    ASSUME NamesInv, [IrtNext]_irtVars
    PROVE  NamesInv'
<1>1. ASSUME NEW kind \in ContinuousKinds \cup BinaryKinds,
             NEW requested \in Requests, NEW covariates \in CovariateLists, NEW Ncat \in Ncats,
             New(kind, requested, covariates, Ncat)
      PROVE  NamesInv'
  BY <1>1, NewNames
<1>2. ASSUME NEW seed \in Seeds, Calibrate(seed) PROVE NamesInv'
  BY <1>2, CalibrateNames
<1>3. ASSUME UNCHANGED model PROVE NamesInv'
  BY <1>3 DEF NamesInv
<1>4. ASSUME NEW at, NEW resp, AddDtheta(at, resp) PROVE UNCHANGED model
  BY <1>4 DEF AddDtheta
<1>5. ASSUME NEW at, NEW resp, AddDparam(at, resp) PROVE UNCHANGED model
  BY <1>5 DEF AddDparam
<1>6. ASSUME NEW at, AddInformation(at) PROVE UNCHANGED model
  BY <1>6 DEF AddInformation
<1>7. ASSUME UNCHANGED irtVars PROVE UNCHANGED model
  BY <1>7 DEF irtVars
<1> QED BY <1>1, <1>2, <1>3, <1>4, <1>5, <1>6, <1>7 DEF IrtNext

(* A model that has its names has one for every parameter.                 *)
LEMMA NamesSound == NamesInv => EveryParameterNamed
  BY DEF NamesInv, Named, NamesFirst, EveryParameterNamed

(* Every index below Np is named by the constructors, once (the functions  *)
(* model_constructed of the nine models), for any space, requests,         *)
(* covariates and categories.                                              *)
THEOREM EveryParameterNamedAlways ==
    IrtSpec => []EveryParameterNamed
<1>1. IrtInit => NamesInv
  BY NamesInit
<1>2. NamesInv /\ [IrtNext]_irtVars => NamesInv'
  BY NamesStep
<1>3. NamesInv => EveryParameterNamed
  BY NamesSound
<1> QED BY <1>1, <1>2, <1>3, PTL DEF IrtSpec

-----------------------------------------------------------------------------
(* Numbers that are the same modulo Prime.                                 *)
Same(x, y) == x % Prime = y % Prime

(* A number is a multiple of Prime and a remainder.                        *)
LEMMA Remainder ==
  ASSUME NEW x \in Int
  PROVE  /\ x % Prime \in 0 .. Prime - 1 /\ x % Prime \in Int
         /\ \E k \in Int : x = Prime * k + (x % Prime)
<1>1. x % Prime \in 0 .. Prime - 1
  BY PrimeAssumption
<1>2. x = Prime * (x \div Prime) + (x % Prime) /\ x \div Prime \in Int
  BY PrimeAssumption
<1>3. \E k \in Int : x = Prime * k + (x % Prime)
  BY <1>2
<1>4. \A r \in 0 .. Prime - 1 : r \in Int
  BY PrimeAssumption
<1> QED BY <1>1, <1>3, <1>4

(* What is added to a multiple of Prime and is below it is the remainder.  *)
LEMMA RemainderUnique ==
  ASSUME NEW k \in Int, NEW r \in 0 .. Prime - 1
  PROVE  (Prime * k + r) % Prime = r
<1> DEFINE x == Prime * k + r
<1>1. x \in Int
  BY PrimeAssumption
<1>2. PICK l \in Int : x = Prime * l + (x % Prime)
  BY <1>1, Remainder
<1>3. x % Prime \in 0 .. Prime - 1
  BY <1>1, Remainder
<1> DEFINE d == l - k
<1>4. Prime * d = r - (x % Prime) /\ d \in Int
  BY <1>2, <1>3, PrimeAssumption
<1> HIDE DEF x, d
<1>5. CASE d >= 1
  <2>1. Prime * d >= Prime
    BY <1>4, <1>5, PrimeAssumption
  <2> QED BY <2>1, <1>3, <1>4, PrimeAssumption
<1>6. CASE d <= -1
  <2>1. Prime * d <= -Prime
    BY <1>4, <1>6, PrimeAssumption
  <2> QED BY <2>1, <1>3, <1>4, PrimeAssumption
<1>7. CASE d = 0
  BY <1>3, <1>4, <1>7, PrimeAssumption DEF x
<1> QED BY <1>4, <1>5, <1>6, <1>7

(* Two numbers are the same modulo Prime when they differ by a multiple of *)
(* it.                                                                     *)
LEMMA SameBy ==
  ASSUME NEW x \in Int, NEW y \in Int
  PROVE  Same(x, y) <=> \E k \in Int : x = y + Prime * k
<1>1. PICK l \in Int : x = Prime * l + (x % Prime)
  BY Remainder
<1>2. PICK m \in Int : y = Prime * m + (y % Prime)
  BY Remainder
<1>3. x % Prime \in 0 .. Prime - 1 /\ y % Prime \in 0 .. Prime - 1
  BY Remainder
<1>4. ASSUME Same(x, y) PROVE \E k \in Int : x = y + Prime * k
  <2>1. l - m \in Int /\ x = y + Prime * (l - m)
    BY <1>1, <1>2, <1>3, <1>4, PrimeAssumption DEF Same
  <2> QED BY <2>1
<1>5. ASSUME NEW k \in Int, x = y + Prime * k PROVE Same(x, y)
  <2>1. m + k \in Int /\ x = Prime * (m + k) + (y % Prime)
    BY <1>2, <1>3, <1>5, PrimeAssumption
  <2> QED BY <1>3, <2>1, RemainderUnique DEF Same
<1> QED BY <1>4, <1>5

(* Sums of numbers that are the same are the same.                         *)
LEMMA SameSum ==
  ASSUME NEW x \in Int, NEW y \in Int, NEW u \in Int, NEW v \in Int, Same(x, y), Same(u, v)
  PROVE  Same(x + u, y + v)
<1>1. PICK k \in Int : x = y + Prime * k
  BY SameBy
<1>2. PICK l \in Int : u = v + Prime * l
  BY SameBy
<1>3. k + l \in Int /\ x + u = (y + v) + Prime * (k + l) /\ x + u \in Int /\ y + v \in Int
  BY <1>1, <1>2, PrimeAssumption
<1> QED BY <1>3, SameBy

(* And so are products.                                                    *)
LEMMA SameProduct ==
  ASSUME NEW x \in Int, NEW y \in Int, NEW u \in Int, NEW v \in Int, Same(x, y), Same(u, v)
  PROVE  Same(x * u, y * v)
<1>1. PICK k \in Int : x = y + Prime * k
  BY SameBy
<1>2. PICK l \in Int : u = v + Prime * l
  BY SameBy
<1> DEFINE m == k * v + y * l + k * (Prime * l)
<1>3. m \in Int /\ x * u \in Int /\ y * v \in Int
  BY PrimeAssumption
<1>4. x * u = y * v + Prime * m
  BY <1>1, <1>2, PrimeAssumption
<1> HIDE DEF m
<1> QED BY <1>3, <1>4, SameBy

(* One number of a sum, a difference or a product can be replaced.         *)
LEMMA SameWith ==
  ASSUME NEW x \in Int, NEW y \in Int, NEW u \in Int, Same(x, y)
  PROVE  /\ Same(x + u, y + u) /\ Same(u + x, u + y) /\ Same(x - u, y - u) /\ Same(u - x, u - y)
         /\ Same(x * u, y * u) /\ Same(u * x, u * y)
<1>1. Same(u, u) /\ Same(-u, -u) /\ Same(-1, -1)
  BY DEF Same
<1>2. /\ -u \in Int /\ x + (-u) = x - u /\ y + (-u) = y - u /\ -1 \in Int
      /\ u + (-1) * x = u - x /\ u + (-1) * y = u - y /\ (-1) * x \in Int /\ (-1) * y \in Int
  OBVIOUS
<1>3. Same(x * u, y * u) /\ Same(u * x, u * y)
  BY <1>1, SameProduct
<1>4. Same(x + u, y + u) /\ Same(u + x, u + y)
  BY <1>1, SameSum
<1>5. Same(x - u, y - u)
  <2>1. Same(x + (-u), y + (-u))
    BY <1>1, <1>2, SameSum
  <2> QED BY <1>2, <2>1
<1>6. Same(u - x, u - y)
  <2>1. Same((-1) * x, (-1) * y)
    BY <1>1, <1>2, SameProduct
  <2>2. Same(u + (-1) * x, u + (-1) * y)
    BY <1>1, <1>2, <2>1, SameSum
  <2> QED BY <1>2, <2>2
<1> QED BY <1>3, <1>4, <1>5, <1>6

(* A number is the same as its remainder.                                  *)
LEMMA SameRemainder ==
  /\ \A x \in 0 .. Prime - 1 : x % Prime = x
  /\ \A x \in Int : Same(x % Prime, x)
<1>1. ASSUME NEW x \in 0 .. Prime - 1 PROVE x % Prime = x
  BY PrimeAssumption
<1> QED BY <1>1, Remainder DEF Same

(* Being the same is an equivalence.                                       *)
LEMMA SamePlain ==
  ASSUME NEW x, NEW y, NEW z, Same(x, y), Same(y, z)
  PROVE  Same(x, z) /\ Same(y, x)
BY DEF Same

(* What stands for 1/x, and exp.                                           *)
LEMMA ReciprocalIs ==
  ASSUME NEW x \in Int
  PROVE  /\ Reciprocal(x) \in 0 .. Prime - 1 /\ Reciprocal(x) \in Int
         /\ Same(Reciprocal(x), 0) \/ Same(x * Reciprocal(x), 1)
         /\ x % Prime # 0 => Same(x * Reciprocal(x), 1)
<1> DEFINE r == x % Prime
<1>1. r \in 0 .. Prime - 1 /\ r \in Int /\ Same(r, x)
  BY Remainder, SameRemainder
<1>2. CASE r = 0
  <2>1. Reciprocal(x) = 0
    BY <1>2 DEF Reciprocal
  <2> QED BY <1>2, <2>1, PrimeAssumption DEF Same
<1>3. CASE r # 0
  <2>1. r \in NonZero
    BY <1>1, <1>3, PrimeAssumption DEF NonZero
  <2>2. Reciprocals[r] = CHOOSE y \in NonZero : (r * y) % Prime = 1
    BY <2>1 DEF Reciprocals
  <2>3. Reciprocals[r] \in NonZero /\ (r * Reciprocals[r]) % Prime = 1
    BY <2>1, <2>2, Inverses
  <2>4. Reciprocal(x) = Reciprocals[r]
    BY <1>3 DEF Reciprocal
  <2>5. Reciprocal(x) \in 0 .. Prime - 1 /\ Reciprocal(x) \in Int
    BY <2>3, <2>4, PrimeAssumption DEF NonZero
  <2>6. Same(r * Reciprocal(x), 1)
    BY <2>3, <2>4, PrimeAssumption, SameRemainder DEF Same
  <2>7. Same(r * Reciprocal(x), x * Reciprocal(x))
    BY <1>1, <2>5, SameProduct DEF Same
  <2>8. Same(x * Reciprocal(x), 1)
    BY <2>6, <2>7 DEF Same
  <2> QED BY <2>5, <2>8
<1> QED BY <1>2, <1>3

(* The opposite remainders of exponents.                                   *)
LEMMA Opposite ==
  ASSUME NEW m \in Nat \ {0}, NEW z \in Int
  PROVE  /\ z % m \in 0 .. m - 1 /\ (-z) % m \in 0 .. m - 1
         /\ (z % m) % m = z % m /\ ((-z) % m) % m = (-z) % m
         /\ ((z % m) + ((-z) % m)) % m = 0 /\ 0 % m = 0
<1>1. z % m \in 0 .. m - 1 /\ (-z) % m \in 0 .. m - 1
  OBVIOUS
<1>2. \A r \in 0 .. m - 1 : r % m = r
  OBVIOUS
<1>3. PICK k \in Int : z = m * k + (z % m)
  <2>1. z = m * (z \div m) + (z % m) /\ z \div m \in Int
    OBVIOUS
  <2> QED BY <2>1
<1>4. PICK l \in Int : -z = m * l + ((-z) % m)
  <2>1. -z = m * ((-z) \div m) + ((-z) % m) /\ (-z) \div m \in Int
    OBVIOUS
  <2> QED BY <2>1
<1> DEFINE y == z % m
           u == (-z) % m
           d == -(k + l)
<1>5. y \in 0 .. m - 1 /\ u \in 0 .. m - 1 /\ z = m * k + y /\ -z = m * l + u
  BY <1>1, <1>3, <1>4
<1> HIDE DEF y, u
<1>6. y + u = m * d /\ d \in Int
  <2>1. m * d = -(m * k + m * l) /\ m * k \in Int /\ m * l \in Int
    OBVIOUS
  <2>2. y + u = -(m * k + m * l)
    BY <1>5, <2>1
  <2> QED BY <2>1, <2>2
<1> HIDE DEF d
<1>7. d = 0 \/ d = 1
  <2>1. CASE d >= 2
    <3>1. m * d >= 2 * m
      BY <2>1, <1>6
    <3> QED BY <3>1, <1>5, <1>6
  <2>2. CASE d <= -1
    <3>1. m * d <= -m
      BY <2>2, <1>6
    <3> QED BY <3>1, <1>5, <1>6
  <2> QED BY <2>1, <2>2, <1>6
<1>8. y + u = 0 \/ y + u = m
  BY <1>6, <1>7
<1>9. 0 % m = 0 /\ m % m = 0
  OBVIOUS
<1>10. (y + u) % m = 0
  BY <1>8, <1>9
<1> QED BY <1>1, <1>2, <1>9, <1>10 DEF y, u

(* Exp is a number that is not 0, and exp(z) exp(-z) = 1.                  *)
LEMMA ExpIs ==
  ASSUME NEW z \in Int
  PROVE  /\ Exp(z) \in NonZero /\ Exp(z) \in Int /\ Exp(z) \in 0 .. Prime - 1
         /\ Same(Exp(z) * Exp(-z), 1)
<1> DEFINE m == Prime - 1
<1>1. m \in Nat \ {0}
  BY PrimeAssumption
<1>2. ASSUME NEW x \in Int
      PROVE  Exp(x) \in NonZero /\ Exp(x) \in Int /\ Exp(x) \in 0 .. Prime - 1
  <2>1. x % m \in 0 .. m - 1
    BY <1>1, Opposite
  <2>2. (x % m) + 1 \in NonZero
    BY <2>1, <1>1, PrimeAssumption DEF NonZero
  <2>3. Exp(x) \in NonZero
    BY <2>2, PrimitiveRoot DEF Exp
  <2> QED BY <2>3, PrimeAssumption DEF NonZero
<1> DEFINE y == z % m
           u == (-z) % m
<1>3. /\ y \in 0 .. m - 1 /\ u \in 0 .. m - 1 /\ y % m = y /\ u % m = u
      /\ (y + u) % m = 0 /\ 0 % m = 0
  BY <1>1, Opposite
<1>4. Exp(y) = Exp(z) /\ Exp(u) = Exp(-z) /\ Exp(y + u) = Exp(0)
  BY <1>3 DEF Exp
<1>5. \A v, w \in 0 .. Prime - 2 : Exp(v + w) = Exp(v) \otimes Exp(w)
  BY Exponential
<1>6. y \in 0 .. Prime - 2 /\ u \in 0 .. Prime - 2 /\ 0 \in 0 .. Prime - 2 /\ 0 + 0 = 0
  BY <1>1, <1>3, PrimeAssumption
<1> HIDE DEF y, u, m
<1>7. Exp(0) = Exp(z) \otimes Exp(-z) /\ Exp(0) = Exp(0) \otimes Exp(0)
  BY <1>4, <1>5, <1>6
<1> DEFINE e == Exp(0)
<1>8. e \in NonZero /\ e \in Int /\ e \in 0 .. Prime - 1
  BY <1>2
<1>9. Exp(z) \in Int /\ Exp(-z) \in Int /\ Exp(z) \in 0 .. Prime - 1 /\ Exp(-z) \in 0 .. Prime - 1
  BY <1>2
<1>10. \A v, w \in 0 .. Prime - 1 : v \otimes w = (v * w) % Prime
  BY SameRemainder DEF \otimes
<1>11. Same(e, e * e) /\ Same(e, Exp(z) * Exp(-z))
  <2>1. e % Prime = e
    BY <1>8, SameRemainder
  <2> HIDE DEF e
  <2>2. e = (e * e) % Prime /\ e = (Exp(z) * Exp(-z)) % Prime
    BY <1>7, <1>8, <1>9, <1>10 DEF e
  <2> QED BY <2>1, <2>2 DEF Same
<1>12. PICK i \in NonZero : (e * i) % Prime = 1
  BY <1>8, Inverses
<1> HIDE DEF e
<1>13. i \in Int /\ e * i \in Int /\ e * e \in Int /\ Same(e * i, 1)
  BY <1>8, <1>12, PrimeAssumption, SameRemainder DEF NonZero, Same
<1>14. Same(e * i, e * e * i)
  BY <1>8, <1>11, <1>13, SameProduct DEF Same
<1>15. Same(e * (e * i), e * 1) /\ e * (e * i) = e * e * i /\ e * 1 = e
  BY <1>8, <1>13, SameProduct DEF Same
<1>16. Same(e, 1)
  BY <1>13, <1>14, <1>15 DEF Same
<1>17. Same(Exp(z) * Exp(-z), 1)
  BY <1>11, <1>16 DEF Same
<1> QED BY <1>2, <1>17

(* The values of the logistic function at opposite points, its odds        *)
(* included.                                                               *)
LogisticValue(z) == Reciprocal(1 + Exp(-z))

(* The logistic function is a number, and so is its denominator.           *)
LEMMA LogisticInt ==
  ASSUME NEW z \in Int
  PROVE  LogisticValue(z) \in Int /\ 1 + Exp(-z) \in Int
BY ExpIs, ReciprocalIs DEF LogisticValue

(* Where it is not 0 its denominator has an inverse, which it is.          *)
LEMMA LogisticInverts ==
  ASSUME NEW z \in Int, ~Same(LogisticValue(z), 0)
  PROVE  Same(LogisticValue(z) * (1 + Exp(-z)), 1)
<1>1. -z \in Int
  OBVIOUS
<1>2. Exp(-z) \in Int
  BY <1>1, ExpIs
<1> DEFINE x == 1 + Exp(-z)
<1>3. x \in Int
  BY <1>2
<1>4. LogisticValue(z) = Reciprocal(x)
  BY DEF LogisticValue
<1> HIDE DEF x
<1>5. Reciprocal(x) \in Int /\ Same(x * Reciprocal(x), 1)
  BY <1>3, <1>4, ReciprocalIs
<1>6. x * Reciprocal(x) = Reciprocal(x) * x
  BY <1>3, <1>5
<1> QED BY <1>4, <1>5, <1>6 DEF x

(* The logistic function at z and at -z add up to 1.                       *)
LEMMA LogisticHalves ==
  ASSUME NEW z \in Int, ~Same(LogisticValue(z), 0), ~Same(LogisticValue(-z), 0)
  PROVE  Same(LogisticValue(z) + LogisticValue(-z), 1)
<1> DEFINE a == LogisticValue(z)
           b == LogisticValue(-z)
           e == Exp(z)
           f == Exp(-z)
<1>1. -z \in Int /\ -(-z) = z
  OBVIOUS
<1>2. a \in Int /\ b \in Int /\ e \in Int /\ f \in Int
  BY <1>1, LogisticInt, ExpIs
<1>3. Same(a * (1 + f), 1) /\ Same(b * (1 + e), 1) /\ Same(e * f, 1)
  BY <1>1, LogisticInverts, ExpIs
<1> HIDE DEF a, b, e, f
<1> DEFINE af == a * (1 + f)
           be == b * (1 + e)
           ef == e * f
           ab == a * b
<1>4. af \in Int /\ be \in Int /\ ef \in Int /\ ab \in Int /\ 1 \in Int
  BY <1>2
<1>5. /\ af * b + be * a = ab * (2 + e + f)
      /\ af * be = ab * (1 + e + f + ef)
  BY <1>2
<1>6. 1 * b + 1 * a = a + b /\ ab * (1 + e + f + 1) = ab * (2 + e + f) /\ 1 * 1 = 1
  BY <1>2, <1>4
<1> HIDE DEF af, be, ef, ab
<1>7. Same(af, 1) /\ Same(be, 1) /\ Same(ef, 1)
  BY <1>3 DEF af, be, ef
<1>8. Same(ab * (2 + e + f), a + b)
  <2>1. Same(af * b, 1 * b) /\ Same(be * a, 1 * a)
    BY <1>2, <1>4, <1>7, SameWith
  <2>2. af * b \in Int /\ be * a \in Int /\ 1 * b \in Int /\ 1 * a \in Int
    BY <1>2, <1>4
  <2>3. Same(af * b + be * a, 1 * b + 1 * a)
    BY <2>1, <2>2, SameSum
  <2> QED BY <2>3, <1>5, <1>6
<1>9. Same(ab * (1 + e + f + ef), 1)
  BY <1>4, <1>5, <1>6, <1>7, SameProduct
<1>10. Same(ab * (1 + e + f + ef), ab * (1 + e + f + 1))
  <2>1. 1 + e + f \in Int /\ 1 + e + f + ef \in Int /\ 1 + e + f + 1 \in Int
    BY <1>2, <1>4
  <2>2. Same(1 + e + f + ef, 1 + e + f + 1)
    BY <1>4, <1>7, <2>1, SameWith
  <2> QED BY <1>4, <2>1, <2>2, SameWith
<1>11. Same(a + b, 1)
  BY <1>6, <1>8, <1>9, <1>10 DEF Same
<1> QED BY <1>11 DEF a, b

(* The odds of the logistic function at z are exp(z).                      *)
LEMMA LogisticOdds ==
  ASSUME NEW z \in Int, ~Same(LogisticValue(z), 0)
  PROVE  Same(LogisticValue(z), (1 - LogisticValue(z)) * Exp(z))
<1> DEFINE a == LogisticValue(z)
           e == Exp(z)
           f == Exp(-z)
<1>1. a \in Int /\ e \in Int /\ f \in Int
  <2>1. -z \in Int
    OBVIOUS
  <2> QED BY <2>1, LogisticInt, ExpIs
<1>2. Same(a * (1 + f), 1) /\ Same(e * f, 1)
  BY LogisticInverts, ExpIs
<1> HIDE DEF a, e, f
<1> DEFINE af == a * (1 + f)
           ef == e * f
           ae == a * e
<1>3. af \in Int /\ ef \in Int /\ ae \in Int /\ 1 \in Int
  BY <1>1
<1>4. /\ af * e = ae + a * ef /\ 1 * e = e
      /\ (ae + a * 1) - ae = a /\ e - ae = (1 - a) * e
      /\ a * 1 \in Int /\ a * ef \in Int
  BY <1>1, <1>3
<1> HIDE DEF af, ef, ae
<1>5. Same(af, 1) /\ Same(ef, 1)
  BY <1>2 DEF af, ef
<1>6. Same(ae + a * ef, e)
  <2>1. Same(af * e, 1 * e)
    BY <1>1, <1>3, <1>5, SameWith
  <2> QED BY <2>1, <1>4
<1>7. Same(ae + a * ef, ae + a * 1)
  <2>1. Same(a * ef, a * 1)
    BY <1>1, <1>3, <1>5, SameWith
  <2> QED BY <1>3, <1>4, <2>1, SameWith
<1>8. Same(ae + a * 1, e)
  BY <1>6, <1>7 DEF Same
<1>9. ae + a * 1 \in Int
  BY <1>3, <1>4
<1>10. Same((ae + a * 1) - ae, e - ae)
  BY <1>1, <1>3, <1>8, <1>9, SameWith
<1> QED BY <1>4, <1>10 DEF a, e

(* A quotient that is known.                                               *)
LEMMA QuotientIs ==
  ASSUME NEW x \in Int, NEW y \in Int, NEW e \in 0 .. Prime - 1, Same(x, y * e), ~Same(y, 0)
  PROVE  x \oslash y = e
<1>1. e \in Int
  BY PrimeAssumption
<1> DEFINE r == Reciprocal(y)
<1>2. r \in Int /\ Same(y * r, 1)
  <2>1. 0 % Prime = 0
    BY PrimeAssumption
  <2>2. y % Prime # 0
    BY <2>1 DEF Same
  <2> QED BY <2>2, ReciprocalIs
<1> HIDE DEF r
<1>3. (y * e) * r = e * (y * r) /\ y * e \in Int /\ y * r \in Int /\ x * r \in Int /\ e * 1 = e
  BY <1>1, <1>2
<1>4. Same(x * r, (y * e) * r)
  BY <1>2, <1>3, SameWith
<1>5. Same(e * (y * r), e * 1)
  <2> DEFINE yr == y * r
  <2>1. yr \in Int /\ 1 \in Int /\ Same(yr, 1)
    BY <1>2, <1>3
  <2> HIDE DEF yr
  <2>2. Same(e * yr, e * 1)
    BY <1>1, <2>1, SameWith
  <2> QED BY <2>2 DEF yr
<1>6. Same(x * r, e)
  BY <1>3, <1>4, <1>5 DEF Same
<1>7. Same((x % Prime) * (r % Prime), x * r)
  <2>1. x % Prime \in Int /\ r % Prime \in Int
    BY <1>2, Remainder
  <2> QED BY <1>2, <2>1, SameRemainder, SameProduct
<1>8. e % Prime = e
  BY SameRemainder
<1>9. x \oslash y = ((x % Prime) * (r % Prime)) % Prime
  BY DEF \oslash, \otimes, r
<1> QED BY <1>6, <1>7, <1>8, <1>9 DEF Same

(* The responses, and the categories above the lowest, are finite sets.    *)
LEMMA UptoFinite == \A n \in Nat : IsFiniteSet(0 .. n) /\ IsFiniteSet(1 .. n)
<1>1. \A n \in Nat : 0 \in Int /\ 1 \in Int /\ n \in Int
  OBVIOUS
<1> QED BY <1>1, FS_Interval

(* A sum of one term.                                                      *)
LEMMA SumOne ==
  ASSUME NEW f, NEW x, f[x] \in Int
  PROVE  Over(f, {x}) = f[x]
<1> DEFINE S == {x}
<1>1. IsFiniteSet(S)
  BY FS_Singleton
<1>2. (\A y \in S : f[y] \in Int) /\ x \in S /\ S \ {x} = {}
  OBVIOUS
<1> HIDE DEF S
<1>3. Over(f, S) = f[x] + Over(f, S \ {x})
  BY <1>1, <1>2, SumTakes
<1>4. Over(f, {}) = 0
  BY <1>1, SumRemoves
<1>5. Over(f, S) = f[x]
  BY <1>2, <1>3, <1>4
<1> QED BY <1>5 DEF S

(* A sum of two terms, those of the responses 0 and 1.                     *)
LEMMA SumTwo ==
  ASSUME NEW f, f[0] \in Int, f[1] \in Int
  PROVE  Over(f, {0, 1}) = f[0] + f[1]
<1> DEFINE S == {0, 1}
<1>1. IsFiniteSet(S)
  <2>1. IsFiniteSet(0 .. 1)
    BY UptoFinite
  <2>2. 0 .. 1 = S
    OBVIOUS
  <2> QED BY <2>1, <2>2
<1>2. (\A y \in S : f[y] \in Int) /\ 0 \in S /\ S \ {0} = {1}
  <2>1. \A y \in S : y = 0 \/ y = 1
    OBVIOUS
  <2>2. S \ {0} = {1}
    OBVIOUS
  <2> QED BY <2>1, <2>2
<1> HIDE DEF S
<1>3. Over(f, S) = f[0] + Over(f, S \ {0})
  BY <1>1, <1>2, SumTakes
<1>4. Over(f, {1}) = f[1]
  BY SumOne
<1> QED BY <1>2, <1>3, <1>4 DEF S

(* A common factor of the terms.                                           *)
LEMMA SumScales ==
  ASSUME NEW S, IsFiniteSet(S), NEW f, NEW r \in Int, \A x \in S : f[x] \in Int
  PROVE  Over([x \in S |-> f[x] * r], S) = Over(f, S) * r
<1> DEFINE h == [x \in S |-> f[x] * r]
           All == {n \in Nat :
                     \A T \in SUBSET S : Cardinality(T) = n => Over(h, T) = Over(f, T) * r}
<1>1. \A T \in SUBSET S : /\ IsFiniteSet(T) /\ Cardinality(T) \in Nat
                          /\ Cardinality(T) = 0 => T = {}
                          /\ Over(f, T) \in Int
  <2>1. \A T \in SUBSET S :
           IsFiniteSet(T) /\ Cardinality(T) \in Nat /\ (Cardinality(T) = 0 => T = {})
    BY FS_Subset, FS_CardinalityType, FS_EmptySet
  <2> QED BY <2>1, SumInt
<1>2. 0 \in All
  <2>1. SUFFICES Over(h, {}) = Over(f, {}) * r
    BY <1>1
  <2>2. Over(h, {}) = 0 /\ Over(f, {}) = 0
    BY SumRemoves
  <2> QED BY <2>2
<1>3. ASSUME NEW n \in Nat, n \in All PROVE n + 1 \in All
  <2>1. SUFFICES ASSUME NEW T \in SUBSET S, Cardinality(T) = n + 1
                 PROVE  Over(h, T) = Over(f, T) * r
    OBVIOUS
  <2> DEFINE c == One(T)
             rest == T \ {c}
  <2>2. T # {} /\ IsFiniteSet(T)
    BY <1>1, <2>1, FS_EmptySet
  <2>3. c \in T /\ Cardinality(rest) = n
    <3>1. c \in T
      BY <2>2 DEF One
    <3> QED BY <2>1, <2>2, <3>1, OneTaken
  <2>4. Over(h, rest) = Over(f, rest) * r
    BY <1>3, <2>3
  <2>5. Over(h, T) = h[c] + Over(h, rest) /\ Over(f, T) = f[c] + Over(f, rest)
    BY <2>2, SumRemoves
  <2>6. h[c] = f[c] * r /\ f[c] \in Int /\ Over(f, rest) \in Int
    BY <1>1, <2>3
  <2> HIDE DEF h, c, rest
  <2> QED BY <2>4, <2>5, <2>6
<1>4. Cardinality(S) \in All
  <2> HIDE DEF All
  <2> QED BY <1>1, <1>2, <1>3, Induction
<1> QED BY <1>4

(* The differences of consecutive numbers add up to that of the ends.      *)
LEMMA SumTelescopes ==
  ASSUME NEW N \in Nat, NEW star, \A k \in 0 .. N + 1 : star[k] \in Int,
         NEW f, \A k \in 0 .. N : f[k] = star[k] - star[k + 1]
  PROVE  Over(f, 0 .. N) = star[0] - star[N + 1]
<1> DEFINE All == {n \in Nat : n <= N => Over(f, 0 .. n) = star[0] - star[n + 1]}
<1>1. \A n \in Nat : IsFiniteSet(0 .. n)
  BY UptoFinite
<1>2. \A k \in 0 .. N : f[k] \in Int
  BY SMTT(30)
<1>3. 0 \in All
  <2>1. 0 .. 0 = {0} /\ 0 \in 0 .. N /\ 0 + 1 = 1
    OBVIOUS
  <2>2. f[0] = star[0] - star[1] /\ f[0] \in Int
    BY <1>2, <2>1
  <2>3. Over(f, {0}) = f[0]
    BY <2>2, SumOne
  <2> QED BY <2>1, <2>2, <2>3
<1>4. ASSUME NEW n \in Nat, n \in All PROVE n + 1 \in All
  <2>1. SUFFICES ASSUME n + 1 <= N PROVE Over(f, 0 .. n + 1) = star[0] - star[n + 2]
    BY n + 1 + 1 = n + 2, n + 1 \in Nat
  <2> DEFINE S == 0 .. n + 1
  <2>2. IsFiniteSet(S) /\ (\A x \in S : f[x] \in Int) /\ n + 1 \in S /\ S \ {n + 1} = 0 .. n
    BY <1>1, <1>2, <2>1
  <2>3. Over(f, S) = f[n + 1] + Over(f, 0 .. n)
    <3> HIDE DEF S
    <3> QED BY <2>2, SumTakes
  <2>4. f[n + 1] = star[n + 1] - star[n + 2] /\ Over(f, 0 .. n) = star[0] - star[n + 1]
    <3>1. n + 1 \in 0 .. N /\ n <= N /\ n + 1 + 1 = n + 2
      BY <2>1
    <3> QED BY <1>4, <3>1
  <2>5. star[0] \in Int /\ star[n + 1] \in Int /\ star[n + 2] \in Int
    BY <2>1
  <2> HIDE DEF S
  <2> QED BY <2>3, <2>4, <2>5 DEF S
<1>5. N \in All
  <2> HIDE DEF All
  <2> QED BY <1>3, <1>4, Induction
<1> QED BY <1>5

(* The values of jets.                                                     *)
LEMMA JetValues ==
  /\ \A V, c : ConstJet(V, c).v = c
  /\ \A k, l, a, b : Combined(k, a, l, b).v = k * a.v + l * b.v
  /\ \A a, b : Times(a, b).v = a.v * b.v
  /\ \A a : ExpJet(a).v = Exp(a.v) /\ ReciprocalJet(a).v = Reciprocal(a.v)
  /\ \A at, c : Number(at, c).v = c
BY DEF ConstJet, Combined, Times, ExpJet, ReciprocalJet, Chain, Number

(* The values of differences and sums of jets of numbers.                  *)
LEMMA JetSums ==
  ASSUME NEW a, a.v \in Int
  PROVE  /\ OneMinus(a).v = 1 - a.v /\ Scale(-1, a).v = -a.v
         /\ \A k \in Int : Scale(k, a).v = k * a.v
         /\ \A b : b.v \in Int => Plus(a, b).v = a.v + b.v /\ Minus(a, b).v = a.v - b.v
<1>1. \A b : b.v \in Int => Plus(a, b).v = a.v + b.v /\ Minus(a, b).v = a.v - b.v
  <2>1. \A b : Plus(a, b).v = 1 * a.v + 1 * b.v /\ Minus(a, b).v = 1 * a.v + (-1) * b.v
    BY JetValues DEF Plus, Minus
  <2> QED BY <2>1
<1>2. OneMinus(a).v = 1 * 1 + (-1) * a.v
  BY JetValues DEF OneMinus, Minus
<1>3. \A k : Scale(k, a).v = k * a.v + 0 * a.v
  BY JetValues DEF Scale
<1>4. \A k \in Int : k * a.v + 0 * a.v = k * a.v
  OBVIOUS
<1>5. Scale(-1, a).v = (-1) * a.v + 0 * a.v
  BY <1>3
<1> QED BY <1>1, <1>2, <1>3, <1>4, <1>5

(* The value of a sum of jets is the sum of their values.                  *)
LEMMA SumFromValue ==
  ASSUME NEW base, NEW f
  PROVE  SumFrom(base, f).v = base.v + Over([x \in DOMAIN f |-> f[x].v], DOMAIN f)
<1> DEFINE h == [x \in DOMAIN f |-> f[x].v]
<1>1. [x \in DOMAIN f |-> h[x]] = [x \in DOMAIN f |-> f[x].v]
  OBVIOUS
<1>2. SumFrom(base, f).v = base.v + SumFunction([x \in DOMAIN f |-> f[x].v])
  BY DEF SumFrom
<1> QED BY <1>1, <1>2 DEF Over

(* A sum of jets of numbers is one.                                        *)
LEMMA SumFromInt ==
  ASSUME NEW base, base.v \in Int, NEW n \in Nat, NEW f, DOMAIN f = 1 .. n,
         \A i \in 1 .. n : f[i].v \in Int
  PROVE  SumFrom(base, f).v \in Int
<1> DEFINE h == [x \in DOMAIN f |-> f[x].v]
<1>1. IsFiniteSet(1 .. n)
  BY UptoFinite
<1>2. \A i \in 1 .. n : h[i] \in Int
  OBVIOUS
<1>3. SumFrom(base, f).v = base.v + Over(h, 1 .. n)
  BY SumFromValue
<1> HIDE DEF h
<1>4. Over(h, 1 .. n) \in Int
  BY <1>1, <1>2, SumInt
<1> QED BY <1>3, <1>4

-----------------------------------------------------------------------------
(* A point of which everything that a probability reads is a number.       *)
Numeric(at) ==
  /\ at.variables = "none"
  /\ at.model.Ndims \in Nat /\ at.model.Ncov \in Nat /\ at.model.Np \in Nat
  /\ at.model.Ncat \in Nat \ {0}
  /\ \A j \in 1 .. at.model.Ncov : CovValue(at, j) \in Int
  /\ \A p \in 0 .. at.model.Np - 1 : at.model.params[p] \in Int
  /\ at.junk \in Int

(* A point whose coordinates are numbers.                                  *)
Located(at) == \A i \in 1 .. at.model.Ndims : ThetaValue(at, i) \in Int

(* A parameter of the model is a number.                                   *)
LEMMA ParamInt ==
  ASSUME NEW at, Numeric(at), NEW p \in 0 .. at.model.Np - 1
  PROVE  Param(at, p).v = at.model.params[p] /\ Param(at, p).v \in Int
<1>1. Param(at, p) = Number(at, at.model.params[p])
  BY DEF Param, Numeric
<1> QED BY <1>1, JetValues DEF Numeric

(* A combination of the coordinates by numbers is a number.                *)
LEMMA ProjectionInt ==
  ASSUME NEW at, Numeric(at), Located(at),
         NEW a, \A i \in 1 .. at.model.Ndims : a[i].v \in Int
  PROVE  Projection(at, a).v \in Int
<1> DEFINE f == [i \in 1 .. at.model.Ndims |-> Times(a[i], Theta(at, i))]
<1>1. ASSUME NEW i \in 1 .. at.model.Ndims PROVE f[i].v \in Int
  <2>1. Theta(at, i).v \in Int
    BY JetValues DEF Theta, Numeric, Located
  <2>2. f[i].v = a[i].v * Theta(at, i).v
    BY JetValues
  <2>3. a[i].v \in Int
    OBVIOUS
  <2> QED BY <2>1, <2>2, <2>3
<1>2. Projection(at, a) = SumFrom(Number(at, 0), f)
  BY DEF Projection, Dims
<1>3. at.model.Ndims \in Nat /\ DOMAIN f = 1 .. at.model.Ndims /\ Number(at, 0).v \in Int
  BY JetValues DEF Numeric
<1> HIDE DEF f
<1> QED BY <1>1, <1>2, <1>3, SumFromInt

(* So is the effect of the covariates, whose parameters follow one         *)
(* another.                                                                *)
LEMMA CovariateEffectInt ==
  ASSUME NEW at, Numeric(at), NEW first \in Nat, first + at.model.Ncov <= at.model.Np
  PROVE  CovariateEffect(at, first).v \in Int
<1> DEFINE n == at.model.Ncov
           f == [j \in 1 .. n |-> Scale(CovValue(at, j), Param(at, first + j - 1))]
<1>1. n \in Nat /\ at.model.Np \in Nat
  BY DEF Numeric
<1>2. ASSUME NEW j \in 1 .. n PROVE f[j].v \in Int
  <2>1. first + j - 1 \in 0 .. at.model.Np - 1
    BY <1>1
  <2>2. Param(at, first + j - 1).v \in Int /\ CovValue(at, j) \in Int
    BY <2>1, ParamInt DEF Numeric
  <2>3. f[j].v = CovValue(at, j) * Param(at, first + j - 1).v
    BY <2>2, JetSums
  <2> QED BY <2>2, <2>3
<1>3. CovariateEffect(at, first) = SumFrom(Number(at, 0), f)
  BY DEF CovariateEffect
<1>4. DOMAIN f = 1 .. n /\ Number(at, 0).v \in Int
  BY JetValues
<1> HIDE DEF f, n
<1> QED BY <1>1, <1>2, <1>3, <1>4, SumFromInt

(* 0 and 1 are their own remainders.                                       *)
ZeroIs == 0 % Prime = 0 /\ 1 % Prime = 1

(* That holds for every Prime.                                             *)
LEMMA ZeroOne == ZeroIs
BY PrimeAssumption, SameRemainder DEF ZeroIs

(* A function whose sum is 1 modulo Prime has that total.                  *)
LEMMA TotalIs ==
  ASSUME NEW f, IsFiniteSet(DOMAIN f), Same(Over(f, DOMAIN f), 1), f = [x \in DOMAIN f |-> f[x]]
  PROVE  Total(f) = 1
<1>1. Total(f) = Over(f, DOMAIN f) % Prime
  BY DEF Total, Over
<1> QED BY <1>1, ZeroOne DEF Same, ZeroIs

(* So has one of two responses.                                            *)
LEMMA TotalOfTwo ==
  ASSUME NEW f, DOMAIN f = 0 .. 1, f = [x \in 0 .. 1 |-> f[x]],
         f[0] \in Int, f[1] \in Int, Same(f[1] + f[0], 1)
  PROVE  Total(f) = 1
<1>1. 0 .. 1 = {0, 1}
  OBVIOUS
<1>2. IsFiniteSet(DOMAIN f)
  <2>1. IsFiniteSet(0 .. 1)
    BY UptoFinite
  <2> QED BY <2>1
<1>3. Over(f, DOMAIN f) = f[0] + f[1]
  BY <1>1, SumTwo
<1>4. f[0] + f[1] = f[1] + f[0]
  OBVIOUS
<1> QED BY <1>2, <1>3, <1>4, TotalIs

(* The jets of the logistic function have its values.                      *)
LEMMA LogisticJet ==
  ASSUME NEW z, z.v \in Int
  PROVE  /\ Logistic(z).v = LogisticValue(z.v) /\ Logistic(z).v \in Int
         /\ Binary(z, 1).v = LogisticValue(z.v) /\ Binary(z, 0).v = LogisticValue(-z.v)
<1>1. ASSUME NEW y, y.v \in Int PROVE Logistic(y).v = LogisticValue(y.v)
  <2> DEFINE e == ExpJet(Scale(-1, y))
             one == ConstJet(Variables(y), 1)
  <2>1. Scale(-1, y).v = -y.v /\ -y.v \in Int
    BY <1>1, JetSums
  <2>2. e.v = Exp(-y.v) /\ e.v \in Int /\ one.v = 1 /\ one.v \in Int
    BY <2>1, JetValues, ExpIs
  <2>3. Logistic(y) = ReciprocalJet(Plus(one, e))
    BY DEF Logistic
  <2> HIDE DEF e, one
  <2>4. Plus(one, e).v = one.v + e.v
    BY <2>2, JetSums
  <2> QED BY <2>2, <2>3, <2>4, JetValues DEF LogisticValue
<1>2. Scale(-1, z).v = -z.v /\ -z.v \in Int
  BY JetSums
<1>3. Binary(z, 1) = Logistic(z) /\ Binary(z, 0) = Logistic(Scale(-1, z))
  BY DEF Binary
<1> QED BY <1>1, <1>2, <1>3, LogisticInt

(* The probabilities of the two responses of a logistic model add up to 1. *)
LEMMA BinarySum ==
  ASSUME NEW z, z.v \in Int, \A k \in 0 .. 1 : ~Same(Binary(z, k).v, 0)
  PROVE  Total([k \in 0 .. 1 |-> Binary(z, k).v]) = 1
<1> DEFINE f == [k \in 0 .. 1 |-> Binary(z, k).v]
<1>1. f[0] = LogisticValue(-z.v) /\ f[1] = LogisticValue(z.v)
  BY LogisticJet
<1>2. ~Same(f[0], 0) /\ ~Same(f[1], 0)
  OBVIOUS
<1>3. f[0] \in Int /\ f[1] \in Int
  <2>1. -z.v \in Int
    OBVIOUS
  <2> QED BY <1>1, <2>1, LogisticInt
<1>4. DOMAIN f = 0 .. 1 /\ f = [x \in 0 .. 1 |-> f[x]]
  OBVIOUS
<1> HIDE DEF f
<1>5. Same(f[1] + f[0], 1)
  BY <1>1, <1>2, LogisticHalves
<1>6. Total(f) = 1
  BY <1>3, <1>4, <1>5, TotalOfTwo
<1> QED BY <1>6 DEF f

(* A probability and what is left of 1.                                    *)
LEMMA ComplementSum ==
  ASSUME NEW f, DOMAIN f = 0 .. 1, f = [x \in 0 .. 1 |-> f[x]],
         NEW p, p.v \in Int, f[1] = p.v, f[0] = OneMinus(p).v
  PROVE  Total(f) = 1
<1>1. f[0] = 1 - p.v
  BY JetSums
<1>2. f[0] \in Int /\ f[1] \in Int /\ f[1] + f[0] = 1
  BY <1>1
<1>3. Same(f[1] + f[0], 1)
  BY <1>2 DEF Same
<1> QED BY <1>2, <1>3, TotalOfTwo

-----------------------------------------------------------------------------
(* The predictors of the logistic models.                                  *)
LEMMA L1pZInt ==
  ASSUME NEW at, Numeric(at), Located(at), at.model.Np = 1 + at.model.Ncov
  PROVE  L1pZ(at).v \in Int
<1> DEFINE a == [i \in Dims(at) |-> Number(at, 1)]
           s == Projection(at, a)
           c == CovariateEffect(at, L1pCov)
           b == Param(at, L1pB)
<1>1. \A i \in 1 .. at.model.Ndims : a[i].v \in Int
  BY JetValues DEF Dims
<1>2. s.v \in Int
  <2> HIDE DEF a
  <2> QED BY <1>1, ProjectionInt
<1>3. at.model.Ncov \in Nat
  BY DEF Numeric
<1>4. c.v \in Int
  BY <1>3, CovariateEffectInt DEF L1pCov
<1>5. b.v \in Int
  BY <1>3, ParamInt DEF L1pB
<1>6. L1pZ(at) = Minus(Plus(s, c), b)
  BY DEF L1pZ
<1> HIDE DEF s, c, b
<1>7. Plus(s, c).v \in Int
  BY <1>2, <1>4, JetSums
<1> QED BY <1>5, <1>6, <1>7, JetSums

(* The predictor of the model with slopes.                                 *)
LEMMA L2pZInt ==
  ASSUME NEW at, Numeric(at), Located(at),
         at.model.Np = 1 + at.model.Ndims + at.model.Ncov
  PROVE  L2pZ(at).v \in Int
<1> DEFINE a == [i \in Dims(at) |-> Param(at, L2pA(i))]
           s == Projection(at, a)
           c == CovariateEffect(at, L2pCov(at.model))
           b == Param(at, L2pB)
<1>0. at.model.Ncov \in Nat /\ at.model.Ndims \in Nat
  BY DEF Numeric
<1>1. \A i \in 1 .. at.model.Ndims : a[i].v \in Int
  BY <1>0, ParamInt DEF Dims, L2pA
<1>2. s.v \in Int
  <2> HIDE DEF a
  <2> QED BY <1>1, ProjectionInt
<1>3. L2pCov(at.model) = 1 + at.model.Ndims
  BY <1>0 DEF L2pCov
<1>4. c.v \in Int
  BY <1>0, <1>3, CovariateEffectInt
<1>5. b.v \in Int
  BY <1>0, ParamInt DEF L2pB
<1>6. L2pZ(at) = Minus(Plus(s, c), b)
  BY DEF L2pZ
<1> HIDE DEF s, c, b
<1>7. Plus(s, c).v \in Int
  BY <1>2, <1>4, JetSums
<1> QED BY <1>5, <1>6, <1>7, JetSums

(* The predictor of the model with guessing.                               *)
LEMMA L3pZInt ==
  ASSUME NEW at, Numeric(at), Located(at),
         at.model.Np = 2 + at.model.Ndims + at.model.Ncov
  PROVE  L3pZ(at).v \in Int
<1> DEFINE a == [i \in Dims(at) |-> Param(at, L3pA(i))]
           s == Projection(at, a)
           c == CovariateEffect(at, L3pCov(at.model))
           b == Param(at, L3pB)
<1>0. at.model.Ncov \in Nat /\ at.model.Ndims \in Nat
  BY DEF Numeric
<1>1. \A i \in 1 .. at.model.Ndims : a[i].v \in Int
  BY <1>0, ParamInt DEF Dims, L3pA
<1>2. s.v \in Int
  <2> HIDE DEF a
  <2> QED BY <1>1, ProjectionInt
<1>3. L3pCov(at.model) = 2 + at.model.Ndims
  BY <1>0 DEF L3pCov
<1>4. c.v \in Int
  BY <1>0, <1>3, CovariateEffectInt
<1>5. b.v \in Int
  BY <1>0, ParamInt DEF L3pB
<1>6. L3pZ(at) = Minus(Plus(s, c), b)
  BY DEF L3pZ
<1> HIDE DEF s, c, b
<1>7. Plus(s, c).v \in Int
  BY <1>2, <1>4, JetSums
<1> QED BY <1>5, <1>6, <1>7, JetSums

(* The values of that model: its predictor, its guessing parameter and its *)
(* probability of response 1.                                              *)
LEMMA L3pXInt ==
  ASSUME NEW at, Numeric(at), Located(at),
         at.model.Np = 2 + at.model.Ndims + at.model.Ncov
  PROVE  LET c == Param(at, L3pC)
             x == Plus(c, Times(OneMinus(c), L3pPStar(at)))
         IN  /\ L3pZ(at).v \in Int
             /\ x.v \in Int /\ c.v \in Int
             /\ x.v = c.v + (1 - c.v) * LogisticValue(L3pZ(at).v)
             /\ L3pPStar(at).v = LogisticValue(L3pZ(at).v)
             /\ c.v = at.model.params[L3pC]
<1> DEFINE c == Param(at, L3pC)
           rest == Times(OneMinus(c), L3pPStar(at))
<1>1. at.model.Ncov \in Nat /\ at.model.Ndims \in Nat
  BY DEF Numeric
<1>2. c.v \in Int /\ c.v = at.model.params[L3pC]
  BY <1>1, ParamInt DEF L3pC
<1>3. L3pZ(at).v \in Int
  BY L3pZInt
<1>4. L3pPStar(at).v = LogisticValue(L3pZ(at).v) /\ L3pPStar(at).v \in Int
  BY <1>3, LogisticJet DEF L3pPStar
<1> HIDE DEF c
<1>5. rest.v = (1 - c.v) * LogisticValue(L3pZ(at).v) /\ rest.v \in Int
  BY <1>2, <1>4, JetSums, JetValues
<1> HIDE DEF rest
<1>6. Plus(c, rest).v = c.v + rest.v
  BY <1>2, <1>5, JetSums
<1>7. Plus(c, rest).v \in Int
  BY <1>2, <1>5, <1>6
<1> QED BY <1>2, <1>3, <1>4, <1>5, <1>6, <1>7 DEF c, rest

(* The probabilities of the model with guessing add up to 1 (l3p.c).       *)
LEMMA L3pSum ==
  ASSUME NEW at, Numeric(at), Located(at),
         at.model.Np = 2 + at.model.Ndims + at.model.Ncov
  PROVE  Total([k \in 0 .. 1 |-> L3pP(at, k).v]) = 1
<1> DEFINE f == [k \in 0 .. 1 |-> L3pP(at, k).v]
           c == Param(at, L3pC)
           x == Plus(c, Times(OneMinus(c), L3pPStar(at)))
<1>1. x.v \in Int
  BY L3pXInt
<1>2. f[1] = x.v /\ f[0] = OneMinus(x).v
  BY DEF L3pP
<1>3. DOMAIN f = 0 .. 1 /\ f = [k \in 0 .. 1 |-> f[k]]
  OBVIOUS
<1> HIDE DEF f, x
<1>4. Total(f) = 1
  BY <1>1, <1>2, <1>3, ComplementSum
<1> QED BY <1>4 DEF f

(* The probability of an answer and what is left of 1 add up to 1.         *)
LEMMA ResponseSum ==
  ASSUME NEW p, p.v \in Int
  PROVE  Total([k \in 0 .. 1 |-> Response(p, k).v]) = 1
<1> DEFINE f == [k \in 0 .. 1 |-> Response(p, k).v]
<1>1. f[1] = p.v /\ f[0] = OneMinus(p).v
  BY DEF Response
<1>2. DOMAIN f = 0 .. 1 /\ f = [k \in 0 .. 1 |-> f[k]]
  OBVIOUS
<1> HIDE DEF f
<1>3. Total(f) = 1
  BY <1>1, <1>2, ComplementSum
<1> QED BY <1>3 DEF f

(* The probabilities of the model Dina add up to 1 (dina.c).               *)
LEMMA DinaSum ==
  ASSUME NEW at, Numeric(at), at.model.Np = 2
  PROVE  Total([k \in 0 .. 1 |-> DinaP(at, k).v]) = 1
<1> DEFINE p == IF DinaPass(at) THEN OneMinus(Param(at, Slip)) ELSE Param(at, Guess)
<1>1. Param(at, Slip).v \in Int /\ Param(at, Guess).v \in Int
  BY ParamInt DEF Slip, Guess
<1>2. OneMinus(Param(at, Slip)).v \in Int
  BY <1>1, JetSums
<1>3. p.v \in Int
  BY <1>1, <1>2
<1>4. \A k : DinaP(at, k) = Response(p, k)
  BY DEF DinaP
<1> HIDE DEF p
<1> QED BY <1>3, <1>4, ResponseSum

(* The partial products of the model Nida.                                 *)
NidaSuccess(at, i) ==
  IF Masters(at, i) THEN OneMinus(Param(at, NidaSlip(at.model, i))) ELSE Param(at, NidaGuess(i))
(* g is the table of those products.                                       *)
IsProduct(g, at) ==
  g = [n \in 0 .. at.model.Ndims |->
         IF n = 0 THEN Number(at, 1) ELSE Times(g[n - 1], NidaSuccess(at, n))]

(* There is such a table: the recursive function of NidaP is one.          *)
LEMMA ProductExists ==
  ASSUME NEW at, at.model.Ndims \in Nat
  PROVE  \E g : IsProduct(g, at)
<1> DEFINE N == at.model.Ndims
           Value(g, n) == IF n = 0 THEN Number(at, 1) ELSE Times(g[n - 1], NidaSuccess(at, n))
           Found == {n \in Nat : \E g : /\ g = [k \in 0 .. N |-> g[k]]
                                        /\ \A k \in 0 .. N : k <= n => g[k] = Value(g, k)}
<1>1. 0 \in Found
  <2> DEFINE g == [k \in 0 .. N |-> Number(at, 1)]
  <2>1. g = [k \in 0 .. N |-> g[k]] /\ \A k \in 0 .. N : k <= 0 => g[k] = Value(g, k)
    OBVIOUS
  <2> HIDE DEF g
  <2> QED BY <2>1
<1>2. ASSUME NEW n \in Nat, n \in Found PROVE n + 1 \in Found
  <2>1. PICK g : g = [k \in 0 .. N |-> g[k]] /\ \A k \in 0 .. N : k <= n => g[k] = Value(g, k)
    BY <1>2
  <2> DEFINE h == [k \in 0 .. N |-> Value(g, k)]
  <2>2. ASSUME NEW k \in 0 .. N, k <= n + 1 PROVE h[k] = Value(h, k)
    <3>1. CASE k = 0
      BY <3>1
    <3>2. CASE k # 0
      <4>1. k - 1 \in 0 .. N /\ k - 1 <= n
        BY <2>2, <3>2
      <4>2. h[k - 1] = g[k - 1]
        BY <2>1, <4>1
      <4> QED BY <3>2, <4>2
    <3> QED BY <3>1, <3>2
  <2>3. h = [k \in 0 .. N |-> h[k]]
    OBVIOUS
  <2>4. n + 1 \in Nat
    OBVIOUS
  <2> HIDE DEF h, Value
  <2> QED BY <2>2, <2>3, <2>4
<1>3. N \in Found
  <2> HIDE DEF Found
  <2> QED BY <1>1, <1>2, Induction
<1>4. PICK g : g = [k \in 0 .. N |-> g[k]] /\ \A k \in 0 .. N : k <= N => g[k] = Value(g, k)
  BY <1>3
<1>5. g = [k \in 0 .. N |-> Value(g, k)]
  <2>1. \A k \in 0 .. N : g[k] = Value(g, k)
    BY <1>4
  <2> HIDE DEF Value
  <2> QED BY <1>4, <2>1
<1> QED BY <1>5 DEF IsProduct

(* The probabilities of the model Nida add up to 1 (nida.c).               *)
LEMMA NidaSum ==
  ASSUME NEW at, Numeric(at), at.model.Np = 2 * at.model.Ndims
  PROVE  Total([k \in 0 .. 1 |-> NidaP(at, k).v]) = 1
<1> DEFINE N == at.model.Ndims
           g == CHOOSE g : IsProduct(g, at)
<1>1. N \in Nat
  BY DEF Numeric
<1>2. IsProduct(g, at)
  BY <1>1, ProductExists
<1>3. \A k : NidaP(at, k) = Response(g[N], k)
  BY DEF NidaP, IsProduct, NidaSuccess
<1> HIDE DEF g
<1>4. ASSUME NEW n \in 1 .. N PROVE NidaSuccess(at, n).v \in Int
  <2>1. NidaSlip(at.model, n) \in 0 .. at.model.Np - 1 /\ NidaGuess(n) \in 0 .. at.model.Np - 1
    BY <1>1 DEF NidaSlip, NidaGuess
  <2>2. Param(at, NidaSlip(at.model, n)).v \in Int /\ Param(at, NidaGuess(n)).v \in Int
    BY <2>1, ParamInt
  <2>3. OneMinus(Param(at, NidaSlip(at.model, n))).v \in Int
    BY <2>2, JetSums
  <2> QED BY <2>2, <2>3 DEF NidaSuccess
<1> DEFINE All == {n \in Nat : n <= N => g[n].v \in Int}
<1>5. 0 \in All
  BY <1>1, <1>2, JetValues DEF IsProduct
<1>6. ASSUME NEW n \in Nat, n \in All PROVE n + 1 \in All
  <2>1. SUFFICES ASSUME n + 1 <= N PROVE g[n + 1].v \in Int
    OBVIOUS
  <2>2. g[n + 1] = Times(g[n], NidaSuccess(at, n + 1))
    BY <1>1, <1>2, <2>1 DEF IsProduct
  <2>3. g[n].v \in Int /\ NidaSuccess(at, n + 1).v \in Int
    BY <1>1, <1>4, <1>6, <2>1
  <2> QED BY <2>2, <2>3, JetValues
<1>7. g[N].v \in Int
  <2>1. N \in All
    <3> HIDE DEF All
    <3> QED BY <1>1, <1>5, <1>6, Induction
  <2> QED BY <1>1, <2>1
<1> QED BY <1>3, <1>7, ResponseSum

(* Softmax of predictors that are numbers.                                 *)
LEMMA SoftmaxSum ==
  ASSUME NEW at, at.model.Ncat \in Nat \ {0},
         NEW z, \A k \in 1 .. at.model.Ncat : z[k].v \in Int,
         ~Same(Softmax(at, 0, z).v, 0)
  PROVE  Total([k \in 0 .. at.model.Ncat |-> Softmax(at, k, z).v]) = 1
<1> DEFINE N == at.model.Ncat
           up == [k \in Categories(at) |-> ExpJet(z[k])]
           denom == SumFrom(Number(at, 1), up)
           h == [k \in 1 .. N |-> up[k].v]
           w == [k \in 0 .. N |-> IF k = 0 THEN 1 ELSE h[k]]
           D == denom.v
           r == Reciprocal(D)
           f == [k \in 0 .. N |-> Softmax(at, k, z).v]
<1>1. /\ N \in Nat /\ IsFiniteSet(0 .. N) /\ 0 \in 0 .. N /\ 0 .. N \ {0} = 1 .. N
      /\ IsFiniteSet(1 .. N)
  <2>1. N \in Nat /\ 0 \in 0 .. N /\ 0 .. N \ {0} = 1 .. N
    OBVIOUS
  <2>2. IsFiniteSet(0 .. N) /\ IsFiniteSet(1 .. N)
    BY <2>1, UptoFinite
  <2> QED BY <2>1, <2>2
<1>2. \A k \in 1 .. N : h[k] = Exp(z[k].v) /\ h[k] \in Int
  <2>1. \A k \in 1 .. N : h[k] = Exp(z[k].v)
    BY JetValues DEF Categories
  <2> QED BY <2>1, ExpIs
<1>3. D = 1 + Over(h, 1 .. N)
  <2>1. DOMAIN up = 1 .. N
    BY DEF Categories
  <2>2. Number(at, 1).v = 1
    BY JetValues
  <2> HIDE DEF up
  <2>3. D = Number(at, 1).v + Over([x \in DOMAIN up |-> up[x].v], DOMAIN up)
    BY SumFromValue
  <2> QED BY <2>1, <2>2, <2>3
<1>4. \A k \in 0 .. N : f[k] = w[k] * r
  <2>1. \A k \in 0 .. N :
           Softmax(at, k, z) =
             Times(IF k = 0 THEN Number(at, 1) ELSE ExpJet(z[k]), ReciprocalJet(denom))
    BY DEF Softmax
  <2>2. ReciprocalJet(denom).v = r
    BY JetValues
  <2>3. \A k \in 0 .. N : (IF k = 0 THEN Number(at, 1) ELSE ExpJet(z[k])).v = w[k]
    <3> HIDE DEF h
    <3>1. Number(at, 1).v = w[0]
      BY <1>1, JetValues
    <3>2. ASSUME NEW k \in 0 .. N, k # 0 PROVE ExpJet(z[k]).v = w[k]
      <4>1. k \in 1 .. N
        BY <1>1, <3>2
      <4> QED BY <1>2, <3>2, <4>1, JetValues
    <3> HIDE DEF w, N
    <3> QED BY <3>1, <3>2
  <2> HIDE DEF denom, r, w
  <2> QED BY <2>1, <2>2, <2>3, JetValues
<1>5. (\A k \in 0 .. N : w[k] \in Int) /\ w[0] = 1 /\ \A k \in 1 .. N : w[k] = h[k]
  <2> HIDE DEF h
  <2>1. \A k \in 0 .. N : k = 0 \/ k \in 1 .. N
    BY <1>1
  <2>2. \A k \in 1 .. N : k \in 0 .. N /\ k # 0
    BY <1>1
  <2> HIDE DEF N
  <2>3. w[0] = 1
    BY <1>1
  <2>4. \A k \in 1 .. N : w[k] = h[k]
    BY <2>2
  <2> QED BY <1>2, <2>1, <2>3, <2>4
<1>6. ~Same(f[0], 0)
  BY <1>1
<1>7. f = [k \in 0 .. N |-> f[k]] /\ DOMAIN f = 0 .. N
  OBVIOUS
<1> HIDE DEF f, w, h, D, r, N
<1>8. Over(h, 1 .. N) \in Int /\ Over(w, 1 .. N) = Over(h, 1 .. N)
  BY <1>1, <1>2, <1>5, SumInt, SumSame
<1>9. Over(w, 0 .. N) = D /\ D \in Int
  <2>1. Over(w, 0 .. N) = w[0] + Over(w, 0 .. N \ {0})
    BY <1>1, <1>5, SumTakes
  <2>2. Over(w, 0 .. N) = 1 + Over(h, 1 .. N)
    BY <1>1, <1>5, <1>8, <2>1
  <2>3. D = Over(w, 0 .. N)
    BY <1>3, <2>2
  <2>4. 1 + Over(h, 1 .. N) \in Int
    BY <1>8
  <2> QED BY <2>2, <2>3, <2>4
<1>10. r \in Int /\ Same(D * r, 1)
  <2>1. f[0] = r
    <3>1. r \in Int
      BY <1>9, ReciprocalIs DEF r
    <3> QED BY <1>1, <1>4, <1>5, <3>1
  <2> QED BY <1>6, <1>9, <2>1, ReciprocalIs DEF r
<1>11. Over(f, 0 .. N) = D * r
  <2>1. Over([k \in 0 .. N |-> w[k] * r], 0 .. N) = Over(w, 0 .. N) * r
    BY <1>1, <1>5, <1>10, SumScales
  <2>2. [k \in 0 .. N |-> w[k] * r] = f
    BY <1>4, <1>7
  <2> QED BY <1>9, <2>1, <2>2
<1>12. Total(f) = 1
  BY <1>1, <1>7, <1>10, <1>11, TotalIs
<1> QED BY <1>12 DEF f, N

(* The probabilities of the nominal model add up to 1 (nominal.c).         *)
LEMMA NominalSum ==
  ASSUME NEW at, Numeric(at), Located(at),
         at.model.Np = (at.model.Ndims + 1) * at.model.Ncat + at.model.Ncov,
         ~Same(NominalP(at, 0).v, 0)
  PROVE  Total([k \in 0 .. at.model.Ncat |-> NominalP(at, k).v]) = 1
<1> DEFINE M == at.model.Ndims
           N == at.model.Ncat
           C == at.model.Ncov
           z == [k \in Categories(at) |-> NominalZ(at, k)]
<1>1. M \in Nat /\ N \in Nat \ {0} /\ C \in Nat /\ at.model.Np = (M + 1) * N + C
  BY DEF Numeric
<1>2. ASSUME NEW k \in 1 .. N PROVE NominalZ(at, k).v \in Int
  <2> DEFINE a == [i \in Dims(at) |-> Param(at, NominalA(at, i, k))]
             s == Projection(at, a)
             b == Param(at, NominalB(k))
             c == CovariateEffect(at, NominalCov(at.model))
  <2>1. ASSUME NEW i \in 1 .. M PROVE NominalA(at, i, k) \in 0 .. at.model.Np - 1
    <3>1. i * N <= M * N /\ i * N \in Nat
      BY <1>1
    <3>2. NominalA(at, i, k) = i * N + k - 1
      BY DEF NominalA
    <3>3. at.model.Np = M * N + N + C /\ M * N \in Nat
      BY <1>1
    <3> QED BY <1>1, <3>1, <3>2, <3>3
  <2>2. \A i \in 1 .. M : a[i].v \in Int
    BY <2>1, ParamInt DEF Dims
  <2>3. s.v \in Int
    <3> HIDE DEF a
    <3> QED BY <2>2, ProjectionInt
  <2>4. M * N \in Nat /\ (M + 1) * N = M * N + N /\ (M + 1) * N \in Nat
    BY <1>1
  <2>5. NominalCov(at.model) = (M + 1) * N
    BY <1>1, <2>4 DEF NominalCov
  <2>6. c.v \in Int
    BY <1>1, <2>4, <2>5, CovariateEffectInt
  <2>7. b.v \in Int
    <3>1. NominalB(k) \in 0 .. at.model.Np - 1
      BY <1>1, <2>4 DEF NominalB
    <3> QED BY <3>1, ParamInt
  <2>8. NominalZ(at, k) = Plus(Minus(s, b), c)
    BY DEF NominalZ
  <2> HIDE DEF s, b, c
  <2>9. Minus(s, b).v \in Int
    BY <2>3, <2>7, JetSums
  <2>10. Plus(Minus(s, b), c).v = Minus(s, b).v + c.v
    BY <2>6, <2>9, JetSums
  <2> QED BY <2>6, <2>8, <2>9, <2>10
<1>3. \A k \in 1 .. N : z[k].v \in Int
  BY <1>2 DEF Categories
<1>4. \A k : NominalP(at, k) = Softmax(at, k, z)
  BY DEF NominalP
<1>5. ~Same(Softmax(at, 0, z).v, 0)
  BY <1>4
<1> HIDE DEF z
<1>6. Total([k \in 0 .. N |-> Softmax(at, k, z).v]) = 1
  BY <1>1, <1>3, <1>5, SoftmaxSum
<1> QED BY <1>4, <1>6

(* The predictors of the models of adjacent categories and of the graded   *)
(* one.                                                                    *)
LEMMA StepZInt ==
  ASSUME NEW at, Numeric(at), NEW slope, slope.v \in Int, NEW k \in 1 .. at.model.Ncat,
         NEW first \in Nat, at.model.Ncat <= first, first + at.model.Ncov <= at.model.Np
  PROVE  /\ StepZ(at, k, slope, first).v \in Int
         /\ Plus(Minus(slope, Param(at, StepB(k))), CovariateEffect(at, first)).v \in Int
<1> DEFINE b == Param(at, StepB(k))
           c == CovariateEffect(at, first)
           j == Number(at, at.junk)
           y == Plus(Minus(slope, b), c)
<1>1. b.v \in Int
  <2>1. StepB(k) \in 0 .. at.model.Np - 1
    BY DEF StepB, Numeric
  <2> QED BY <2>1, ParamInt
<1>2. c.v \in Int
  BY CovariateEffectInt
<1>3. j.v \in Int
  BY JetValues DEF Numeric
<1>4. StepZ(at, k, slope, first) = Plus(y, j)
  BY DEF StepZ
<1> HIDE DEF b, c, j
<1>5. Minus(slope, b).v \in Int
  BY <1>1, JetSums
<1>6. Plus(Minus(slope, b), c).v = Minus(slope, b).v + c.v
  BY <1>2, <1>5, JetSums
<1>7. y.v \in Int
  BY <1>2, <1>5, <1>6
<1> HIDE DEF y
<1>8. Plus(y, j).v = y.v + j.v
  BY <1>3, <1>7, JetSums
<1> QED BY <1>3, <1>4, <1>7, <1>8 DEF y, b, c

(* The combinations of the coordinates, with equal and with own slopes,    *)
(* are numbers.                                                            *)
LEMMA StepSlopeInt ==
  ASSUME NEW at, Numeric(at), Located(at)
  PROVE  /\ Projection(at, [i \in Dims(at) |-> Number(at, 1)]).v \in Int
         /\ at.model.Np = at.model.Ncat + at.model.Ndims + at.model.Ncov
              => Projection(at, [i \in Dims(at) |-> Param(at, GpcA(at.model, i))]).v \in Int
<1> DEFINE ones == [i \in Dims(at) |-> Number(at, 1)]
           a == [i \in Dims(at) |-> Param(at, GpcA(at.model, i))]
<1>1. \A i \in 1 .. at.model.Ndims : ones[i].v \in Int
  BY JetValues DEF Dims
<1>2. ASSUME at.model.Np = at.model.Ncat + at.model.Ndims + at.model.Ncov,
             NEW i \in 1 .. at.model.Ndims
      PROVE  a[i].v \in Int
  <2>1. GpcA(at.model, i) \in 0 .. at.model.Np - 1
    BY <1>2 DEF GpcA, Numeric
  <2> QED BY <2>1, ParamInt DEF Dims
<1> HIDE DEF ones, a
<1>3. Projection(at, ones).v \in Int
  BY <1>1, ProjectionInt
<1>4. ASSUME at.model.Np = at.model.Ncat + at.model.Ndims + at.model.Ncov
      PROVE  Projection(at, a).v \in Int
  BY <1>2, <1>4, ProjectionInt
<1> QED BY <1>3, <1>4 DEF ones, a

(* The probabilities of the partial credit model add up to 1 (pc.c).       *)
LEMMA PcSum ==
  ASSUME NEW at, Numeric(at), Located(at), at.model.Np = at.model.Ncat + at.model.Ncov,
         ~Same(PcP(at, 0).v, 0)
  PROVE  Total([k \in 0 .. at.model.Ncat |-> PcP(at, k).v]) = 1
<1> DEFINE slope == Projection(at, [i \in Dims(at) |-> Number(at, 1)])
           z == [k \in Categories(at) |-> StepZ(at, k, slope, PcCov(at.model))]
<1>1. at.model.Ncat \in Nat \ {0} /\ at.model.Ncov \in Nat /\ PcCov(at.model) = at.model.Ncat
  BY DEF Numeric, PcCov
<1>2. slope.v \in Int
  BY StepSlopeInt
<1>3. \A k : PcP(at, k) = Softmax(at, k, z)
  BY DEF PcP
<1>4. \A k \in 1 .. at.model.Ncat : z[k] = StepZ(at, k, slope, at.model.Ncat)
  BY <1>1 DEF Categories
<1> HIDE DEF slope, z
<1>5. \A k \in 1 .. at.model.Ncat : z[k].v \in Int
  BY <1>1, <1>2, <1>4, StepZInt
<1>6. ~Same(Softmax(at, 0, z).v, 0)
  BY <1>3
<1>7. Total([k \in 0 .. at.model.Ncat |-> Softmax(at, k, z).v]) = 1
  BY <1>1, <1>5, <1>6, SoftmaxSum
<1> QED BY <1>3, <1>7

(* So do those of the generalized one (gpc.c).                             *)
LEMMA GpcSum ==
  ASSUME NEW at, Numeric(at), Located(at),
         at.model.Np = at.model.Ncat + at.model.Ndims + at.model.Ncov,
         ~Same(GpcP(at, 0).v, 0)
  PROVE  Total([k \in 0 .. at.model.Ncat |-> GpcP(at, k).v]) = 1
<1> DEFINE slope == Projection(at, [i \in Dims(at) |-> Param(at, GpcA(at.model, i))])
           first == at.model.Ncat + at.model.Ndims
           z == [k \in Categories(at) |-> StepZ(at, k, slope, GpcCov(at.model))]
<1>1. /\ at.model.Ncat \in Nat \ {0} /\ at.model.Ncov \in Nat /\ GpcCov(at.model) = first
      /\ first \in Nat /\ at.model.Ncat <= first /\ first + at.model.Ncov <= at.model.Np
  BY DEF Numeric, GpcCov
<1>2. slope.v \in Int
  BY StepSlopeInt
<1>3. \A k : GpcP(at, k) = Softmax(at, k, z)
  BY DEF GpcP
<1>4. \A k \in 1 .. at.model.Ncat : z[k] = StepZ(at, k, slope, first)
  BY <1>1 DEF Categories
<1> HIDE DEF slope, z, first
<1>5. \A k \in 1 .. at.model.Ncat : z[k].v \in Int
  BY <1>1, <1>2, <1>4, StepZInt
<1>6. ~Same(Softmax(at, 0, z).v, 0)
  BY <1>3
<1>7. Total([k \in 0 .. at.model.Ncat |-> Softmax(at, k, z).v]) = 1
  BY <1>1, <1>5, <1>6, SoftmaxSum
<1> QED BY <1>3, <1>7

(* The probabilities of the graded response model, differences of          *)
(* consecutive cumulative ones, add up to 1 (gr.c).                        *)
LEMMA GrSum ==
  ASSUME NEW at, Numeric(at), Located(at),
         at.model.Np = at.model.Ncat + at.model.Ndims + at.model.Ncov
  PROVE  Total([k \in 0 .. at.model.Ncat |-> GrP(at, k).v]) = 1
<1> DEFINE N == at.model.Ncat
           slope == Projection(at, [i \in Dims(at) |-> Param(at, GpcA(at.model, i))])
           first == N + at.model.Ndims
           jet(k) == CASE k = 0 -> Number(at, 1) [] k > N -> Number(at, 0)
                       [] OTHER -> GrPStar(at, k)
           star == [k \in 0 .. N + 1 |-> jet(k).v]
           f == [k \in 0 .. N |-> GrP(at, k).v]
<1>1. /\ N \in Nat /\ N # 0 /\ at.model.Ncov \in Nat /\ GrCov(at.model) = first
      /\ first \in Nat /\ N <= first /\ first + at.model.Ncov <= at.model.Np
  BY DEF Numeric, GpcCov, GrCov
<1>2. slope.v \in Int
  BY StepSlopeInt
<1>3. \A k : GrPStar(at, k) =
               Logistic(Plus(Minus(slope, Param(at, StepB(k))), CovariateEffect(at, first)))
  BY <1>1 DEF GrPStar, GrA
<1>4. \A k \in 1 .. N : GrPStar(at, k).v \in Int
  <2> HIDE DEF slope, first
  <2> QED BY <1>1, <1>2, <1>3, StepZInt, LogisticJet
<1> HIDE DEF slope, first
<1>5. \A k \in 0 .. N + 1 : jet(k).v \in Int
  BY <1>1, <1>4, JetValues
<1>6. \A k \in 0 .. N : GrP(at, k) = Minus(jet(k), jet(k + 1))
  <2>1. ASSUME NEW k \in 0 .. N
        PROVE  /\ jet(k) = IF k = 0 THEN Number(at, 1) ELSE GrPStar(at, k)
               /\ jet(k + 1) = IF k = N THEN Number(at, 0) ELSE GrPStar(at, k + 1)
    BY <1>1
  <2> HIDE DEF jet
  <2> QED BY <2>1 DEF GrP
<1>7. star[0] = 1 /\ star[N + 1] = 0
  BY <1>1, JetValues
<1>8. \A k \in 0 .. N + 1 : star[k] = jet(k).v
  OBVIOUS
<1>9. \A k \in 0 .. N : k \in 0 .. N + 1 /\ k + 1 \in 0 .. N + 1
  BY <1>1
<1> HIDE DEF jet, star
<1>10. \A k \in 0 .. N : f[k] = star[k] - star[k + 1]
  <2> TAKE k \in 0 .. N
  <2>1. Minus(jet(k), jet(k + 1)).v = jet(k).v - jet(k + 1).v
    BY <1>5, <1>9, JetSums
  <2>2. f[k] = Minus(jet(k), jet(k + 1)).v
    BY <1>6
  <2> QED BY <1>8, <1>9, <2>1, <2>2
<1>11. \A k \in 0 .. N + 1 : star[k] \in Int
  BY <1>5, <1>8
<1>12. f = [k \in 0 .. N |-> f[k]] /\ DOMAIN f = 0 .. N /\ IsFiniteSet(0 .. N)
  BY <1>1, UptoFinite
<1> HIDE DEF f, N
<1>13. Over(f, 0 .. N) = 1
  <2>1. Over(f, 0 .. N) = star[0] - star[N + 1]
    BY <1>1, <1>10, <1>11, SumTelescopes
  <2> QED BY <1>7, <2>1
<1>14. Same(Over(f, 0 .. N), 1)
  BY <1>13 DEF Same
<1>15. Total(f) = 1
  BY <1>12, <1>14, TotalIs
<1> QED BY <1>15 DEF f, N

-----------------------------------------------------------------------------
(* What a model keeps of the type it requires is in the space.             *)
LEMMA DimsLocated ==
  ASSUME NEW D, NEW requested \in Seq(D), DimType(requested) = "cont",
         NEW i \in 1 .. Len(KeptDims(requested))
  PROVE  <<"cont", shortDim(KeptDims(requested)[i])>> \in Space
<1> DEFINE kept == KeptDims(requested)
<1>1. CASE requested = <<>>
  <2>1. DefaultType = "cont" /\ kept = <<<<"cont", 0>>>>
    BY <1>1, KeptDimsAre DEF DimType
  <2>2. i = 1
    BY <2>1
  <2>3. shortDim(kept[i]) = 0
    BY <2>1, <2>2 DEF shortDim
  <2>4. PICK e \in Space : DimTypeOf(e) = "cont"
    BY <2>1 DEF DefaultType, SpaceDims
  <2>5. <<DimTypeOf(e), 0>> \in Space
    BY SpaceAssumption
  <2> QED BY <2>3, <2>4, <2>5
<1>2. CASE requested # <<>>
  <2>1. (\A k \in DOMAIN kept : DimTypeOf(kept[k]) = "cont")
    BY <1>2 DEF DimType, NoType
  <2>2. CASE kept = <<<<NoType, 0>>>>
    <3>1. 1 \in DOMAIN kept /\ DimTypeOf(kept[1]) = NoType
      BY <2>2 DEF DimTypeOf
    <3> QED BY <2>1, <3>1 DEF NoType
  <2>3. CASE kept \in Seq(Space)
    <3>1. kept[i] \in Space /\ i \in DOMAIN kept
      BY <2>3
    <3>2. kept[i] = <<DimTypeOf(kept[i]), shortDim(kept[i])>>
      BY <3>1, SpaceAssumption
    <3>3. DimTypeOf(kept[i]) = "cont"
      BY <2>1, <3>1
    <3> QED BY <3>1, <3>2, <3>3
  <2> QED BY <1>2, <2>2, <2>3, KeptDimsAre
<1> QED BY <1>1, <1>2

(* The number of parameters of a model with dimensions.                    *)
SizeOf(m) ==
  CASE m.kind = "l1p" -> 1 + m.Ncov
    [] m.kind = "l2p" -> 1 + m.Ndims + m.Ncov
    [] m.kind = "l3p" -> 2 + m.Ndims + m.Ncov
    [] m.kind = "nominal" -> (m.Ndims + 1) * m.Ncat + m.Ncov
    [] m.kind = "pc" -> m.Ncat + m.Ncov
    [] m.kind \in {"gpc", "gr"} -> m.Ncat + m.Ndims + m.Ncov
    [] m.kind = "dina" -> 2
    [] m.kind = "nida" -> 2 * m.Ndims

(* A model of which every number that a probability reads is there.        *)
Usable(m) ==
  /\ m.kind \in ContinuousKinds \cup BinaryKinds
  /\ m.Ndims \in Nat /\ m.Ncov \in Nat /\ m.Ncat \in Nat \ {0} /\ m.Np \in Nat
  /\ m.Np = SizeOf(m)
  /\ m.params \in [0 .. m.Np - 1 -> Int]
  /\ m.kind \in ContinuousKinds =>
        \A i \in 1 .. m.Ndims : <<"cont", shortDim(m.dims[i])>> \in Space
  /\ \A s \in Situations, j \in 1 .. m.Ncov : s.cov[m.covariates[j]] \in Int

(* The invariant: a model with dimensions is usable, and only such a model *)
(* is calibrated.                                                          *)
NumbersInv ==
  /\ NamesInv
  /\ model.Ndims > 0 => Usable(model)
  /\ calibrated => model.Ndims > 0

(* A model that is left with dimensions has the type that it requires, and *)
(* is otherwise as it was made.                                            *)
LEMMA RestrictedIs ==
  ASSUME NEW base, NEW Np, NEW L, NEW type,
         NEW m, m = Restricted(WithParams(base, Np, L), type), m.Ndims > 0
  PROVE  /\ base.dimType = type
         /\ m.kind = base.kind /\ m.dims = base.dims /\ m.Ndims = base.Ndims
         /\ m.covariates = base.covariates /\ m.Ncov = base.Ncov /\ m.Ncat = base.Ncat
         /\ m.Np = Np
<1> DEFINE w == WithParams(base, Np, L)
<1>1. /\ w.dimType = base.dimType
      /\ w.kind = base.kind /\ w.dims = base.dims /\ w.Ndims = base.Ndims
      /\ w.covariates = base.covariates /\ w.Ncov = base.Ncov /\ w.Ncat = base.Ncat
      /\ w.Np = Np /\ "Ndims" \in DOMAIN w
  BY DEF WithParams
<1> HIDE DEF w
<1>2. CASE w.dimType = type
  BY <1>1, <1>2 DEF Restricted, w
<1>3. CASE w.dimType # type
  <2>1. m = [w EXCEPT !.Ndims = 0]
    BY <1>3 DEF Restricted, w
  <2> QED BY <1>1, <2>1
<1> QED BY <1>2, <1>3

(* A constructor allots the number of parameters of its kind.              *)
LEMMA ConstructedSize ==
  ASSUME NEW kind \in ContinuousKinds \cup BinaryKinds, NEW base, base.kind = kind,
         NEW m, m = Construct(kind, base), m.Ndims > 0
  PROVE  /\ m.kind = base.kind /\ m.dims = base.dims /\ m.Ndims = base.Ndims
         /\ m.covariates = base.covariates /\ m.Ncov = base.Ncov /\ m.Ncat = base.Ncat
         /\ m.Np = SizeOf(m)
         /\ kind \in ContinuousKinds => base.dimType = "cont"
<1> DEFINE Goal == /\ m.kind = base.kind /\ m.dims = base.dims /\ m.Ndims = base.Ndims
                   /\ m.covariates = base.covariates /\ m.Ncov = base.Ncov /\ m.Ncat = base.Ncat
                   /\ m.Np = SizeOf(m)
                   /\ kind \in ContinuousKinds => base.dimType = "cont"
<1>1. CASE kind = "l1p"
  <2>1. m = L1pNew(base)
    BY <1>1 DEF Construct
  <2> QED BY <1>1, <2>1, RestrictedIs DEF L1pNew, SizeOf
<1>2. CASE kind = "l2p"
  <2>1. m = L2pNew(base)
    BY <1>2 DEF Construct
  <2> QED BY <1>2, <2>1, RestrictedIs DEF L2pNew, SizeOf
<1>3. CASE kind = "l3p"
  <2>1. m = L3pNew(base)
    BY <1>3 DEF Construct
  <2> QED BY <1>3, <2>1, RestrictedIs DEF L3pNew, SizeOf
<1>4. CASE kind = "nominal"
  <2>1. m = NominalNew(base)
    BY <1>4 DEF Construct
  <2> QED BY <1>4, <2>1, RestrictedIs DEF NominalNew, SizeOf
<1>5. CASE kind = "pc"
  <2>1. m = PcNew(base)
    BY <1>5 DEF Construct
  <2> QED BY <1>5, <2>1, RestrictedIs DEF PcNew, SizeOf
<1>6. CASE kind = "gpc"
  <2>1. m = GpcNew(base)
    BY <1>6 DEF Construct
  <2> QED BY <1>6, <2>1, RestrictedIs DEF GpcNew, SizeOf
<1>7. CASE kind = "gr"
  <2>1. m = GpcNew(base)
    BY <1>7 DEF Construct, GrNew
  <2> QED BY <1>7, <2>1, RestrictedIs DEF GpcNew, SizeOf
<1>8. CASE kind = "dina"
  <2>1. m = DinaNew(base)
    BY <1>8 DEF Construct
  <2> QED BY <1>8, <2>1, RestrictedIs DEF DinaNew, SizeOf, ContinuousKinds
<1>9. CASE kind = "nida"
  <2>1. m = NidaNew(base)
    BY <1>9 DEF Construct
  <2> QED BY <1>9, <2>1, RestrictedIs DEF NidaNew, SizeOf, ContinuousKinds
<1> QED BY <1>1, <1>2, <1>3, <1>4, <1>5, <1>6, <1>7, <1>8, <1>9
        DEF ContinuousKinds, BinaryKinds

(* No model has been made at first.                                        *)
LEMMA NumbersInit == IrtInit => NumbersInv
  BY NamesInit DEF IrtInit, NumbersInv, Unmade

(* A model that is made is usable, unless it has no dimension.             *)
LEMMA NewNumbers ==
  ASSUME NumbersInv,
         NEW kind \in ContinuousKinds \cup BinaryKinds,
         NEW requested \in Requests, NEW covariates \in CovariateLists, NEW Ncat \in Ncats,
         New(kind, requested, covariates, Ncat)
  PROVE  NumbersInv'
<1> DEFINE covs == IF kind \in BinaryKinds THEN <<>> ELSE covariates
           base == BaseModel(kind, requested, covs, Ncat)
           m == model'
<1>1. /\ requested \in Seq(Range(requested)) /\ covariates \in Seq(Range(covariates))
      /\ Ncat \in Nat \ {0}
  BY CallerAssumption
<1>2. NamesInv'
  BY NewNames
<1>3. ~calibrated'
  BY DEF New, NumbersInv, Unmade
<1>4. m = Construct(kind, base)
  BY DEF New
<1>5. /\ base.kind = kind /\ base.dims = KeptDims(requested)
      /\ base.Ndims = Len(KeptDims(requested)) /\ base.dimType = DimType(requested)
      /\ base.covariates = covs /\ base.Ncov = Len(covs) /\ base.Ncat = Ncat
  BY DEF BaseModel
<1>6. Len(KeptDims(requested)) \in Nat
  BY <1>1, KeptDimsAre
<1>7. Len(covs) \in Nat /\ \A s \in Situations, j \in 1 .. Len(covs) : s.cov[covs[j]] \in Int
  <2>1. CASE kind \in BinaryKinds
    BY <2>1
  <2>2. CASE kind \notin BinaryKinds
    <3>1. covs = covariates /\ DOMAIN covariates = 1 .. Len(covariates)
      BY <1>1, <2>2
    <3>2. Len(covariates) \in Nat
      BY <1>1
    <3> HIDE DEF covs
    <3> QED BY <3>1, <3>2, SituationsAssumption
  <2> QED BY <2>1, <2>2
<1> HIDE DEF base, covs, m
<1>8. ASSUME m.Ndims > 0 PROVE Usable(m)
  <2>1. /\ m.kind = kind /\ m.dims = base.dims /\ m.Ndims = base.Ndims
        /\ m.covariates = covs /\ m.Ncov = base.Ncov /\ m.Ncat = Ncat
        /\ m.Np = SizeOf(m)
        /\ kind \in ContinuousKinds => base.dimType = "cont"
    BY <1>4, <1>5, <1>8, ConstructedSize
  <2>2. m.Np \in Nat /\ m.params \in [0 .. m.Np - 1 -> Int]
    <3>1. m # Unmade
      BY <1>8 DEF Unmade
    <3> QED BY <1>2, <3>1 DEF NamesInv, Named, m
  <2>3. ASSUME kind \in ContinuousKinds
        PROVE  \A i \in 1 .. m.Ndims : <<"cont", shortDim(m.dims[i])>> \in Space
    BY <1>1, <1>5, <2>1, <2>3, DimsLocated
  <2>4. \A s \in Situations, j \in 1 .. m.Ncov : s.cov[m.covariates[j]] \in Int
    BY <1>5, <1>7, <2>1
  <2> QED BY <1>1, <1>5, <1>6, <1>7, <2>1, <2>2, <2>3, <2>4 DEF Usable
<1> QED BY <1>2, <1>3, <1>8 DEF NumbersInv, m

(* Setting the parameters of a model leaves it usable.                     *)
LEMMA CalibrateNumbers ==
  ASSUME NumbersInv, NEW seed \in Seeds, Calibrate(seed)
  PROVE  NumbersInv'
<1>1. NamesInv' /\ SameShape(model', model)
  BY CalibrateNames DEF NumbersInv
<1>2. model.Ndims > 0 /\ Usable(model)
  BY DEF Calibrate, NumbersInv
<1>3. SizeOf(model') = SizeOf(model)
  BY <1>1 DEF SizeOf, SameShape
<1>4. Usable(model')
  BY <1>1, <1>2, <1>3 DEF Usable, SameShape
<1>5. model'.Ndims > 0
  BY <1>1, <1>2 DEF SameShape
<1> QED BY <1>1, <1>4, <1>5 DEF NumbersInv

(* No step disturbs the numbers.                                           *)
LEMMA NumbersStep ==
  ASSUME NumbersInv, [IrtNext]_irtVars
  PROVE  NumbersInv'
<1>1. ASSUME NEW kind \in ContinuousKinds \cup BinaryKinds,
             NEW requested \in Requests, NEW covariates \in CovariateLists, NEW Ncat \in Ncats,
             New(kind, requested, covariates, Ncat)
      PROVE  NumbersInv'
  BY <1>1, NewNumbers
<1>2. ASSUME NEW seed \in Seeds, Calibrate(seed) PROVE NumbersInv'
  BY <1>2, CalibrateNumbers
<1>3. ASSUME UNCHANGED <<model, calibrated>> PROVE NumbersInv'
  BY <1>3 DEF NumbersInv, NamesInv
<1>4. ASSUME NEW at, NEW resp, AddDtheta(at, resp) PROVE UNCHANGED <<model, calibrated>>
  BY <1>4 DEF AddDtheta
<1>5. ASSUME NEW at, NEW resp, AddDparam(at, resp) PROVE UNCHANGED <<model, calibrated>>
  BY <1>5 DEF AddDparam
<1>6. ASSUME NEW at, AddInformation(at) PROVE UNCHANGED <<model, calibrated>>
  BY <1>6 DEF AddInformation
<1>7. ASSUME UNCHANGED irtVars PROVE UNCHANGED <<model, calibrated>>
  BY <1>7 DEF irtVars
<1> QED BY <1>1, <1>2, <1>3, <1>4, <1>5, <1>6, <1>7 DEF IrtNext

(* The model is usable in every reachable state.                           *)
LEMMA NumbersAlways == IrtSpec => []NumbersInv
<1>1. IrtInit => NumbersInv
  BY NumbersInit
<1>2. NumbersInv /\ [IrtNext]_irtVars => NumbersInv'
  BY NumbersStep
<1> QED BY <1>1, <1>2, PTL DEF IrtSpec

(* What a probability reads at a point of a usable model.                  *)
LEMMA PointNumeric ==
  ASSUME NEW m, Usable(m), NEW at \in Points(m)
  PROVE  /\ at.model = m /\ Numeric(at)
         /\ m.kind \in ContinuousKinds => Located(at)
         /\ \A k \in Responses(m) : ~Same(P(at, k).v, 0)
         /\ m.kind = "l3p" => ~Same(L3pPStar(at).v, 0)
<1>1. PICK s \in Situations, junk \in JunkOf(m) :
         at = AtPoint(m, s.theta, s.cov, junk, "none") /\ Possible(at)
  BY DEF Points
<1>2. /\ at.model = m /\ at.variables = "none" /\ at.junk = junk
      /\ at.theta = s.theta /\ at.cov = s.cov
  BY <1>1 DEF AtPoint
<1>3. junk \in Int
  BY SituationsAssumption DEF JunkOf
<1>4. \A j \in 1 .. m.Ncov : CovValue(at, j) \in Int
  BY <1>2 DEF CovValue, Usable
<1>5. Numeric(at)
  BY <1>2, <1>3, <1>4 DEF Numeric, Usable
<1>6. ASSUME m.kind \in ContinuousKinds PROVE Located(at)
  BY <1>2, <1>6, SituationsAssumption DEF Located, ThetaValue, Usable
<1>7. \A x : x % Prime # 0 => ~Same(x, 0)
  BY ZeroOne DEF Same, ZeroIs
<1> QED BY <1>1, <1>2, <1>5, <1>6, <1>7 DEF Possible

(* At every point of a usable model the probabilities add up to 1.         *)
LEMMA PointSum ==
  ASSUME NEW m, Usable(m), NEW at \in Points(m)
  PROVE  Total([k \in Responses(m) |-> P(at, k).v]) = 1
<1>1. /\ at.model = m /\ Numeric(at)
      /\ m.kind \in ContinuousKinds => Located(at)
      /\ \A k \in Responses(m) : ~Same(P(at, k).v, 0)
  BY PointNumeric
<1>2. m.Np = SizeOf(m) /\ m.kind \in ContinuousKinds \cup BinaryKinds /\ m.Ncat \in Nat \ {0}
  BY DEF Usable
<1>3. CASE m.kind = "l1p"
  <2>1. Responses(m) = 0 .. 1 /\ Located(at) /\ m.Np = 1 + m.Ncov
    BY <1>1, <1>2, <1>3 DEF Responses, get_max, DichotomousMax, ContinuousKinds, SizeOf
  <2>2. \A k : P(at, k) = Binary(L1pZ(at), k)
    BY <1>1, <1>3 DEF P, L1pP
  <2>3. L1pZ(at).v \in Int
    BY <1>1, <2>1, L1pZInt
  <2>4. Total([k \in 0 .. 1 |-> Binary(L1pZ(at), k).v]) = 1
    BY <1>1, <2>1, <2>2, <2>3, BinarySum
  <2> QED BY <2>1, <2>2, <2>4
<1>4. CASE m.kind = "l2p"
  <2>1. Responses(m) = 0 .. 1 /\ Located(at) /\ m.Np = 1 + m.Ndims + m.Ncov
    BY <1>1, <1>2, <1>4 DEF Responses, get_max, DichotomousMax, ContinuousKinds, SizeOf
  <2>2. \A k : P(at, k) = Binary(L2pZ(at), k)
    BY <1>1, <1>4 DEF P, L2pP
  <2>3. L2pZ(at).v \in Int
    BY <1>1, <2>1, L2pZInt
  <2>4. Total([k \in 0 .. 1 |-> Binary(L2pZ(at), k).v]) = 1
    BY <1>1, <2>1, <2>2, <2>3, BinarySum
  <2> QED BY <2>1, <2>2, <2>4
<1>5. CASE m.kind = "l3p"
  <2>1. Responses(m) = 0 .. 1 /\ Located(at) /\ m.Np = 2 + m.Ndims + m.Ncov
    BY <1>1, <1>2, <1>5 DEF Responses, get_max, DichotomousMax, ContinuousKinds, SizeOf
  <2>2. \A k : P(at, k) = L3pP(at, k)
    BY <1>1, <1>5 DEF P
  <2>3. Total([k \in 0 .. 1 |-> L3pP(at, k).v]) = 1
    BY <1>1, <2>1, L3pSum
  <2> QED BY <2>1, <2>2, <2>3
<1>6. CASE m.kind = "nominal"
  <2>1. /\ Responses(m) = 0 .. m.Ncat /\ Located(at) /\ 0 \in Responses(m)
        /\ m.Np = (m.Ndims + 1) * m.Ncat + m.Ncov
    BY <1>1, <1>2, <1>6 DEF Responses, get_max, PolytomousMax, ContinuousKinds, SizeOf
  <2>2. \A k : P(at, k) = NominalP(at, k)
    BY <1>1, <1>6 DEF P
  <2>3. Total([k \in 0 .. m.Ncat |-> NominalP(at, k).v]) = 1
    BY <1>1, <2>1, <2>2, NominalSum
  <2> QED BY <2>1, <2>2, <2>3
<1>7. CASE m.kind = "pc"
  <2>1. /\ Responses(m) = 0 .. m.Ncat /\ Located(at) /\ 0 \in Responses(m)
        /\ m.Np = m.Ncat + m.Ncov
    BY <1>1, <1>2, <1>7 DEF Responses, get_max, PolytomousMax, ContinuousKinds, SizeOf
  <2>2. \A k : P(at, k) = PcP(at, k)
    BY <1>1, <1>7 DEF P
  <2>3. Total([k \in 0 .. m.Ncat |-> PcP(at, k).v]) = 1
    BY <1>1, <2>1, <2>2, PcSum
  <2> QED BY <2>1, <2>2, <2>3
<1>8. CASE m.kind = "gpc"
  <2>1. /\ Responses(m) = 0 .. m.Ncat /\ Located(at) /\ 0 \in Responses(m)
        /\ m.Np = m.Ncat + m.Ndims + m.Ncov
    BY <1>1, <1>2, <1>8 DEF Responses, get_max, PolytomousMax, ContinuousKinds, SizeOf
  <2>2. \A k : P(at, k) = GpcP(at, k)
    BY <1>1, <1>8 DEF P
  <2>3. Total([k \in 0 .. m.Ncat |-> GpcP(at, k).v]) = 1
    BY <1>1, <2>1, <2>2, GpcSum
  <2> QED BY <2>1, <2>2, <2>3
<1>9. CASE m.kind = "gr"
  <2>1. /\ Responses(m) = 0 .. m.Ncat /\ Located(at)
        /\ m.Np = m.Ncat + m.Ndims + m.Ncov
    BY <1>1, <1>2, <1>9 DEF Responses, get_max, PolytomousMax, ContinuousKinds, SizeOf
  <2>2. \A k : P(at, k) = GrP(at, k)
    BY <1>1, <1>9 DEF P
  <2>3. Total([k \in 0 .. m.Ncat |-> GrP(at, k).v]) = 1
    BY <1>1, <2>1, GrSum
  <2> QED BY <2>1, <2>2, <2>3
<1>10. CASE m.kind = "dina"
  <2>1. Responses(m) = 0 .. 1 /\ m.Np = 2
    BY <1>2, <1>10 DEF Responses, get_max, DichotomousMax, SizeOf
  <2>2. \A k : P(at, k) = DinaP(at, k)
    BY <1>1, <1>10 DEF P
  <2>3. Total([k \in 0 .. 1 |-> DinaP(at, k).v]) = 1
    BY <1>1, <2>1, DinaSum
  <2> QED BY <2>1, <2>2, <2>3
<1>11. CASE m.kind = "nida"
  <2>1. Responses(m) = 0 .. 1 /\ m.Np = 2 * m.Ndims
    BY <1>2, <1>11 DEF Responses, get_max, DichotomousMax, SizeOf
  <2>2. \A k : P(at, k) = NidaP(at, k)
    BY <1>1, <1>11 DEF P
  <2>3. Total([k \in 0 .. 1 |-> NidaP(at, k).v]) = 1
    BY <1>1, <2>1, NidaSum
  <2> QED BY <2>1, <2>2, <2>3
<1> QED BY <1>2, <1>3, <1>4, <1>5, <1>6, <1>7, <1>8, <1>9, <1>10, <1>11
        DEF ContinuousKinds, BinaryKinds

(* The probabilities of the responses of each of the nine models (their    *)
(* functions P: l1p.c, l2p.c, l3p.c, nominal.c, pc.c, gpc.c, gr.c, dina.c, *)
(* nida.c) add up to 1, for any number of dimensions, covariates and       *)
(* categories and any parameters.                                          *)
THEOREM ProbabilitiesSumToOneAlways == IrtSpec => []ProbabilitiesSumToOne
<1>1. NumbersInv => ProbabilitiesSumToOne
  <2>1. SUFFICES ASSUME NumbersInv, calibrated, NEW at \in Points(model)
                 PROVE  Total([k \in Responses(model) |-> P(at, k).v]) = 1
    BY DEF ProbabilitiesSumToOne
  <2>2. Usable(model)
    BY <2>1 DEF NumbersInv
  <2> QED BY <2>2, PointSum
<1> QED BY <1>1, NumbersAlways, PTL

-----------------------------------------------------------------------------
(* The distance is the logarithm of the odds, or of their reciprocal.      *)
LEMMA OddsMatch ==
  ASSUME NEW p \in Int, NEW c \in Int, NEW z \in Int,
         Same(p - c, (1 - p) * Exp(z)), ~Same(1 - p, 0)
  PROVE  LET odds == (p \ominus c) \oslash (1 - p)
             e == Exp(Abs(z))
         IN  odds = e \/ (odds \otimes e) = 1
<1>1. -z \in Int /\ p - c \in Int /\ 1 - p \in Int
  OBVIOUS
<1>2. /\ Exp(z) \in Int /\ Exp(z) \in 0 .. Prime - 1 /\ Exp(-z) \in 0 .. Prime - 1
      /\ Same(Exp(z) * Exp(-z), 1)
  BY <1>1, ExpIs
<1>3. p \ominus c = (p - c) % Prime /\ p \ominus c \in Int
  BY <1>1, Remainder DEF \ominus
<1>4. Same(p \ominus c, (1 - p) * Exp(z))
  BY <1>1, <1>3, SameRemainder DEF Same
<1>5. (p \ominus c) \oslash (1 - p) = Exp(z)
  BY <1>1, <1>2, <1>3, <1>4, QuotientIs
<1>6. Exp(z) \otimes Exp(-z) = 1
  BY <1>2, SameRemainder, ZeroOne DEF Same, ZeroIs, \otimes
<1>7. Abs(z) = z \/ Abs(z) = -z
  BY DEF Abs
<1> QED BY <1>5, <1>6, <1>7

(* The distance of the models without guessing.                            *)
LEMMA LogisticDistance ==
  ASSUME NEW z \in Int, ~Same(LogisticValue(z), 0)
  PROVE  LET p == LogisticValue(z)
             odds == (p \ominus 0) \oslash (1 - p)
             e == Exp(Abs(z))
         IN  odds = e \/ (odds \otimes e) = 1
<1> DEFINE a == LogisticValue(z)
           y == 1 - a
<1>1. a \in Int /\ Exp(z) \in Int /\ Same(a, (1 - a) * Exp(z))
  BY LogisticInt, ExpIs, LogisticOdds
<1>2. ~Same(a, 0)
  OBVIOUS
<1> HIDE DEF a
<1>3. y \in Int /\ a - 0 = a /\ 0 * Exp(z) = 0 /\ 0 \in Int
  BY <1>1
<1>4. ~Same(y, 0)
  <2>1. SUFFICES ASSUME Same(y, 0) PROVE FALSE
    OBVIOUS
  <2> HIDE DEF y
  <2>2. Same(y * Exp(z), 0 * Exp(z))
    BY <1>1, <1>3, <2>1, SameWith
  <2>3. Same(a, y * Exp(z))
    BY <1>1 DEF y
  <2> QED BY <1>2, <1>3, <2>2, <2>3 DEF Same
<1>5. Same(a - 0, (1 - a) * Exp(z)) /\ ~Same(1 - a, 0)
  BY <1>1, <1>3, <1>4
<1> QED BY <1>1, <1>3, <1>5, OddsMatch DEF a

(* The distance of the model with guessing, whose odds discount it.        *)
LEMMA GuessingDistance ==
  ASSUME NEW z \in Int, NEW c \in Int, NEW p,
         p = c + (1 - c) * LogisticValue(z),
         ~Same(LogisticValue(z), 0), ~Same(1 - p, 0)
  PROVE  LET odds == (p \ominus c) \oslash (1 - p)
             e == Exp(Abs(z))
         IN  odds = e \/ (odds \otimes e) = 1
<1> DEFINE a == LogisticValue(z)
           e == Exp(z)
           ae == (1 - a) * e
<1>1. a \in Int /\ e \in Int /\ Same(a, ae)
  BY LogisticInt, ExpIs, LogisticOdds
<1>2. p = c + (1 - c) * a
  OBVIOUS
<1> HIDE DEF a, e
<1>3. p \in Int /\ ae \in Int /\ 1 - c \in Int
  BY <1>1, <1>2
<1>4. p - c = (1 - c) * a /\ (1 - p) * e = (1 - c) * ae
  BY <1>1, <1>2
<1>5. Same((1 - c) * a, (1 - c) * ae)
  <2> HIDE DEF ae
  <2> QED BY <1>1, <1>3, SameWith
<1>6. Same(p - c, (1 - p) * Exp(z))
  BY <1>4, <1>5 DEF e
<1> QED BY <1>3, <1>6, OddsMatch

(* The distance of an item is the absolute logarithm of the odds of a      *)
(* correct response, with guessing discounted (the functions distance of   *)
(* l1p.c, l2p.c and l3p.c), for any dimensions, covariates and parameters. *)
THEOREM DistanceIsLogOddsAlways == IrtSpec => []DistanceIsLogOdds
<1>1. NumbersInv => DistanceIsLogOdds
  <2> DEFINE c == IF model.kind = "l3p" THEN model.params[L3pC] ELSE 0
             Right(at) == LET p == P(at, 1).v
                              odds == (p \ominus c) \oslash (1 - p)
                              e == Exp(Distance(at))
                          IN  odds = e \/ (odds \otimes e) = 1
  <2>1. SUFFICES ASSUME NumbersInv, calibrated, model.kind \in {"l1p", "l2p", "l3p"},
                        NEW at \in Points(model)
                 PROVE  Right(at)
    BY DEF DistanceIsLogOdds
  <2>2. Usable(model)
    BY <2>1 DEF NumbersInv
  <2>3. /\ at.model = model /\ Numeric(at) /\ Located(at)
        /\ \A k \in Responses(model) : ~Same(P(at, k).v, 0)
        /\ model.kind = "l3p" => ~Same(L3pPStar(at).v, 0)
    BY <2>1, <2>2, PointNumeric DEF ContinuousKinds
  <2>4. Responses(model) = 0 .. 1 /\ 0 \in 0 .. 1 /\ 1 \in 0 .. 1
    BY <2>1 DEF Responses, get_max, DichotomousMax
  <2>5. model.Np = SizeOf(model)
    BY <2>2 DEF Usable
  <2>6. CASE model.kind = "l1p"
    <3>1. P(at, 1) = Binary(L1pZ(at), 1) /\ Distance(at) = Abs(L1pZ(at).v)
      BY <2>3, <2>6 DEF P, L1pP, Distance, L1pDistance
    <3>2. L1pZ(at).v \in Int
      BY <2>3, <2>5, <2>6, L1pZInt DEF SizeOf
    <3>3. P(at, 1).v = LogisticValue(L1pZ(at).v) /\ ~Same(P(at, 1).v, 0)
      BY <2>3, <2>4, <3>1, <3>2, LogisticJet
    <3>4. c = 0
      BY <2>6
    <3> HIDE DEF c
    <3> QED BY <3>1, <3>2, <3>3, <3>4, LogisticDistance
  <2>7. CASE model.kind = "l2p"
    <3>1. P(at, 1) = Binary(L2pZ(at), 1) /\ Distance(at) = Abs(L2pZ(at).v)
      BY <2>3, <2>7 DEF P, L2pP, Distance, L2pDistance
    <3>2. L2pZ(at).v \in Int
      BY <2>3, <2>5, <2>7, L2pZInt DEF SizeOf
    <3>3. P(at, 1).v = LogisticValue(L2pZ(at).v) /\ ~Same(P(at, 1).v, 0)
      BY <2>3, <2>4, <3>1, <3>2, LogisticJet
    <3>4. c = 0
      BY <2>7
    <3> HIDE DEF c
    <3> QED BY <3>1, <3>2, <3>3, <3>4, LogisticDistance
  <2>8. CASE model.kind = "l3p"
    <3> DEFINE x == Plus(Param(at, L3pC), Times(OneMinus(Param(at, L3pC)), L3pPStar(at)))
               z == L3pZ(at).v
    <3>1. P(at, 1) = x /\ P(at, 0) = OneMinus(x) /\ Distance(at) = Abs(z)
      BY <2>3, <2>8 DEF P, L3pP, Distance, L3pDistance
    <3>2. /\ z \in Int /\ x.v \in Int /\ c \in Int
          /\ x.v = c + (1 - c) * LogisticValue(z) /\ L3pPStar(at).v = LogisticValue(z)
      <4>1. model.Np = 2 + model.Ndims + model.Ncov
        BY <2>5, <2>8 DEF SizeOf
      <4> QED BY <2>3, <2>8, <4>1, L3pXInt
    <3> HIDE DEF x, z, c
    <3>3. ~Same(LogisticValue(z), 0) /\ ~Same(1 - x.v, 0)
      BY <2>3, <2>4, <2>8, <3>1, <3>2, JetSums
    <3> QED BY <3>1, <3>2, <3>3, GuessingDistance
  <2> QED BY <2>1, <2>6, <2>7, <2>8
<1> QED BY <1>1, NumbersAlways, PTL
=============================================================================
