--------------------------- MODULE Tables_proofs ---------------------------
(***************************************************************************)
(* Proofs about the tables of names, for any numbers, names and values:    *)
(* the names of a space's dimensions and the covariates (Naming), and the  *)
(* characteristics of administrands (Characteristics); and about the bit   *)
(* arrays the characteristics are kept in (BitArrays), in every usage.     *)
(***************************************************************************)
EXTENDS MCTables, FiniteSetTheorems, NaturalsInduction, WellFoundedInduction, TLAPS

-----------------------------------------------------------------------------
(* The names of the dimensions.                                            *)

(* What oscats_space_set_dim_name may rely on: the arrays are indexed by   *)
(* the dimensions, and the hash table maps names to dimensions.            *)
SpaceType ==
    /\ names \in [Dims -> DimNames \cup Garbage]
    /\ array \in [Dims -> DimNames]
    /\ next \in 1 .. NumDims + 1
    /\ \A name \in DOMAIN table : table[name] \in Dims
    /\ DOMAIN table \subseteq DimNames
    /\ named \subseteq Dims
    /\ clash \in BOOLEAN

(* Every entry of the hash table is a dimension that has been named, under *)
(* its present name; and the names are all found unless two were equal.    *)
EntriesRight == \A name \in DOMAIN table :
                   table[name] \in named /\ names[table[name]] = name
NamesFound == ~clash => \A dim \in named : names[dim] \in DOMAIN table /\ table[names[dim]] = dim

SpaceInv == SpaceType /\ EntriesRight /\ NamesFound

(* Replacing one name keeps the two tables in agreement.                   *)
LEMMA NameDimKeepsSpaceInv ==
    ASSUME SpaceInv, NEW dim \in Dims, NEW name \in DimNames, NameDim(dim, name)
    PROVE  /\ names' \in [Dims -> DimNames \cup Garbage]
           /\ \A n \in DOMAIN table' : table'[n] \in Dims
           /\ DOMAIN table' \subseteq DimNames
           /\ named' \subseteq Dims
           /\ clash' \in BOOLEAN
           /\ EntriesRight'
           /\ NamesFound'
<1> USE DEF SpaceInv
<1>1. names' = [names EXCEPT ![dim] = name] /\ names' \in [Dims -> DimNames \cup Garbage]
  BY DEF SpaceType, NameDim
<1>2. /\ DOMAIN table' = (DOMAIN table \ {names[dim]}) \cup {name}
      /\ table'[name] = dim
      /\ \A n \in DOMAIN table' : n # name => n \in DOMAIN table /\ n # names[dim]
                                              /\ table'[n] = table[n]
  BY DEF NameDim, TableWith, With, Without
<1>3. \A n \in DOMAIN table' : table'[n] \in Dims
  BY <1>2 DEF SpaceType
<1>4. DOMAIN table' \subseteq DimNames
  BY <1>2 DEF SpaceType
<1>5. named' = named \cup {dim} /\ named' \subseteq Dims
  BY DEF SpaceType, NameDim
<1>6. clash' \in BOOLEAN
  BY DEF NameDim
<1>7. EntriesRight'
  <2> SUFFICES ASSUME NEW n \in DOMAIN table'
               PROVE  table'[n] \in named' /\ names'[table'[n]] = n
    BY DEF EntriesRight
  <2>1. CASE n = name
    BY <2>1, <1>1, <1>2, <1>5 DEF SpaceType
  <2>2. CASE n # name
    <3>1. n \in DOMAIN table /\ n # names[dim] /\ table'[n] = table[n]
      BY <2>2, <1>2
    <3>2. table[n] \in named /\ names[table[n]] = n /\ table[n] \in Dims
      BY <3>1 DEF EntriesRight, SpaceType
    <3> QED BY <3>1, <3>2, <1>1, <1>5 DEF SpaceType
  <2> QED BY <2>1, <2>2
<1>8. NamesFound'
  <2> SUFFICES ASSUME ~clash', NEW d \in named'
               PROVE  names'[d] \in DOMAIN table' /\ table'[names'[d]] = d
    BY DEF NamesFound
  <2>1. CASE d = dim
    BY <2>1, <1>1, <1>2 DEF SpaceType
  <2>2. CASE d # dim
    <3>1. d \in named /\ d \in Dims /\ names'[d] = names[d]
      BY <2>2, <1>1, <1>5 DEF SpaceType
    <3>2. ~clash /\ names[d] # name /\ (dim \notin named => names[dim] \notin DOMAIN table)
      BY <2>2, <3>1 DEF NameDim
    <3>3. names[d] \in DOMAIN table /\ table[names[d]] = d
      BY <3>1, <3>2 DEF NamesFound
    <3>4. names[d] # names[dim]
      BY <2>2, <3>2, <3>3 DEF NamesFound
    <3>5. names[d] \in DOMAIN table'
      BY <3>3, <3>4, <1>2
    <3> QED BY <3>1, <3>2, <3>3, <3>5, <1>2
  <2> QED BY <2>1, <2>2
<1> QED BY <1>1, <1>3, <1>4, <1>5, <1>6, <1>7, <1>8

THEOREM SpaceInvariant == Spec => []SpaceInv
<1>1. Init => SpaceInv
  <2> SUFFICES ASSUME SpaceInit PROVE SpaceInv
    BY DEF Init
  <2>1. DOMAIN table = {}
    BY DEF SpaceInit
  <2>2. next \in 1 .. NumDims + 1
    BY NamingAssumption DEF SpaceInit
  <2>3. SpaceType
    BY <2>1, <2>2, NamingAssumption DEF SpaceInit, SpaceType
  <2> QED BY <2>1, <2>3 DEF SpaceInit, SpaceInv, EntriesRight, NamesFound
<1>2. SpaceInv /\ [Next]_vars => SpaceInv'
  <2> SUFFICES ASSUME SpaceInv, [Next]_vars PROVE SpaceInv'
    OBVIOUS
  <2>1. CASE NameNext
    <3>1. next \in Dims /\ array[next] \in DimNames /\ next + 1 \in 1 .. NumDims + 1
      BY <2>1, NamingAssumption DEF NameNext, Idle, SpaceInv, SpaceType, Dims
    <3>2. NameDim(next, array[next]) /\ next' = next + 1 /\ array' = array
      BY <2>1 DEF NameNext
    <3>3. /\ names' \in [Dims -> DimNames \cup Garbage] /\ (\A n \in DOMAIN table' : table'[n] \in Dims)
          /\ DOMAIN table' \subseteq DimNames /\ named' \subseteq Dims /\ clash' \in BOOLEAN
          /\ EntriesRight' /\ NamesFound'
      BY <3>1, <3>2, NameDimKeepsSpaceInv
    <3> QED BY <3>1, <3>2, <3>3 DEF SpaceInv, SpaceType
  <2>2. ASSUME NEW dim \in Dims, NEW name \in DimNames, SetDimName(dim, name)
        PROVE  SpaceInv'
    <3>1. NameDim(dim, name) /\ next' = next /\ array' = array
      BY <2>2 DEF SetDimName
    <3>2. /\ names' \in [Dims -> DimNames \cup Garbage] /\ (\A n \in DOMAIN table' : table'[n] \in Dims)
          /\ DOMAIN table' \subseteq DimNames /\ named' \subseteq Dims /\ clash' \in BOOLEAN
          /\ EntriesRight' /\ NamesFound'
      BY <3>1, NameDimKeepsSpaceInv
    <3> QED BY <3>1, <3>2 DEF SpaceInv, SpaceType
  <2>3. ASSUME NEW given \in [Dims -> DimNames], SetNames(given)
        PROVE  SpaceInv'
    BY <2>3, NamingAssumption
    DEF SetNames, SpaceInv, SpaceType, EntriesRight, NamesFound
  <2>4. CASE UNCHANGED spaceVars
    BY <2>4 DEF spaceVars, SpaceInv, SpaceType, EntriesRight, NamesFound
  <2> QED BY <2>1, <2>2, <2>3, <2>4 DEF Next, SetAgain, Add, vars
<1> QED BY <1>1, <1>2, PTL DEF Spec

(* The array of names and the hash table of a space agree, however many    *)
(* dimensions there are and whatever they are called.                      *)
THEOREM NamesAgreeAlways == Spec => []NamesAgree
<1>1. SpaceInv => NamesAgree
  BY DEF SpaceInv, EntriesRight, NamesFound, NamesAgree, HasDim, GetDim
<1> QED BY <1>1, SpaceInvariant, PTL

-----------------------------------------------------------------------------
(* The values of the covariates.                                           *)

(* The block holds capacity values, the array at most that many, and each  *)
(* covariate has a position of its own in a block that was the array's.    *)
CovType ==
    /\ block \in Nat
    /\ capacity \in Nat
    /\ length \in Nat /\ length <= capacity
    /\ data = [p \in 0 .. capacity - 1 |-> data[p]]
    /\ \A cov \in Set : /\ pointer[cov].block \in 0 .. block
                        /\ pointer[cov].position \in 1 .. length
    /\ DOMAIN last = Set
    /\ kept \subseteq Set
PositionsDiffer == \A c, d \in Set : c # d => pointer[c].position # pointer[d].position
KeptReadBack == \A cov \in kept : Valid(cov) => data[pointer[cov].position] = last[cov]

CovInv == CovType /\ PositionsDiffer /\ KeptReadBack

(* Setting a covariate again touches its own value only.                   *)
LEMMA SetAgainKeepsCovInv ==
    ASSUME CovInv, NEW cov \in Covs, NEW value \in Values, SetAgain(cov, value)
    PROVE  CovInv'
<1> USE DEF CovInv
<1>1. /\ cov \in Set /\ Set' = Set /\ pointer' = pointer /\ block' = block
      /\ capacity' = capacity /\ length' = length /\ kept' = kept \cup {cov}
  BY DEF SetAgain, Set
<1>2. /\ DOMAIN last' = Set /\ last'[cov] = value
      /\ \A c \in Set : c # cov => last'[c] = last[c]
  BY <1>1 DEF SetAgain, With, CovType
<1>3. data' = [p \in 0 .. capacity - 1 |->
                 IF Valid(cov) /\ p = pointer[cov].position THEN value ELSE data[p]]
  BY DEF SetAgain, Written, CovType
<1>4. CovType'
  <2>1. data' = [p \in 0 .. capacity' - 1 |-> data'[p]]
    BY <1>1, <1>3
  <2> QED BY <1>1, <1>2, <2>1 DEF CovType
<1>5. PositionsDiffer'
  BY <1>1 DEF PositionsDiffer
<1>6. KeptReadBack'
  <2> SUFFICES ASSUME NEW c \in kept', Valid(c)'
               PROVE  data'[pointer[c].position] = last'[c]
    BY <1>1 DEF KeptReadBack
  <2>1. Valid(c) /\ c \in Set /\ pointer[c].position \in 0 .. capacity - 1
    BY <1>1 DEF Valid, CovType
  <2>2. CASE c = cov
    BY <2>1, <2>2, <1>2, <1>3
  <2>3. CASE c # cov
    <3>1. pointer[c].position # pointer[cov].position /\ c \in kept
      BY <2>1, <2>3, <1>1 DEF PositionsDiffer
    <3> QED BY <3>1, <2>1, <2>3, <1>2, <1>3 DEF KeptReadBack
  <2> QED BY <2>2, <2>3
<1> QED BY <1>4, <1>5, <1>6

(* Adding a covariate overwrites the one that was added before it only.    *)
LEMMA AddKeepsCovInv ==
    ASSUME CovInv, NEW cov \in Covs, NEW value \in Values,
           NEW moves \in BOOLEAN, NEW filler \in Values, Add(cov, value, moves, filler)
    PROVE  CovInv'
<1> USE DEF CovInv
<1>1. /\ Expanded \in Nat /\ capacity <= Expanded /\ length + 1 <= Expanded
  BY DEF Expanded, CovType
<1>2. /\ cov \notin Set /\ capacity' = Expanded /\ length' = length + 1
      /\ block' \in Nat /\ (moves => block' = block + 1) /\ (~moves => block' = block)
      /\ kept' = {c \in kept : pointer[c].position # length}
  BY DEF Add, CovType
<1>3. /\ Set' = Set \cup {cov}
      /\ pointer'[cov] = [block |-> block', position |-> length']
      /\ \A c \in Set : pointer'[c] = pointer[c]
  BY DEF Add, With, Set
<1>4. /\ DOMAIN last' = Set'
      /\ \A c \in Set : last'[c] = last[c]
  BY <1>2, <1>3 DEF Add, With, CovType
<1>5. data' = [p \in 0 .. Expanded - 1 |->
                 IF p = length THEN value ELSE IF p < capacity THEN data[p] ELSE filler]
  BY DEF Add, Appended
<1>6. CovType'
  <2>1. data' = [p \in 0 .. capacity' - 1 |-> data'[p]]
    BY <1>2, <1>5
  <2>2. \A c \in Set' : pointer'[c].block \in 0 .. block' /\ pointer'[c].position \in 1 .. length'
    BY <1>2, <1>3 DEF CovType
  <2> QED BY <1>1, <1>2, <1>3, <1>4, <2>1, <2>2 DEF CovType
<1>7. PositionsDiffer'
  BY <1>2, <1>3 DEF PositionsDiffer, CovType
<1>8. KeptReadBack'
  <2> SUFFICES ASSUME NEW c \in kept', Valid(c)'
               PROVE  data'[pointer'[c].position] = last'[c]
    BY DEF KeptReadBack
  <2>1. /\ c \in kept /\ c \in Set /\ pointer'[c] = pointer[c] /\ last'[c] = last[c]
        /\ pointer[c].position # length
    BY <1>2, <1>3, <1>4 DEF CovType
  <2>2. ~moves
    BY <2>1, <1>2 DEF Valid, CovType
  <2>3. pointer[c].position \in 0 .. Expanded - 1 /\ pointer[c].position < capacity /\ Valid(c)
    BY <2>1, <2>2, <1>1, <1>2 DEF Valid, CovType
  <2> QED BY <2>1, <2>3, <1>5 DEF KeptReadBack
<1> QED BY <1>6, <1>7, <1>8

THEOREM CovInvariant == Spec => []CovInv
<1>1. Init => CovInv
  BY DEF Init, CovInit, CovInv, CovType, PositionsDiffer, KeptReadBack, Set
<1>2. CovInv /\ [Next]_vars => CovInv'
  <2> SUFFICES ASSUME CovInv, [Next]_vars PROVE CovInv'
    OBVIOUS
  <2>1. CASE UNCHANGED covVars
    BY <2>1 DEF covVars, CovInv, CovType, PositionsDiffer, KeptReadBack, Set, Valid
  <2> QED
    BY <2>1, SetAgainKeepsCovInv, AddKeepsCovInv
    DEF Next, NameNext, SetDimName, SetNames, NameDim, vars
<1> QED BY <1>1, <1>2, PTL DEF Spec

(* What was written over an existing covariate is read back, however many  *)
(* covariates there are and however the array grows.                       *)
THEOREM ReadBackAlways == Spec => []ReadBack
<1>1. CovInv => ReadBack
  BY DEF CovInv, CovType, KeptReadBack, ReadBack, Get
<1> QED BY <1>1, CovInvariant, PTL

-----------------------------------------------------------------------------
(* The characteristics of administrands.                                   *)

(* Arrays with no padding bit set.                                         *)
Arrays ==
    {a \in [bit_len : Nat, data : SUBSET Nat, num_set : Int, pos : Int] :
        a.data \subseteq 0 .. a.bit_len - 1}

(* The byte of a bit is one of the array's.                                *)
LEMMA InBytes ==
    ASSUME NEW n \in Nat, NEW p \in Int, p < n
    PROVE  ~ p \div ByteBits >= Chars!Bits!ByteLen(n)
<1> DEFINE q == p \div ByteBits
           b == Chars!Bits!ByteLen(n)
<1>1. ByteBits \in Nat /\ ByteBits >= 1
  BY TablesAssumption
<1>2. q \in Int /\ q * ByteBits <= p
  BY <1>1
<1>3. b \in Int /\ b * ByteBits + ByteBits > n + ByteBits - 1
  BY <1>1 DEF Chars!Bits!ByteLen
<1> HIDE DEF q, b
<1>4. SUFFICES ASSUME q >= b PROVE FALSE
  BY DEF q, b
<1>5. \A x, y, z \in Int : z >= 1 /\ x >= y => x * z >= y * z
  OBVIOUS
<1>6. q * ByteBits >= b * ByteBits
  BY <1>1, <1>2, <1>3, <1>4, <1>5
<1>7. q * ByteBits \in Int /\ b * ByteBits \in Int
  BY <1>1, <1>2, <1>3
<1> QED
  BY <1>1, <1>2, <1>3, <1>6, <1>7

(* Induction over the natural numbers, as a fact about sets.               *)
LEMMA Induction ==
    ASSUME NEW S, 0 \in S, \A n \in Nat : n \in S => n + 1 \in S
    PROVE  Nat \subseteq S
<1> DEFINE T == Nat \ S
           R == OpToRel(<, Nat)
<1>1. SUFFICES ASSUME T # {} PROVE FALSE
  OBVIOUS
<1>2. PICK x \in T : \A y \in T : <<y, x>> \notin R
  <2>1. IsWellFoundedOn(R, Nat) /\ T \subseteq Nat
    BY NatLessThanWellFounded
  <2> HIDE DEF R, T
  <2> QED BY <1>1, <2>1, WFMin
<1>3. x - 1 \in Nat
  OBVIOUS
<1>4. <<x - 1, x>> \in R
  BY <1>3 DEF OpToRel
<1>5. x - 1 \in S
  <2> HIDE DEF R
  <2> QED BY <1>2, <1>3, <1>4
<1> QED BY <1>5, <1>3

(* The least member of a set of natural numbers is one.                    *)
LEMMA LeastIsThere ==
    ASSUME NEW S \in SUBSET Nat, S # {}
    PROVE  Chars!Bits!Min(S) \in S /\ \A p \in S : Chars!Bits!Min(S) <= p
<1> DEFINE R == OpToRel(<, Nat)
<1>1. PICK x \in S : \A y \in S : <<y, x>> \notin R
  <2>1. IsWellFoundedOn(R, Nat)
    BY NatLessThanWellFounded
  <2> HIDE DEF R
  <2> QED BY <2>1, WFMin
<1>2. ASSUME NEW y \in S, ~ x <= y PROVE FALSE
  <2>1. x \in Nat /\ y \in Nat /\ y < x
    BY <1>2
  <2>2. <<y, x>> \in R
    BY <2>1 DEF OpToRel
  <2> QED BY <1>1, <2>2
<1> QED BY <1>2 DEF Chars!Bits!Min

(* One call of iter_next.                                                  *)
LEMMA IterNextFacts ==
    ASSUME NEW a \in Arrays, a.pos \in -1 .. a.bit_len - 1
    PROVE  LET call  == Chars!Bits!IterNext(a)
               ahead == {p \in a.data : p > a.pos}
           IN  /\ ahead = {} => call[2] = -1 /\ \E n \in Int : call[1] = [a EXCEPT !.pos = n]
               /\ ahead # {} => /\ call[2] \in ahead /\ \A p \in ahead : call[2] <= p
                                /\ call[1] = [a EXCEPT !.pos = call[2]]
<1> DEFINE ahead == {p \in a.data : p > a.pos}
           bytes == Chars!Bits!ByteLen(a.bit_len)
           found == Chars!Bits!Min(ahead)
           past == a.pos \div ByteBits >= bytes
           call == Chars!Bits!IterNext(a)
<1>1. a.bit_len \in Nat /\ a.pos \in Int /\ a.pos < a.bit_len /\ a.data \subseteq 0 .. a.bit_len - 1
  BY DEF Arrays
<1>2. ~past
  BY <1>1, InBytes
<1>3. call =
        CASE past -> <<a, Chars!Bits!NoBit>>
          [] ~past /\ ahead = {} -> <<[a EXCEPT !.pos = Chars!Bits!PastByte(a, bytes)], Chars!Bits!NoBit>>
          [] ~past /\ ahead # {} -> <<[a EXCEPT !.pos = found],
                                      IF found >= a.bit_len THEN Chars!Bits!NoBit ELSE found>>
  BY DEF Chars!Bits!IterNext
<1>4. CASE ahead = {}
  <2>1. Chars!Bits!PastByte(a, bytes) \in Int
    <3>1. bytes \in Int /\ ByteBits \in Nat \ {0}
      BY <1>1, TablesAssumption DEF Chars!Bits!ByteLen
    <3>2. bytes * ByteBits \in Int /\ a.pos % ByteBits \in Int
      BY <1>1, <3>1
    <3> HIDE DEF bytes
    <3> QED BY <3>2 DEF Chars!Bits!PastByte
  <2> HIDE DEF past, ahead, bytes, call
  <2>2. call = <<[a EXCEPT !.pos = Chars!Bits!PastByte(a, bytes)], Chars!Bits!NoBit>>
    BY <1>2, <1>3, <1>4
  <2>3. call[2] = -1 /\ call[1] = [a EXCEPT !.pos = Chars!Bits!PastByte(a, bytes)]
    BY <2>2 DEF Chars!Bits!NoBit
  <2> QED BY <1>4, <2>1, <2>3 DEF ahead, call
<1>5. CASE ahead # {}
  <2>1. ahead \in SUBSET Nat
    BY <1>1
  <2> HIDE DEF past, call
  <2>2. found \in ahead /\ \A p \in ahead : found <= p
    <3> HIDE DEF ahead
    <3> QED BY <1>5, <2>1, LeastIsThere
  <2>3. ~ found >= a.bit_len
    BY <1>1, <2>2
  <2> HIDE DEF ahead, found, bytes
  <2>4. call = <<[a EXCEPT !.pos = found], found>>
    BY <1>2, <1>3, <1>5, <2>3
  <2> QED BY <1>5, <2>2, <2>4 DEF ahead, call
<1> QED BY <1>4, <1>5

(* What the steps of an iteration are. *)
IsSteps(g, a, calls) ==
    g = [n \in 0 .. calls |->
           IF n = 0 THEN [array |-> Chars!Bits!IterReset(a), at |-> 0]
           ELSE LET r == Chars!Bits!IterNext(g[n - 1].array)
                IN  [array |-> r[1], at |-> r[2]]]

StepAt(g, a, n) ==
    IF n = 0 THEN [array |-> Chars!Bits!IterReset(a), at |-> 0]
    ELSE [array |-> Chars!Bits!IterNext(g[n - 1].array)[1],
          at |-> Chars!Bits!IterNext(g[n - 1].array)[2]]

(* The first m of them. *)
StepsUpTo(g, a, calls, m) == \A n \in 0 .. calls : n <= m => g[n] = StepAt(g, a, n)

(* The recursion of the steps has a solution.                              *)
LEMMA StepsExist == ASSUME NEW a, NEW calls \in Nat PROVE \E g : IsSteps(g, a, calls)
<1> DEFINE Found == {m \in Nat : \E g : StepsUpTo(g, a, calls, m)}
<1>1. 0 \in Found
  <2> DEFINE g == [n \in 0 .. calls |-> [array |-> Chars!Bits!IterReset(a), at |-> 0]]
  <2>1. StepsUpTo(g, a, calls, 0)
    BY DEF StepsUpTo, StepAt
  <2> QED BY <2>1
<1>2. ASSUME NEW m \in Nat, m \in Found PROVE m + 1 \in Found
  <2>1. PICK g : StepsUpTo(g, a, calls, m)
    BY <1>2
  <2> DEFINE h == [n \in 0 .. calls |-> StepAt(g, a, n)]
  <2>2. \A n \in 0 .. calls : h[n] = StepAt(g, a, n)
    OBVIOUS
  <2> HIDE DEF h
  <2>3. ASSUME NEW n \in 0 .. calls, n <= m + 1
        PROVE  h[n] = StepAt(h, a, n)
    <3>1. CASE n = 0
      BY <2>2, <3>1 DEF StepAt
    <3>2. CASE n # 0
      <4>1. n - 1 \in 0 .. calls /\ n - 1 <= m
        BY <2>3, <3>2
      <4>2. g[n - 1] = h[n - 1]
        BY <2>1, <2>2, <4>1 DEF StepsUpTo
      <4> QED BY <2>2, <3>2, <4>2 DEF StepAt
    <3> QED BY <3>1, <3>2
  <2>4. StepsUpTo(h, a, calls, m + 1)
    BY <2>3 DEF StepsUpTo
  <2> QED BY <2>4
<1>3. calls \in Found
  <2> HIDE DEF Found
  <2> QED BY <1>1, <1>2, Induction
<1>4. PICK g : StepsUpTo(g, a, calls, calls)
  BY <1>3
<1> DEFINE h == [n \in 0 .. calls |-> StepAt(g, a, n)]
<1>5. ASSUME NEW n \in 0 .. calls PROVE StepAt(g, a, n) = StepAt(h, a, n)
  <2>1. CASE n = 0
    BY <2>1 DEF StepAt
  <2>2. CASE n # 0
    <3>1. n - 1 \in 0 .. calls /\ n - 1 <= calls
      BY <2>2
    <3>2. h[n - 1] = StepAt(g, a, n - 1)
      BY <3>1
    <3>3. g[n - 1] = h[n - 1]
      BY <1>4, <3>1, <3>2 DEF StepsUpTo
    <3> QED BY <2>2, <3>3 DEF StepAt
  <2> QED BY <2>1, <2>2
<1>6. h = [n \in 0 .. calls |-> StepAt(h, a, n)]
  BY <1>5
<1> QED BY <1>6 DEF IsSteps, StepAt

(* So each step is one call of iter_next on the array the last one left.   *)
LEMMA StepsEquation ==
    ASSUME NEW a, NEW calls \in Nat
    PROVE  LET step == Chars!Steps(a, calls)
           IN  /\ step[0].array = Chars!Bits!IterReset(a)
               /\ \A n \in 1 .. calls :
                    /\ step[n].array = Chars!Bits!IterNext(step[n - 1].array)[1]
                    /\ step[n].at = Chars!Bits!IterNext(step[n - 1].array)[2]
<1> DEFINE step == CHOOSE g : IsSteps(g, a, calls)
<1>1. IsSteps(step, a, calls)
  BY StepsExist
<1>2. Chars!Steps(a, calls) = step
  BY DEF Chars!Steps, IsSteps
<1> HIDE DEF step
<1>3. \A n \in 0 .. calls : step[n] = StepAt(step, a, n)
  BY <1>1 DEF IsSteps, StepAt
<1>4. step[0].array = Chars!Bits!IterReset(a)
  <2>1. step[0] = StepAt(step, a, 0)
    BY <1>3
  <2> QED BY <2>1 DEF StepAt
<1>5. ASSUME NEW n \in 1 .. calls
      PROVE  /\ step[n].array = Chars!Bits!IterNext(step[n - 1].array)[1]
             /\ step[n].at = Chars!Bits!IterNext(step[n - 1].array)[2]
  <2>1. step[n] = StepAt(step, a, n) /\ n # 0
    BY <1>3
  <2>2. step[n] = [array |-> Chars!Bits!IterNext(step[n - 1].array)[1],
                   at |-> Chars!Bits!IterNext(step[n - 1].array)[2]]
    BY <2>1 DEF StepAt
  <2> QED BY <2>2
<1> QED BY <1>2, <1>4, <1>5


(* An array at some position of its iteration. *)
Repositioned(a, p) == [a EXCEPT !.pos = p]

(* Only the position changes during an iteration.                          *)
LEMMA RepositionedFacts ==
    ASSUME NEW a \in Arrays, NEW p \in Int
    PROVE  /\ Repositioned(a, p) \in Arrays
           /\ Repositioned(a, p).pos = p
           /\ Repositioned(a, p).data = a.data
           /\ Repositioned(a, p).bit_len = a.bit_len
           /\ \A n : [Repositioned(a, p) EXCEPT !.pos = n] = Repositioned(a, n)
BY DEF Repositioned, Arrays

(* After k calls without an end, the bits up to some position have been    *)
(* returned, at least k - 1.                                               *)
Going(a, step, k) ==
    \E p \in -1 .. a.bit_len - 1 :
        /\ p >= k - 1
        /\ step[k].array = Repositioned(a, p)
        /\ {step[m].at : m \in 1 .. k} = {x \in a.data : x <= p}

(* One call more: it ends the iteration with every bit returned, or goes   *)
(* on to the next bit.                                                     *)
LEMMA GoingOn ==
    ASSUME NEW a \in Arrays, NEW calls \in Nat, NEW k \in 0 .. calls - 1,
           Going(a, Chars!Steps(a, calls), k)
    PROVE  LET step == Chars!Steps(a, calls)
           IN  IF step[k + 1].at = -1
               THEN /\ {step[m].at : m \in 1 .. k} = a.data
                    /\ \E n \in Int : step[k + 1].array = Repositioned(a, n)
               ELSE Going(a, step, k + 1)
<1> DEFINE step == Chars!Steps(a, calls)
<1> HIDE DEF step
<1>1. PICK p \in -1 .. a.bit_len - 1 :
        /\ p >= k - 1
        /\ step[k].array = Repositioned(a, p)
        /\ {step[m].at : m \in 1 .. k} = {x \in a.data : x <= p}
  BY DEF Going, step
<1> DEFINE b == Repositioned(a, p)
           call == Chars!Bits!IterNext(b)
           ahead == {x \in a.data : x > p}
<1>2. step[k + 1].array = call[1] /\ step[k + 1].at = call[2]
  <2>1. k + 1 \in 1 .. calls /\ (k + 1) - 1 = k
    OBVIOUS
  <2> QED BY <1>1, <2>1, StepsEquation DEF step
<1>3. /\ b \in Arrays /\ b.pos = p /\ b.data = a.data /\ b.bit_len = a.bit_len
      /\ \A n : [b EXCEPT !.pos = n] = Repositioned(a, n)
  BY RepositionedFacts
<1>4. a.bit_len \in Nat /\ a.data \in SUBSET Nat /\ a.data \subseteq 0 .. a.bit_len - 1
  BY DEF Arrays
<1> HIDE DEF b, call
<1>5. /\ ahead = {} => call[2] = -1 /\ \E n \in Int : call[1] = [b EXCEPT !.pos = n]
      /\ ahead # {} => /\ call[2] \in ahead /\ \A x \in ahead : call[2] <= x
                       /\ call[1] = [b EXCEPT !.pos = call[2]]
  BY <1>3, IterNextFacts DEF call
<1>6. CASE ahead = {}
  <2>1. {step[m].at : m \in 1 .. k} = a.data
    BY <1>1, <1>4, <1>6
  <2>2. \E n \in Int : step[k + 1].array = Repositioned(a, n)
    BY <1>2, <1>3, <1>5, <1>6
  <2> QED BY <1>2, <1>5, <1>6, <2>1, <2>2 DEF step
<1>7. CASE ahead # {}
  <2> DEFINE q == call[2]
  <2>1. q \in a.data /\ q > p /\ (\A x \in ahead : q <= x) /\ step[k + 1].at = q
    BY <1>2, <1>5, <1>7
  <2>2. step[k + 1].array = Repositioned(a, q)
    BY <1>2, <1>3, <1>5, <1>7
  <2> HIDE DEF q
  <2>3. q \in Nat /\ q <= a.bit_len - 1 /\ q >= k /\ q # -1
    BY <1>1, <1>4, <2>1
  <2>4. {x \in a.data : x <= q} = {x \in a.data : x <= p} \union {q}
    BY <1>4, <2>1, <2>3
  <2>5. {step[m].at : m \in 1 .. k + 1} = {step[m].at : m \in 1 .. k} \union {q}
    <3>1. 1 .. k + 1 = 1 .. k \union {k + 1}
      OBVIOUS
    <3> QED BY <2>1, <3>1
  <2>6. {step[m].at : m \in 1 .. k + 1} = {x \in a.data : x <= q}
    BY <1>1, <2>4, <2>5
  <2>7. Going(a, step, k + 1)
    <3>1. q \in -1 .. a.bit_len - 1 /\ q >= (k + 1) - 1
      BY <1>4, <2>3
    <3> QED BY <2>2, <2>6, <3>1 DEF Going
  <2> QED BY <2>1, <2>3, <2>7 DEF step
<1> QED BY <1>6, <1>7

EndsAt(step, n) == step[n].at = Chars!Bits!NoBit /\ \A m \in 1 .. n - 1 : step[m].at # Chars!Bits!NoBit

(* An iteration over an array of as many bits as there are calls, less one,*)
(* ends, and has returned the bits that are set.                           *)
LEMMA IterationFacts ==
    ASSUME NEW a \in Arrays
    PROVE  LET calls == a.bit_len + 1
               step  == Chars!Steps(a, calls)
               ends  == CHOOSE n \in 1 .. calls : EndsAt(step, n)
           IN  /\ {step[n].at : n \in 1 .. ends - 1} = a.data
               /\ \A n \in 1 .. ends - 1 : step[n].at \in a.data
               /\ \E n \in Int : step[ends].array = Repositioned(a, n)
<1> DEFINE calls == a.bit_len + 1
           step == Chars!Steps(a, calls)
           ends == CHOOSE n \in 1 .. calls : EndsAt(step, n)
           On == {k \in Nat : k <= calls /\ (\A m \in 1 .. k : step[m].at # -1) => Going(a, step, k)}
<1>1. a.bit_len \in Nat /\ calls \in Nat /\ a.data \in SUBSET Nat
  BY DEF Arrays
<1> HIDE DEF calls
<1>2. 0 \in On
  <2>1. step[0].array = Repositioned(a, -1)
    BY <1>1, StepsEquation DEF Chars!Bits!IterReset, Repositioned
  <2>2. {step[m].at : m \in 1 .. 0} = {x \in a.data : x <= -1}
    BY <1>1
  <2>3. -1 \in -1 .. a.bit_len - 1 /\ -1 >= 0 - 1
    BY <1>1
  <2> HIDE DEF step
  <2>4. Going(a, step, 0)
    BY <2>1, <2>2, <2>3 DEF Going
  <2> QED BY <2>4
<1>3. ASSUME NEW k \in Nat, k \in On PROVE k + 1 \in On
  <2>1. SUFFICES ASSUME k + 1 <= calls, \A m \in 1 .. k + 1 : step[m].at # -1
                 PROVE  Going(a, step, k + 1)
    OBVIOUS
  <2>2. k \in 0 .. calls - 1 /\ \A m \in 1 .. k : step[m].at # -1
    BY <1>1, <2>1
  <2>3. Going(a, step, k) /\ step[k + 1].at # -1
    BY <1>1, <1>3, <2>1, <2>2
  <2> QED BY <1>1, <2>2, <2>3, GoingOn
<1> HIDE DEF step
<1>4. \A k \in 0 .. calls : (\A m \in 1 .. k : step[m].at # -1) => Going(a, step, k)
  <2>1. Nat \subseteq On
    <3> HIDE DEF On
    <3> QED BY <1>2, <1>3, Induction
  <2> QED BY <1>1, <2>1
<1>5. \E n \in 1 .. calls : step[n].at = -1
  <2>1. SUFFICES ASSUME \A n \in 1 .. calls : step[n].at # -1 PROVE FALSE
    OBVIOUS
  <2>2. Going(a, step, calls)
    BY <1>1, <1>4, <2>1
  <2> QED BY <1>1, <2>2 DEF Going, calls
<1>6. \E n \in 1 .. calls : EndsAt(step, n)
  <2> DEFINE S == {n \in 1 .. calls : step[n].at = -1}
             n == Chars!Bits!Min(S)
  <2>1. S \in SUBSET Nat /\ S # {}
    BY <1>5
  <2> HIDE DEF S
  <2>2. n \in S /\ \A m \in S : n <= m
    BY <2>1, LeastIsThere
  <2> HIDE DEF n
  <2>3. n \in 1 .. calls /\ step[n].at = -1
    BY <2>2 DEF S
  <2>4. \A m \in 1 .. n - 1 : m \in 1 .. calls /\ ~ n <= m
    BY <1>1, <2>3
  <2>5. \A m \in 1 .. n - 1 : step[m].at # -1
    BY <2>2, <2>4 DEF S
  <2> QED BY <2>3, <2>5 DEF EndsAt, Chars!Bits!NoBit
<1>7. ends \in 1 .. calls /\ EndsAt(step, ends)
  BY <1>6
<1> HIDE DEF ends
<1> DEFINE k == ends - 1
<1>8. k \in 0 .. calls - 1 /\ k + 1 = ends
  BY <1>1, <1>7
<1>9. step[ends].at = -1 /\ \A m \in 1 .. k : step[m].at # -1
  BY <1>7 DEF EndsAt, Chars!Bits!NoBit
<1>10. Going(a, step, k)
  BY <1>1, <1>4, <1>8, <1>9
<1> HIDE DEF k
<1>11. /\ {step[m].at : m \in 1 .. k} = a.data
       /\ \E n \in Int : step[k + 1].array = Repositioned(a, n)
  BY <1>1, <1>8, <1>9, <1>10, GoingOn DEF step
<1>12. \A n \in 1 .. k : step[n].at \in a.data
  BY <1>11
<1> QED BY <1>8, <1>11, <1>12 DEF k, ends, step, calls


-----------------------------------------------------------------------------
(* The operations on one array. *)

Plus(S, p) == S \union {p}
Minus(S, p) == S \ {p}

LEMMA BitsFacts ==
    ASSUME NEW a \in Arrays
    PROVE  /\ \A n \in Nat \ {0} : LET new == Chars!Bits!Resize(a, n)
                             IN  new \in Arrays /\ new.bit_len = n /\ new.data = {}
           /\ LET more == Chars!Bits!Extend(a, 1)
              IN  more \in Arrays /\ more.bit_len = a.bit_len + 1 /\ more.data = a.data
           /\ \A p \in 0 .. a.bit_len - 1 :
                LET set == Chars!Bits!SetBit(a, p)
                IN  set \in Arrays /\ set.bit_len = a.bit_len /\ set.data = Plus(a.data, p)
           /\ \A p \in 0 .. a.bit_len - 1 :
                LET clear == Chars!Bits!ClearBit(a, p)
                IN  clear \in Arrays /\ clear.bit_len = a.bit_len /\ clear.data = Minus(a.data, p)
           /\ LET none == Chars!Bits!Reset(a, FALSE)
              IN  none \in Arrays /\ none.bit_len = a.bit_len /\ none.data = {}
<1>1. a.bit_len \in Nat /\ a.num_set \in Int /\ a.pos \in Int /\ ByteBits \in Nat \ {0}
  BY TablesAssumption DEF Arrays
<1>2. ASSUME NEW n \in Nat \ {0}
      PROVE  LET new == Chars!Bits!Resize(a, n)
             IN  new \in Arrays /\ new.bit_len = n /\ new.data = {}
  <2>1. Chars!Bits!ByteLen(n) + 1 \in Int /\ a.pos % ByteBits \in Int
    BY <1>1 DEF Chars!Bits!ByteLen
  <2>2. (Chars!Bits!ByteLen(n) + 1) * ByteBits + (a.pos % ByteBits) \in Int
    BY <1>1, <2>1
  <2> QED BY <2>2 DEF Chars!Bits!Resize, Chars!Bits!PastByte, Arrays
<1>3. LET more == Chars!Bits!Extend(a, 1)
      IN  more \in Arrays /\ more.bit_len = a.bit_len + 1 /\ more.data = a.data
  BY <1>1 DEF Chars!Bits!Extend, Arrays
<1>4. \A d \in SUBSET (0 .. a.bit_len - 1), n \in Int :
        LET b == [a EXCEPT !.data = d, !.num_set = n]
        IN  b \in Arrays /\ b.bit_len = a.bit_len /\ b.data = d
  <2> TAKE d \in SUBSET (0 .. a.bit_len - 1), n \in Int
  <2>1. d \in SUBSET Nat /\ d \subseteq 0 .. a.bit_len - 1
    BY <1>1
  <2>2. \A c \in SUBSET Nat :
          c \subseteq 0 .. a.bit_len - 1 =>
            LET b == [a EXCEPT !.data = c, !.num_set = n]
            IN  b \in Arrays /\ b.bit_len = a.bit_len /\ b.data = c
    BY DEF Arrays
  <2> QED BY <2>1, <2>2
<1>5. a.data \in SUBSET (0 .. a.bit_len - 1) /\ a.num_set + 1 \in Int /\ a.num_set - 1 \in Int
  BY <1>1 DEF Arrays
<1>6. ASSUME NEW p \in 0 .. a.bit_len - 1
      PROVE  LET set == Chars!Bits!SetBit(a, p)
             IN  set \in Arrays /\ set.bit_len = a.bit_len /\ set.data = Plus(a.data, p)
  <2>1. CASE p \in a.data
    BY <2>1 DEF Chars!Bits!SetBit, Plus
  <2>2. CASE p \notin a.data
    <3>1. a.data \union {p} \in SUBSET (0 .. a.bit_len - 1)
      BY <1>5
    <3> QED BY <1>4, <1>5, <2>2, <3>1 DEF Chars!Bits!SetBit, Plus
  <2> QED BY <2>1, <2>2
<1>7. ASSUME NEW p \in 0 .. a.bit_len - 1
      PROVE  LET clear == Chars!Bits!ClearBit(a, p)
             IN  clear \in Arrays /\ clear.bit_len = a.bit_len /\ clear.data = Minus(a.data, p)
  <2>1. CASE p \notin a.data
    BY <2>1 DEF Chars!Bits!ClearBit, Minus
  <2>2. CASE p \in a.data
    <3>1. a.data \ {p} \in SUBSET (0 .. a.bit_len - 1)
      BY <1>5
    <3> QED BY <1>4, <1>5, <2>2, <3>1 DEF Chars!Bits!ClearBit, Minus
  <2> QED BY <2>1, <2>2
<1>8. LET none == Chars!Bits!Reset(a, FALSE)
      IN  none \in Arrays /\ none.bit_len = a.bit_len /\ none.data = {}
  <2>1. Chars!Bits!Reset(a, FALSE) = [a EXCEPT !.data = {}, !.num_set = 0]
    BY DEF Chars!Bits!Reset
  <2>2. {} \in SUBSET (0 .. a.bit_len - 1) /\ 0 \in Int
    OBVIOUS
  <2> DEFINE none == [a EXCEPT !.data = {}, !.num_set = 0]
  <2>3. none \in Arrays /\ none.bit_len = a.bit_len /\ none.data = {}
    BY <1>4, <2>2
  <2> HIDE DEF none
  <2>4. Chars!Bits!Reset(a, FALSE) = none
    BY <2>1 DEF none
  <2> QED BY <2>3, <2>4
<1> QED BY <1>2, <1>3, <1>6, <1>7, <1>8

(* A new array has no bit set.                                             *)
LEMMA NewFacts ==
    \A n \in Nat \ {0} : LET new == Chars!Bits!New(n)
                   IN  new \in Arrays /\ new.bit_len = n /\ new.data = {}
<1> DEFINE zero == [bit_len |-> 0, data |-> {}, num_set |-> 0, pos |-> 0]
<1>1. zero \in Arrays
  BY DEF Arrays
<1>2. \A n : Chars!Bits!New(n) = Chars!Bits!Resize(zero, n)
  BY DEF Chars!Bits!New
<1> HIDE DEF zero
<1> QED BY <1>1, <1>2, BitsFacts

-----------------------------------------------------------------------------
(* The invariant: the table and the array of characteristics agree, and    *)
(* the bits of an administrand are at the positions of what it was given.  *)

Known == Chars!Registered
Places == Len(char_to_quark)

TableInv ==
    /\ IsFiniteSet(Known) /\ Cardinality(Known) = Places
    /\ Chars!NoQuark \in Known /\ Known \subseteq Quarks \union {Chars!NoQuark}
    /\ quark_to_char[Chars!NoQuark] = 0
    /\ char_to_quark \in Seq(Quarks \union {Chars!NoQuark}) /\ Places # 0
    /\ \A q \in Known : /\ quark_to_char[q] \in 0 .. Places - 1
                        /\ char_to_quark[quark_to_char[q] + 1] = q

PlacesOf(had) == {quark_to_char[q] : q \in had}

ArraysInv ==
    /\ having \in [Objects -> SUBSET Quarks]
    /\ DOMAIN characteristics \subseteq Objects
    /\ \A a \in DOMAIN characteristics :
         /\ characteristics[a] \in Arrays
         /\ characteristics[a].bit_len = Places
         /\ having[a] \subseteq Known
         /\ characteristics[a].data = PlacesOf(having[a])

CharsInv == TableInv /\ ArraysInv

(* The instance's cardinality is the library's.                            *)
LEMMA SameCardinality == \A S : Chars!Cardinality(S) = Cardinality(S)
BY DEF Chars!Cardinality, Cardinality

(* The invariant: at first, and kept by each action.                       *)
LEMMA CharsInit == Chars!Init => CharsInv
<1> SUFFICES ASSUME Chars!Init PROVE CharsInv
  OBVIOUS
<1>1. /\ quark_to_char = [q \in {Chars!NoQuark} |-> 0] /\ char_to_quark = <<Chars!NoQuark>>
      /\ characteristics = <<>> /\ having = [a \in Objects |-> {}]
  BY DEF Chars!Init
<1>2. Known = {Chars!NoQuark}
  BY <1>1 DEF Known, Chars!Registered
<1>3. IsFiniteSet({Chars!NoQuark}) /\ Cardinality({Chars!NoQuark}) = 1
  BY FS_Singleton
<1>4. TableInv
  BY <1>1, <1>2, <1>3 DEF TableInv, Places
<1>5. ArraysInv
  BY <1>1 DEF ArraysInv
<1> QED BY <1>4, <1>5 DEF CharsInv

(* A place found is the place of that characteristic, and 0 of none.       *)
LEMMA PositionFacts ==
    ASSUME TableInv, NEW q \in Quarks
    PROVE  /\ q \in Known => /\ Chars!Position(q) = quark_to_char[q]
                             /\ Chars!Position(q) \in 1 .. Places - 1
           /\ q \notin Known => Chars!Position(q) = 0
           /\ \A r, s \in Known : quark_to_char[r] = quark_to_char[s] => r = s
<1>1. q # Chars!NoQuark
  BY TablesAssumption
<1>2. \A r, s \in Known : quark_to_char[r] = quark_to_char[s] => r = s
  BY DEF TableInv
<1>3. q \in Known => quark_to_char[q] \in 0 .. Places - 1 /\ quark_to_char[q] # 0
  BY <1>1, <1>2 DEF TableInv
<1>4. Places \in Nat
  BY DEF TableInv, Places
<1> QED BY <1>2, <1>3, <1>4 DEF Chars!Position, Known

(* Registering gives the characteristic the next place.                    *)
LEMMA RegisteringFacts ==
    ASSUME TableInv, NEW q \in Quarks, q \notin Known, NEW arrays, Chars!Registering(q, arrays)
    PROVE  /\ TableInv' /\ Places' = Places + 1
           /\ Known' = Known \union {q}
           /\ quark_to_char'[q] = Places
           /\ \A r \in Known : quark_to_char'[r] = quark_to_char[r]
<1>1. /\ quark_to_char' = [z \in Known \union {q} |-> IF z = q THEN Places ELSE quark_to_char[z]]
      /\ char_to_quark' = Append(char_to_quark, q)
  BY SameCardinality DEF Chars!Registering, Chars!With, Known, Chars!Registered, TableInv
<1>2. Known' = Known \union {q}
  BY <1>1 DEF Known, Chars!Registered
<1>3. IsFiniteSet(Known') /\ Cardinality(Known') = Cardinality(Known) + 1
  BY <1>2, FS_AddElement DEF TableInv
<1>4. /\ char_to_quark \in Seq(Quarks \union {Chars!NoQuark}) /\ Places \in Nat
      /\ char_to_quark' \in Seq(Quarks \union {Chars!NoQuark}) /\ Places' = Places + 1
      /\ char_to_quark'[Places + 1] = q
      /\ \A p \in 1 .. Places : char_to_quark'[p] = char_to_quark[p]
  BY <1>1 DEF TableInv, Places
<1>5. /\ quark_to_char'[q] = Places
      /\ \A r \in Known : quark_to_char'[r] = quark_to_char[r]
  BY <1>1
<1>6. ASSUME NEW r \in Known'
      PROVE  quark_to_char'[r] \in 0 .. Places' - 1 /\ char_to_quark'[quark_to_char'[r] + 1] = r
  <2>1. CASE r = q
    BY <1>4, <1>5, <2>1
  <2>2. CASE r \in Known
    <3>1. quark_to_char[r] \in 0 .. Places - 1 /\ char_to_quark[quark_to_char[r] + 1] = r
      BY <2>2 DEF TableInv
    <3>2. quark_to_char[r] + 1 \in 1 .. Places
      BY <1>4, <3>1
    <3> QED BY <1>4, <1>5, <2>2, <3>1, <3>2
  <2> QED BY <1>2, <2>1, <2>2
<1> QED BY <1>2, <1>3, <1>4, <1>5, <1>6 DEF TableInv


(* Places are kept when a characteristic is registered.                    *)
LEMMA PlacesKept ==
    ASSUME NEW had, \A r \in had : quark_to_char'[r] = quark_to_char[r]
    PROVE  {quark_to_char'[r] : r \in had} = PlacesOf(had)
BY DEF PlacesOf

(* What an operation on one administrand does to the invariant: its array  *)
(* has the places of what it is to have.                                   *)
LEMMA OneArray ==
    ASSUME CharsInv, UNCHANGED Chars!table, NEW a \in DOMAIN characteristics,
           NEW bits \in Arrays, bits.bit_len = Places,
           NEW had \in SUBSET (Known \ {Chars!NoQuark}), bits.data = PlacesOf(had),
           DOMAIN characteristics' = DOMAIN characteristics,
           \A b \in DOMAIN characteristics :
             characteristics'[b] = IF b = a THEN bits ELSE characteristics[b],
           having' = [having EXCEPT ![a] = had]
    PROVE  CharsInv'
<1>1. /\ quark_to_char' = quark_to_char /\ char_to_quark' = char_to_quark
      /\ Known' = Known /\ Places' = Places
  BY DEF Chars!table, Known, Chars!Registered, Places
<1>2. TableInv'
  BY <1>1 DEF CharsInv, TableInv
<1>3. had \in SUBSET Quarks
  BY DEF CharsInv, TableInv
<1>4. having' \in [Objects -> SUBSET Quarks] /\ DOMAIN characteristics' \subseteq Objects
  BY <1>3 DEF CharsInv, ArraysInv
<1>5. ASSUME NEW b \in DOMAIN characteristics'
      PROVE  /\ characteristics'[b] \in Arrays
             /\ characteristics'[b].bit_len = Places'
             /\ having'[b] \subseteq Known'
             /\ characteristics'[b].data = {quark_to_char'[r] : r \in having'[b]}
  <2>1. b \in DOMAIN characteristics /\ a \in Objects /\ b \in Objects
    BY DEF CharsInv, ArraysInv
  <2>2. CASE b = a
    <3>1. characteristics'[b] = bits /\ having'[b] = had
      BY <2>1, <2>2 DEF CharsInv, ArraysInv
    <3> QED BY <1>1, <3>1 DEF PlacesOf
  <2>3. CASE b # a
    <3>1. characteristics'[b] = characteristics[b] /\ having'[b] = having[b]
      BY <2>1, <2>3 DEF CharsInv, ArraysInv
    <3> QED BY <1>1, <2>1, <3>1 DEF CharsInv, ArraysInv, PlacesOf
  <2> QED BY <2>2, <2>3
<1> QED BY <1>2, <1>4, <1>5 DEF CharsInv, ArraysInv, PlacesOf

(* The actions.                                                            *)
LEMMA CreateKeeps == ASSUME CharsInv, NEW a \in Objects, Chars!Create(a) PROVE CharsInv'
<1> DEFINE new == Chars!Bits!New(Places)
<1>1. /\ characteristics' = [b \in DOMAIN characteristics \union {a} |->
                               IF b = a THEN new ELSE characteristics[b]]
      /\ having' = [having EXCEPT ![a] = {}]
      /\ quark_to_char' = quark_to_char /\ char_to_quark' = char_to_quark
  BY SameCardinality DEF Chars!Create, Chars!With, Chars!Existing, Chars!table, CharsInv, TableInv,
                         Known
<1>2. Places \in Nat \ {0}
  BY DEF CharsInv, TableInv, Places
<1>3. new \in Arrays /\ new.bit_len = Places /\ new.data = {}
  BY <1>2, NewFacts
<1> HIDE DEF new
<1>4. Known' = Known /\ Places' = Places /\ TableInv'
  BY <1>1 DEF CharsInv, TableInv, Known, Chars!Registered, Places
<1>5. having' \in [Objects -> SUBSET Quarks] /\ DOMAIN characteristics' \subseteq Objects
  BY <1>1 DEF CharsInv, ArraysInv
<1>6. ASSUME NEW b \in DOMAIN characteristics'
      PROVE  /\ characteristics'[b] \in Arrays
             /\ characteristics'[b].bit_len = Places'
             /\ having'[b] \subseteq Known'
             /\ characteristics'[b].data = {quark_to_char'[r] : r \in having'[b]}
  <2>1. CASE b = a
    <3>1. characteristics'[b] = new /\ having'[b] = {}
      BY <1>1, <2>1 DEF CharsInv, ArraysInv
    <3> QED BY <1>3, <1>4, <3>1
  <2>2. CASE b # a
    <3>1. /\ b \in DOMAIN characteristics
          /\ characteristics'[b] = characteristics[b] /\ having'[b] = having[b]
      BY <1>1, <2>2 DEF CharsInv, ArraysInv
    <3> QED BY <1>1, <1>4, <3>1 DEF CharsInv, ArraysInv, PlacesOf
  <2> QED BY <2>1, <2>2
<1> QED BY <1>4, <1>5, <1>6 DEF CharsInv, ArraysInv, PlacesOf

LEMMA DisposeKeeps == ASSUME CharsInv, NEW a \in Objects, Chars!Dispose(a) PROVE CharsInv'
<1>1. /\ characteristics' = [b \in DOMAIN characteristics \ {a} |-> characteristics[b]]
      /\ having' = [having EXCEPT ![a] = {}]
      /\ quark_to_char' = quark_to_char /\ char_to_quark' = char_to_quark
  BY DEF Chars!Dispose, Chars!Existing, Chars!table
<1>2. Known' = Known /\ Places' = Places /\ TableInv'
  BY <1>1 DEF CharsInv, TableInv, Known, Chars!Registered, Places
<1>3. having' \in [Objects -> SUBSET Quarks] /\ DOMAIN characteristics' \subseteq Objects
  BY <1>1 DEF CharsInv, ArraysInv
<1>4. ASSUME NEW b \in DOMAIN characteristics'
      PROVE  /\ characteristics'[b] \in Arrays
             /\ characteristics'[b].bit_len = Places'
             /\ having'[b] \subseteq Known'
             /\ characteristics'[b].data = {quark_to_char'[r] : r \in having'[b]}
  <2>1. /\ b \in DOMAIN characteristics
        /\ characteristics'[b] = characteristics[b] /\ having'[b] = having[b]
    BY <1>1 DEF CharsInv, ArraysInv
  <2> QED BY <1>1, <1>2, <2>1 DEF CharsInv, ArraysInv, PlacesOf
<1> QED BY <1>2, <1>3, <1>4 DEF CharsInv, ArraysInv, PlacesOf

(* All arrays are one bit longer, and have the bits they had.              *)
LEMMA LongerArrays ==
    ASSUME CharsInv, NEW q \in Quarks, q \notin Known, NEW arrays, Chars!Registering(q, arrays)
    PROVE  /\ arrays = [a \in DOMAIN characteristics |-> arrays[a]]
           /\ \A a \in DOMAIN characteristics :
                /\ arrays[a] \in Arrays /\ arrays[a].bit_len = Places'
                /\ arrays[a].data = {quark_to_char'[r] : r \in having[a]}
                /\ having[a] \subseteq Known'
<1>1. /\ TableInv' /\ Places' = Places + 1 /\ Known' = Known \union {q}
      /\ \A r \in Known : quark_to_char'[r] = quark_to_char[r]
  BY RegisteringFacts DEF CharsInv
<1>2. arrays = [a \in DOMAIN characteristics |-> Chars!Bits!Extend(characteristics[a], 1)]
  BY DEF Chars!Registering, Chars!Existing
<1>3. ASSUME NEW a \in DOMAIN characteristics
      PROVE  /\ arrays[a] \in Arrays /\ arrays[a].bit_len = Places'
             /\ arrays[a].data = {quark_to_char'[r] : r \in having[a]}
             /\ having[a] \subseteq Known'
  <2>1. /\ characteristics[a] \in Arrays /\ characteristics[a].bit_len = Places
        /\ having[a] \subseteq Known /\ characteristics[a].data = PlacesOf(having[a])
    BY DEF CharsInv, ArraysInv
  <2>2. arrays[a] \in Arrays /\ arrays[a].bit_len = Places + 1 /\ arrays[a].data = PlacesOf(having[a])
    BY <1>2, <2>1, BitsFacts
  <2>3. {quark_to_char'[r] : r \in having[a]} = PlacesOf(having[a])
    BY <1>1, <2>1, PlacesKept
  <2> QED BY <1>1, <2>1, <2>2, <2>3
<1> QED BY <1>2, <1>3

LEMMA RegisterKeeps ==
    ASSUME CharsInv, RegisterAgain = FALSE, NEW q \in Quarks, Chars!Register(q)
    PROVE  CharsInv'
<1>1. q \notin Known /\ Chars!Registering(q, characteristics') /\ having' = having
  BY DEF Chars!Register, Known
<1>2. TableInv'
  BY <1>1, RegisteringFacts DEF CharsInv
<1>3. /\ DOMAIN characteristics' = DOMAIN characteristics
      /\ \A a \in DOMAIN characteristics :
           /\ characteristics'[a] \in Arrays /\ characteristics'[a].bit_len = Places'
           /\ characteristics'[a].data = {quark_to_char'[r] : r \in having[a]}
           /\ having[a] \subseteq Known'
  BY <1>1, LongerArrays
<1> QED BY <1>1, <1>2, <1>3 DEF CharsInv, ArraysInv, PlacesOf

LEMMA SetKeeps ==
    ASSUME CharsInv, NEW a \in Objects, NEW q \in Quarks, Chars!Set(a, q)
    PROVE  CharsInv'
<1>1. a \in DOMAIN characteristics /\ having' = [having EXCEPT ![a] = having[a] \union {q}]
  BY DEF Chars!Set, Chars!Existing
<1>2. q # Chars!NoQuark
  BY TablesAssumption
<1>3. /\ characteristics[a] \in Arrays /\ characteristics[a].bit_len = Places
      /\ having[a] \subseteq Known /\ having[a] \subseteq Quarks
      /\ characteristics[a].data = PlacesOf(having[a])
  BY <1>1 DEF CharsInv, ArraysInv
<1> DEFINE p == Chars!Position(q)
           had == having[a] \union {q}
<1>4. CASE p # 0
  <2> DEFINE set == Chars!Bits!SetBit(characteristics[a], p)
  <2>1. characteristics' = [characteristics EXCEPT ![a] = set] /\ UNCHANGED Chars!table
    BY <1>4 DEF Chars!Set
  <2>2. q \in Known /\ p = quark_to_char[q] /\ p \in 1 .. Places - 1
    BY <1>4, PositionFacts DEF CharsInv
  <2>3. Places \in Nat
    BY DEF CharsInv, TableInv, Places
  <2> HIDE DEF p
  <2>4. set \in Arrays /\ set.bit_len = Places /\ set.data = Plus(characteristics[a].data, p)
    <3>1. p \in 0 .. characteristics[a].bit_len - 1
      BY <1>3, <2>2, <2>3
    <3> QED BY <1>3, <3>1, BitsFacts
  <2>5. set.data = PlacesOf(had)
    BY <1>3, <2>2, <2>4 DEF PlacesOf, Plus
  <2>6. had \in SUBSET (Known \ {Chars!NoQuark})
    BY <1>2, <1>3, <2>2, TablesAssumption
  <2> HIDE DEF set, had
  <2>7. having' = [having EXCEPT ![a] = had]
    BY <1>1 DEF had
  <2> QED BY <1>1, <2>1, <2>4, <2>5, <2>6, <2>7, OneArray
<1>5. CASE p = 0
  <2>1. q \notin Known
    BY <1>5, PositionFacts DEF CharsInv
  <2>2. PICK arrays : /\ Chars!Registering(q, arrays)
                      /\ characteristics' = [arrays EXCEPT ![a] =
                                               Chars!Bits!SetBit(arrays[a], Places)]
    BY <1>5, SameCardinality DEF Chars!Set, CharsInv, TableInv, Known
  <2>3. /\ TableInv' /\ Places' = Places + 1 /\ Known' = Known \union {q}
        /\ quark_to_char'[q] = Places
    BY <2>1, <2>2, RegisteringFacts DEF CharsInv
  <2>4. /\ arrays = [b \in DOMAIN characteristics |-> arrays[b]]
        /\ \A b \in DOMAIN characteristics :
             /\ arrays[b] \in Arrays /\ arrays[b].bit_len = Places'
             /\ arrays[b].data = {quark_to_char'[r] : r \in having[b]}
             /\ having[b] \subseteq Known'
    BY <2>1, <2>2, LongerArrays
  <2>5. Places \in Nat
    BY DEF CharsInv, TableInv, Places
  <2> DEFINE set == Chars!Bits!SetBit(arrays[a], Places)
  <2>6. set \in Arrays /\ set.bit_len = Places' /\ set.data = Plus(arrays[a].data, Places)
    <3>1. arrays[a] \in Arrays /\ arrays[a].bit_len = Places'
      BY <1>1, <2>4
    <3>2. Places \in 0 .. arrays[a].bit_len - 1
      BY <2>3, <2>5, <3>1
    <3> QED BY <3>1, <3>2, BitsFacts
  <2>7. set.data = {quark_to_char'[r] : r \in had}
    BY <1>1, <2>3, <2>4, <2>6 DEF Plus
  <2> HIDE DEF set
  <2>8. ASSUME NEW b \in DOMAIN characteristics'
        PROVE  /\ characteristics'[b] \in Arrays
               /\ characteristics'[b].bit_len = Places'
               /\ having'[b] \subseteq Known'
               /\ characteristics'[b].data = {quark_to_char'[r] : r \in having'[b]}
    <3>1. b \in DOMAIN characteristics /\ b \in Objects
      BY <2>2, <2>4 DEF CharsInv, ArraysInv
    <3>2. CASE b = a
      <4>1. characteristics'[b] = set /\ having'[b] = had
        BY <1>1, <2>2, <2>4, <3>1, <3>2 DEF CharsInv, ArraysInv, set
      <4> QED BY <1>1, <2>3, <2>4, <2>6, <2>7, <4>1
    <3>3. CASE b # a
      <4>1. characteristics'[b] = arrays[b] /\ having'[b] = having[b]
        BY <1>1, <2>2, <2>4, <3>1, <3>3 DEF CharsInv, ArraysInv
      <4> QED BY <2>4, <3>1, <4>1
    <3> QED BY <3>2, <3>3
  <2>9. having' \in [Objects -> SUBSET Quarks] /\ DOMAIN characteristics' \subseteq Objects
    BY <1>1, <1>3, <2>2, <2>4 DEF CharsInv, ArraysInv
  <2> QED BY <2>3, <2>8, <2>9 DEF CharsInv, ArraysInv, PlacesOf
<1> QED BY <1>4, <1>5

LEMMA ClearKeeps ==
    ASSUME CharsInv, NEW a \in Objects, NEW q \in Quarks, Chars!Clear(a, q)
    PROVE  CharsInv'
<1>1. /\ a \in DOMAIN characteristics /\ having' = [having EXCEPT ![a] = having[a] \ {q}]
      /\ UNCHANGED Chars!table
  BY DEF Chars!Clear, Chars!Existing
<1>2. /\ characteristics[a] \in Arrays /\ characteristics[a].bit_len = Places
      /\ having[a] \subseteq Known /\ having[a] \subseteq Quarks
      /\ characteristics[a].data = PlacesOf(having[a])
  BY <1>1 DEF CharsInv, ArraysInv
<1> DEFINE p == Chars!Position(q)
           had == having[a] \ {q}
           left == IF p = 0 THEN characteristics[a] ELSE Chars!Bits!ClearBit(characteristics[a], p)
<1>3. had \in SUBSET (Known \ {Chars!NoQuark})
  BY <1>2, TablesAssumption
<1>4. /\ DOMAIN characteristics' = DOMAIN characteristics
      /\ \A b \in DOMAIN characteristics :
           characteristics'[b] = IF b = a THEN left ELSE characteristics[b]
  BY DEF Chars!Clear
<1>5. left \in Arrays /\ left.bit_len = Places /\ left.data = PlacesOf(had)
  <2>1. CASE p = 0
    <3>1. q \notin Known
      BY <2>1, PositionFacts DEF CharsInv
    <3>2. had = having[a]
      BY <1>2, <3>1
    <3> QED BY <1>2, <2>1, <3>2
  <2>2. CASE p # 0
    <3>1. q \in Known /\ p = quark_to_char[q] /\ p \in 1 .. Places - 1
      BY <2>2, PositionFacts DEF CharsInv
    <3>2. Places \in Nat
      BY DEF CharsInv, TableInv, Places
    <3>3. \A r, s \in Known : quark_to_char[r] = quark_to_char[s] => r = s
      BY PositionFacts DEF CharsInv
    <3> HIDE DEF p
    <3>4. /\ left \in Arrays /\ left.bit_len = Places
          /\ left.data = Minus(characteristics[a].data, p)
      <4>1. p \in 0 .. characteristics[a].bit_len - 1
        BY <1>2, <3>1, <3>2
      <4> QED BY <1>2, <2>2, <4>1, BitsFacts
    <3>5. PlacesOf(had) = PlacesOf(having[a]) \ {p}
      BY <1>2, <3>1, <3>3 DEF PlacesOf
    <3> QED BY <1>2, <3>4, <3>5 DEF Minus
  <2> QED BY <2>1, <2>2
<1> HIDE DEF left, had
<1>6. having' = [having EXCEPT ![a] = had]
  BY <1>1 DEF had
<1> QED BY <1>1, <1>3, <1>4, <1>5, <1>6, OneArray

LEMMA ClearAllKeeps ==
    ASSUME CharsInv, NEW a \in Objects, Chars!ClearAll(a)
    PROVE  CharsInv'
<1> DEFINE none == Chars!Bits!Reset(characteristics[a], FALSE)
<1>1. /\ a \in DOMAIN characteristics /\ having' = [having EXCEPT ![a] = {}]
      /\ UNCHANGED Chars!table
      /\ characteristics' = [characteristics EXCEPT ![a] = none]
  BY DEF Chars!ClearAll, Chars!Existing
<1>2. characteristics[a] \in Arrays /\ characteristics[a].bit_len = Places
  BY <1>1 DEF CharsInv, ArraysInv
<1>3. none \in Arrays /\ none.bit_len = Places /\ none.data = PlacesOf({})
  <2>1. PlacesOf({}) = {}
    BY DEF PlacesOf
  <2>2. none \in Arrays /\ none.bit_len = Places /\ none.data = {}
    BY <1>2, BitsFacts
  <2> QED BY <2>1, <2>2
<1> HIDE DEF none
<1> QED BY <1>1, <1>3, OneArray


(* The iteration, by IterationFacts: the bits returned are the places of   *)
(* the characteristics the administrand has, and the table leads back.     *)
LEMMA IterateFacts ==
    ASSUME CharsInv, NEW a \in Objects, Chars!Iterate(a)
    PROVE  CharsInv' /\ iterated'.found = having[a] /\ having' = having
<1> DEFINE bits == characteristics[a]
           calls == Places + 1
           step == Chars!Steps(bits, calls)
           ends == CHOOSE n \in 1 .. calls : EndsAt(step, n)
<1>1. /\ a \in DOMAIN characteristics
      /\ iterated' = [of |-> a, found |-> {char_to_quark[step[n].at + 1] : n \in 1 .. ends - 1}]
      /\ characteristics' = [characteristics EXCEPT ![a] = step[ends].array]
      /\ UNCHANGED Chars!table /\ having' = having
  BY DEF Chars!Iterate, Chars!Existing, EndsAt, Places
<1>2. /\ bits \in Arrays /\ bits.bit_len = Places
      /\ having[a] \subseteq Known /\ having[a] \subseteq Quarks
      /\ bits.data = PlacesOf(having[a])
  BY <1>1 DEF CharsInv, ArraysInv
<1> HIDE DEF bits
<1>3. /\ {step[n].at : n \in 1 .. ends - 1} = bits.data
      /\ \A n \in 1 .. ends - 1 : step[n].at \in bits.data
      /\ \E n \in Int : step[ends].array = Repositioned(bits, n)
  BY <1>2, IterationFacts
<1> HIDE DEF step, ends, calls
<1>4. CharsInv'
  <2>1. PICK n \in Int : step[ends].array = Repositioned(bits, n)
    BY <1>3
  <2> DEFINE left == Repositioned(bits, n)
  <2>2. left \in Arrays /\ left.bit_len = Places /\ left.data = PlacesOf(having[a])
    BY <1>2, RepositionedFacts
  <2> HIDE DEF left
  <2>3. /\ DOMAIN characteristics' = DOMAIN characteristics
        /\ \A b \in DOMAIN characteristics :
             characteristics'[b] = IF b = a THEN left ELSE characteristics[b]
    BY <1>1, <2>1 DEF left
  <2>4. having' = [having EXCEPT ![a] = having[a]] /\ having[a] \in SUBSET (Known \ {Chars!NoQuark})
    BY <1>1, <1>2, TablesAssumption DEF CharsInv, ArraysInv
  <2> QED BY <1>1, <2>2, <2>3, <2>4, OneArray
<1>5. \A q \in having[a] : char_to_quark[quark_to_char[q] + 1] = q
  BY <1>2 DEF CharsInv, TableInv
<1>6. iterated'.found = {char_to_quark[step[n].at + 1] : n \in 1 .. ends - 1}
  BY <1>1
<1>7. ASSUME NEW q \in having[a] PROVE q \in iterated'.found
  <2>1. quark_to_char[q] \in bits.data
    BY <1>2 DEF PlacesOf
  <2>2. PICK n \in 1 .. ends - 1 : step[n].at = quark_to_char[q]
    BY <1>3, <2>1
  <2> QED BY <1>5, <1>6, <2>2
<1>8. ASSUME NEW q \in iterated'.found PROVE q \in having[a]
  <2>1. PICK n \in 1 .. ends - 1 : q = char_to_quark[step[n].at + 1]
    BY <1>6, <1>8
  <2>2. step[n].at \in PlacesOf(having[a])
    BY <1>2, <1>3
  <2>3. PICK r \in having[a] : step[n].at = quark_to_char[r]
    BY <2>2 DEF PlacesOf
  <2> QED BY <1>5, <2>1, <2>3
<1> QED BY <1>1, <1>4, <1>6, <1>7, <1>8

(* After a reset there is the quark 0 alone, and nobody has anything.      *)
LEMMA ResetTableKeeps == ASSUME CharsInv, Chars!ResetTable PROVE CharsInv'
<1>1. /\ quark_to_char' = [q \in {Chars!NoQuark} |-> 0] /\ char_to_quark' = <<Chars!NoQuark>>
      /\ characteristics' = [a \in DOMAIN characteristics |-> Chars!Bits!Resize(characteristics[a], 1)]
      /\ having' = [a \in Objects |-> {}]
  BY DEF Chars!ResetTable, Chars!Existing
<1>2. Known' = {Chars!NoQuark} /\ Places' = 1
  BY <1>1 DEF Known, Chars!Registered, Places
<1>3. IsFiniteSet({Chars!NoQuark}) /\ Cardinality({Chars!NoQuark}) = 1
  BY FS_Singleton
<1>4. TableInv'
  BY <1>1, <1>2, <1>3 DEF TableInv
<1>5. ASSUME NEW a \in DOMAIN characteristics'
      PROVE  /\ characteristics'[a] \in Arrays
             /\ characteristics'[a].bit_len = Places'
             /\ having'[a] = {}
             /\ characteristics'[a].data = {}
  <2>1. a \in DOMAIN characteristics /\ a \in Objects /\ characteristics[a] \in Arrays
    BY <1>1 DEF CharsInv, ArraysInv
  <2>2. 1 \in Nat \ {0}
    OBVIOUS
  <2>3. /\ Chars!Bits!Resize(characteristics[a], 1) \in Arrays
        /\ Chars!Bits!Resize(characteristics[a], 1).bit_len = 1
        /\ Chars!Bits!Resize(characteristics[a], 1).data = {}
    BY <2>1, <2>2, BitsFacts
  <2> QED BY <1>1, <1>2, <2>1, <2>3
<1>6. {quark_to_char'[r] : r \in {}} = {}
  OBVIOUS
<1>7. having' \in [Objects -> SUBSET Quarks] /\ DOMAIN characteristics' \subseteq Objects
  BY <1>1 DEF CharsInv, ArraysInv
<1> QED BY <1>4, <1>5, <1>6, <1>7 DEF CharsInv, ArraysInv, PlacesOf

(* Altogether.                                                             *)
LEMMA CharsStep ==
    ASSUME RegisterAgain = FALSE, CharsInv, [Chars!Next]_(Chars!vars)
    PROVE  CharsInv'
<1>1. CASE Chars!Next
  BY <1>1, CreateKeeps, DisposeKeeps, ClearAllKeeps, IterateFacts, RegisterKeeps, SetKeeps,
     ClearKeeps, ResetTableKeeps DEF Chars!Next
<1>2. CASE UNCHANGED Chars!vars
  BY <1>2 DEF Chars!vars, Chars!table, CharsInv, TableInv, ArraysInv, Known, Chars!Registered,
              Places, PlacesOf
<1> QED BY <1>1, <1>2

(* The invariant gives what has_characteristic answers.                    *)
LEMMA CharsSound == CharsInv => HasWhatWasSet
<1> SUFFICES ASSUME CharsInv, NEW a \in DOMAIN characteristics, NEW q \in Quarks
             PROVE  Chars!Has(a, q) <=> q \in having[a]
  BY DEF HasWhatWasSet, Chars!HasWhatWasSet, Chars!Existing
<1>1. having[a] \subseteq Known /\ having[a] \subseteq Quarks /\ characteristics[a].data = PlacesOf(having[a])
  BY DEF CharsInv, ArraysInv
<1>2. Chars!Has(a, q) <=> Chars!Position(q) \in PlacesOf(having[a])
  BY <1>1 DEF Chars!Has, Chars!Bits!GetBit
<1>3. /\ q \in Known => Chars!Position(q) = quark_to_char[q]
      /\ q \notin Known => Chars!Position(q) = 0
      /\ \A r, s \in Known : quark_to_char[r] = quark_to_char[s] => r = s
  BY PositionFacts DEF CharsInv
<1>4. \A r \in having[a] : quark_to_char[r] # 0
  BY <1>1, <1>3, TablesAssumption DEF CharsInv, TableInv
<1>5. CASE q \in Known
  BY <1>1, <1>2, <1>3, <1>5 DEF PlacesOf
<1>6. CASE q \notin Known
  BY <1>1, <1>2, <1>3, <1>4, <1>6 DEF PlacesOf
<1> QED BY <1>5, <1>6

(* Only Iterate sets the result.                                           *)
LEMMA IteratedRight ==
    ASSUME CharsInv, [Chars!Next]_(Chars!vars), iterated' # iterated,
           iterated'.of # Chars!NoObject
    PROVE  iterated'.found = having[iterated'.of]
<1>1. CASE \E a \in Objects : Chars!Iterate(a)
  <2>1. PICK a \in Objects : Chars!Iterate(a)
    BY <1>1
  <2>2. iterated'.found = having[a]
    BY <2>1, IterateFacts
  <2>3. iterated'.of = a
    BY <2>1 DEF Chars!Iterate
  <2> QED BY <2>2, <2>3
<1>2. CASE iterated' = Chars!NotIterated
  BY <1>2 DEF Chars!NotIterated
<1>3. CASE iterated' = iterated
  BY <1>3
<1> QED BY <1>1, <1>2, <1>3
     DEF Chars!Next, Chars!vars, Chars!Create, Chars!Dispose, Chars!ClearAll, Chars!Register,
         Chars!Set, Chars!Clear, Chars!ResetTable

(* While no characteristic is registered twice, an administrand has        *)
(* exactly the characteristics it was given (set, clear and has of         *)
(* administrand.c), for any objects, characteristics and size of a byte,   *)
(* also when the table is reset.                                           *)
THEOREM HasWhatWasSetAlways == RegisterAgain = FALSE => (Chars!Spec => []HasWhatWasSet)
<1> SUFFICES ASSUME RegisterAgain = FALSE PROVE Chars!Spec => []HasWhatWasSet
  OBVIOUS
<1>1. CharsInv /\ [Chars!Next]_(Chars!vars) => CharsInv'
  BY CharsStep
<1> QED BY <1>1, CharsInit, CharsSound, PTL DEF Chars!Spec

(* Under the same condition an iteration over its characteristics          *)
(* (characteristics_iter_next) ends and yields each of them and no other.  *)
THEOREM IterationCompleteAlways == RegisterAgain = FALSE => (Chars!Spec => IterationComplete)
<1> SUFFICES ASSUME RegisterAgain = FALSE PROVE Chars!Spec => IterationComplete
  OBVIOUS
<1>1. CharsInv /\ [Chars!Next]_(Chars!vars) => CharsInv'
  BY CharsStep
<1>2. CharsInv /\ [Chars!Next]_(Chars!vars)
        => [iterated' # iterated /\ iterated'.of # Chars!NoObject
              => iterated'.found = having[iterated'.of]]_(Chars!vars)
  BY IteratedRight
<1> QED BY <1>1, <1>2, CharsInit, PTL DEF Chars!Spec, IterationComplete, Chars!IterationComplete

-----------------------------------------------------------------------------
(* The bit arrays.                                                         *)

(* An array of the library may have padding bits set, up to the end of its *)
(* bytes; its count is that of the bits below its length.                  *)
BitArray == [bit_len : Nat, data : SUBSET Nat, num_set : Int, pos : Int]
BytesEnd(n) == Lib!ByteLen(n) * ByteBits
Sound(a) ==
    /\ a \in BitArray
    /\ a.data \subseteq 0 .. BytesEnd(a.bit_len) - 1
    /\ a.num_set = Cardinality(Lib!Value(a))

(* No padding bit is set.                                                  *)
Tight(a) == a.data \subseteq 0 .. a.bit_len - 1

LEMMA BytesHoldBits ==
    ASSUME NEW n \in Nat
    PROVE  BytesEnd(n) \in Nat /\ n <= BytesEnd(n)
<1>1. ByteBits \in Nat /\ ByteBits >= 1
  BY TablesAssumption
<1> DEFINE k == Lib!ByteLen(n)
<1>2. k \in Int /\ k * ByteBits + ByteBits > n + ByteBits - 1
  BY <1>1 DEF Lib!ByteLen
<1> HIDE DEF k
<1>3. k * ByteBits \in Int
  BY <1>1, <1>2
<1>4. k * ByteBits \in Nat /\ n <= k * ByteBits
  BY <1>1, <1>2, <1>3
<1> QED BY <1>4 DEF BytesEnd, k

(* The instance counts as everybody does.                                  *)
LEMMA LibCounts == \A S : Lib!Cardinality(S) = Cardinality(S)
  BY DEF Lib!Cardinality, Cardinality

LEMMA FiniteBits ==
    ASSUME NEW a, Sound(a)
    PROVE  /\ IsFiniteSet(a.data) /\ IsFiniteSet(Lib!Value(a))
           /\ Lib!Value(a) \subseteq 0 .. a.bit_len - 1
           /\ Lib!Value(a) \subseteq a.data
           /\ Cardinality(a.data) \in Nat /\ Cardinality(Lib!Value(a)) \in Nat
<1>1. BytesEnd(a.bit_len) - 1 \in Int
  BY BytesHoldBits DEF Sound, BitArray
<1>2. IsFiniteSet(0 .. BytesEnd(a.bit_len) - 1)
  BY <1>1, FS_Interval
<1>3. IsFiniteSet(a.data)
  BY <1>2, FS_Subset DEF Sound
<1>4. Lib!Value(a) \subseteq 0 .. a.bit_len - 1 /\ Lib!Value(a) \subseteq a.data
  BY DEF Lib!Value, Sound, BitArray
<1>5. IsFiniteSet(Lib!Value(a))
  BY <1>3, <1>4, FS_Subset
<1> QED BY <1>3, <1>4, <1>5, FS_CardinalityType

(* What an operation leaves: its value and its length, and no padding bit  *)
(* where there was none.                                                   *)
Leaves(a, b, n, S) ==
    /\ Sound(b)
    /\ b.bit_len = n
    /\ Lib!Value(b) = S
    /\ Tight(a) => Tight(b)

LEMMA ResizeLeaves ==
    ASSUME NEW a, NEW n \in Nat, a.pos \in Int
    PROVE  Sound(Lib!Resize(a, n)) /\ Lib!Resize(a, n).bit_len = n
           /\ Lib!Value(Lib!Resize(a, n)) = {} /\ Tight(Lib!Resize(a, n))
<1> DEFINE b == Lib!Resize(a, n)
           at == Lib!PastByte(a, Lib!ByteLen(n) + 1)
<1>1. at \in Int
  <2>1. Lib!ByteLen(n) \in Int /\ ByteBits \in Nat \ {0}
    BY TablesAssumption DEF Lib!ByteLen
  <2> DEFINE k == Lib!ByteLen(n) + 1
  <2>2. k * ByteBits \in Int /\ a.pos % ByteBits \in Int
    BY <2>1
  <2> HIDE DEF k
  <2> QED BY <2>2 DEF Lib!PastByte, k
<1> HIDE DEF at
<1>2. b = [bit_len |-> n, data |-> {}, num_set |-> 0, pos |-> at]
  BY DEF Lib!Resize, at
<1>3. b \in BitArray /\ Tight(b) /\ b.bit_len = n /\ b.data = {} /\ b.num_set = 0
  BY <1>1, <1>2 DEF BitArray, Tight
<1> HIDE DEF b
<1>4. Lib!Value(b) = {}
  BY <1>3 DEF Lib!Value
<1>5. Sound(b)
  BY <1>3, <1>4, FS_EmptySet DEF Sound
<1> QED BY <1>3, <1>4, <1>5 DEF b

LEMMA ExtendLeaves ==
    ASSUME NEW a, Sound(a), Tight(a), NEW num \in Nat
    PROVE  Leaves(a, Lib!Extend(a, num), a.bit_len + num, Lib!Value(a))
           /\ Lib!Extend(a, num).pos = a.pos
<1> DEFINE b == Lib!Extend(a, num)
<1>1. a \in BitArray /\ b \in BitArray /\ b.bit_len = a.bit_len + num /\ b.data = a.data
      /\ b.num_set = a.num_set /\ b.pos = a.pos
  BY DEF Sound, Lib!Extend, BitArray
<1> HIDE DEF b
<1>2. Tight(b)
  BY <1>1 DEF Tight, BitArray
<1>3. Lib!Value(b) = Lib!Value(a)
  BY <1>1 DEF Lib!Value, Tight, BitArray
<1>4. b.data \subseteq 0 .. BytesEnd(b.bit_len) - 1
  <2>1. b.bit_len \in Nat /\ BytesEnd(b.bit_len) \in Nat /\ b.bit_len <= BytesEnd(b.bit_len)
    BY <1>1, BytesHoldBits DEF BitArray
  <2> QED BY <1>2, <2>1 DEF Tight
<1>5. Sound(b)
  BY <1>1, <1>3, <1>4 DEF Sound
<1> QED BY <1>1, <1>2, <1>3, <1>5 DEF Leaves, b

(* Bits set, and bits cleared.                                             *)
Joined(S, T) == S \union T
Removed(S, T) == S \ T

(* The array with other bits and another count.                            *)
Rewritten(a, D, n) == [a EXCEPT !.data = D, !.num_set = n]

LEMMA WithFields ==
    ASSUME NEW a \in BitArray, NEW D \in SUBSET Nat, NEW n \in Int
    PROVE  LET b == Rewritten(a, D, n)
           IN  b \in BitArray /\ b.bit_len = a.bit_len /\ b.data = D /\ b.num_set = n
               /\ b.pos = a.pos
  BY DEF Rewritten, BitArray

LEMMA SetBitLeaves ==
    ASSUME NEW a, Sound(a), NEW p \in 0 .. a.bit_len - 1
    PROVE  Leaves(a, Lib!SetBit(a, p), a.bit_len, Joined(Lib!Value(a), {p}))
           /\ Lib!SetBit(a, p).pos = a.pos
<1>1. a \in BitArray
  BY DEF Sound
<1>2. CASE p \in a.data
  BY <1>1, <1>2 DEF Leaves, Lib!SetBit, Lib!Value, Joined, BitArray
<1>3. CASE p \notin a.data
  <2> DEFINE b == Lib!SetBit(a, p)
  <2>0. p \in Nat
    BY <1>1 DEF BitArray
  <2>1. b \in BitArray /\ b.bit_len = a.bit_len /\ b.data = Joined(a.data, {p})
        /\ b.num_set = a.num_set + 1 /\ b.pos = a.pos
    <3>1. Joined(a.data, {p}) \in SUBSET Nat
      BY <1>1, <2>0 DEF Joined, BitArray
    <3>2. b = Rewritten(a, Joined(a.data, {p}), a.num_set + 1)
      BY <1>3 DEF Lib!SetBit, Joined, Rewritten
    <3>3. a.num_set + 1 \in Int
      BY <1>1 DEF BitArray
    <3> HIDE DEF b
    <3> QED BY <1>1, <3>1, <3>2, <3>3, WithFields
  <2> HIDE DEF b
  <2>2. Lib!Value(b) = Lib!Value(a) \union {p} /\ p \notin Lib!Value(a)
    BY <1>1, <1>3, <2>1 DEF Joined, Lib!Value, BitArray
  <2>3. Cardinality(Lib!Value(b)) = Cardinality(Lib!Value(a)) + 1
    BY <2>2, FiniteBits, FS_AddElement
  <2>4. BytesEnd(a.bit_len) \in Nat /\ a.bit_len <= BytesEnd(a.bit_len)
    BY <1>1, BytesHoldBits DEF BitArray
  <2>5. b.data \subseteq 0 .. BytesEnd(b.bit_len) - 1
    BY <1>1, <2>1, <2>4 DEF Joined, Sound, BitArray
  <2>6. Sound(b)
    BY <2>1, <2>3, <2>5 DEF Joined, Sound
  <2>7. Tight(a) => Tight(b)
    BY <1>1, <2>1 DEF Joined, Tight, BitArray
  <2> QED BY <2>1, <2>2, <2>6, <2>7 DEF Leaves, Joined, b
<1> QED BY <1>2, <1>3

LEMMA ClearBitLeaves ==
    ASSUME NEW a, Sound(a), NEW p \in 0 .. a.bit_len - 1
    PROVE  Leaves(a, Lib!ClearBit(a, p), a.bit_len, Removed(Lib!Value(a), {p}))
           /\ Lib!ClearBit(a, p).pos = a.pos
<1>1. a \in BitArray
  BY DEF Sound
<1>2. CASE p \notin a.data
  BY <1>1, <1>2 DEF Leaves, Lib!ClearBit, Lib!Value, Removed, BitArray
<1>3. CASE p \in a.data
  <2> DEFINE b == Lib!ClearBit(a, p)
  <2>1. b \in BitArray /\ b.bit_len = a.bit_len /\ b.data = Removed(a.data, {p})
        /\ b.num_set = a.num_set - 1 /\ b.pos = a.pos
    <3>1. Removed(a.data, {p}) \in SUBSET Nat
      BY <1>1 DEF Removed, BitArray
    <3>2. b = Rewritten(a, Removed(a.data, {p}), a.num_set - 1)
      BY <1>3 DEF Lib!ClearBit, Removed, Rewritten
    <3>3. a.num_set - 1 \in Int
      BY <1>1 DEF BitArray
    <3> HIDE DEF b
    <3> QED BY <1>1, <3>1, <3>2, <3>3, WithFields
  <2> HIDE DEF b
  <2>2. Lib!Value(b) = Lib!Value(a) \ {p} /\ p \in Lib!Value(a)
    BY <1>1, <1>3, <2>1 DEF Removed, Lib!Value, BitArray
  <2>3. Cardinality(Lib!Value(b)) = Cardinality(Lib!Value(a)) - 1
    BY <2>2, FiniteBits, FS_RemoveElement
  <2>4. b.data \subseteq 0 .. BytesEnd(b.bit_len) - 1
    BY <1>1, <2>1 DEF Removed, Sound
  <2>5. Sound(b)
    BY <2>1, <2>3, <2>4 DEF Removed, Sound
  <2>6. Tight(a) => Tight(b)
    BY <1>1, <2>1 DEF Removed, Tight
  <2> QED BY <2>1, <2>2, <2>5, <2>6 DEF Leaves, Removed, b
<1> QED BY <1>2, <1>3

LEMMA SetBitValLeaves ==
    ASSUME NEW a, Sound(a), NEW p \in 0 .. a.bit_len - 1, NEW val \in BOOLEAN
    PROVE  LET b == Lib!SetBitVal(a, p, val)
           IN  /\ Leaves(a, b, a.bit_len, IF val THEN Joined(Lib!Value(a), {p})
                                          ELSE Removed(Lib!Value(a), {p}))
               /\ b.pos = a.pos
<1>1. CASE val
  <2>1. Lib!SetBitVal(a, p, val) = Lib!SetBit(a, p)
    BY <1>1 DEF Lib!SetBitVal
  <2> QED BY <1>1, <2>1, SetBitLeaves
<1>2. CASE ~val
  <2>1. Lib!SetBitVal(a, p, val) = Lib!ClearBit(a, p)
    BY <1>2 DEF Lib!SetBitVal
  <2> QED BY <1>2, <2>1, ClearBitLeaves
<1> QED BY <1>1, <1>2

LEMMA FlipBitLeaves ==
    ASSUME NEW a, Sound(a), NEW p \in 0 .. a.bit_len - 1
    PROVE  LET b == Lib!FlipBit(a, p)
           IN  /\ Leaves(a, b, a.bit_len, IF p \in Lib!Value(a) THEN Removed(Lib!Value(a), {p})
                                          ELSE Joined(Lib!Value(a), {p}))
               /\ b.pos = a.pos
               /\ Lib!GetBit(b, p) <=> p \notin Lib!Value(a)
<1>1. a.bit_len \in Nat /\ p \in Nat /\ p < a.bit_len
  BY DEF Sound, BitArray
<1>2. p \in a.data <=> p \in Lib!Value(a)
  BY <1>1 DEF Lib!Value
<1>3. ASSUME NEW b, Lib!Value(b) = Removed(Lib!Value(a), {p}), b.bit_len = a.bit_len
      PROVE  ~Lib!GetBit(b, p)
  <2>1. p \notin Lib!Value(b)
    BY <1>3 DEF Removed
  <2> QED BY <1>1, <1>3, <2>1 DEF Lib!Value, Lib!GetBit
<1>4. ASSUME NEW b, Lib!Value(b) = Joined(Lib!Value(a), {p}), b.bit_len = a.bit_len
      PROVE  Lib!GetBit(b, p)
  <2>1. p \in Lib!Value(b)
    BY <1>4 DEF Joined
  <2> QED BY <2>1 DEF Lib!Value, Lib!GetBit
<1>5. CASE p \in a.data
  <2>1. Lib!FlipBit(a, p) = Lib!ClearBit(a, p)
    BY <1>5 DEF Lib!FlipBit
  <2>2. /\ Leaves(a, Lib!ClearBit(a, p), a.bit_len, Removed(Lib!Value(a), {p}))
        /\ Lib!ClearBit(a, p).pos = a.pos
    BY ClearBitLeaves
  <2>3. ~Lib!GetBit(Lib!ClearBit(a, p), p)
    BY <1>3, <2>2 DEF Leaves
  <2> QED BY <1>2, <1>5, <2>1, <2>2, <2>3
<1>6. CASE p \notin a.data
  <2>1. Lib!FlipBit(a, p) = Lib!SetBit(a, p)
    BY <1>6 DEF Lib!FlipBit
  <2>2. /\ Leaves(a, Lib!SetBit(a, p), a.bit_len, Joined(Lib!Value(a), {p}))
        /\ Lib!SetBit(a, p).pos = a.pos
    BY SetBitLeaves
  <2>3. Lib!GetBit(Lib!SetBit(a, p), p)
    BY <1>4, <2>2 DEF Leaves
  <2> QED BY <1>2, <1>6, <2>1, <2>2, <2>3
<1> QED BY <1>5, <1>6

(* The bits of a set below a length, and the others.                       *)
Below(D, n) == {p \in D : p < n}
From(D, n) == {p \in D : n <= p}

LEMMA CountInTwo ==
    ASSUME NEW D \in SUBSET Nat, IsFiniteSet(D), NEW n \in Nat
    PROVE  /\ Cardinality(Below(D, n)) \in Nat /\ Cardinality(From(D, n)) \in Nat
           /\ Cardinality(D) = Cardinality(Below(D, n)) + Cardinality(From(D, n))
<1>1. Below(D, n) \in SUBSET D /\ From(D, n) \in SUBSET D
  BY DEF Below, From
<1>2. IsFiniteSet(Below(D, n)) /\ IsFiniteSet(From(D, n))
  BY <1>1, FS_Subset
<1>3. Below(D, n) \union From(D, n) = D /\ Below(D, n) \cap From(D, n) = {}
  <2>1. \A p \in Nat : p < n <=> ~ n <= p
    OBVIOUS
  <2>2. \A p : p \in Below(D, n) \union From(D, n) <=> p \in D
    BY <2>1 DEF Below, From
  <2>3. \A p : p \notin Below(D, n) \cap From(D, n)
    BY <2>1 DEF Below, From
  <2> QED BY <2>2, <2>3
<1>4. Cardinality(Below(D, n)) \in Nat /\ Cardinality(From(D, n)) \in Nat
  BY <1>2, FS_CardinalityType
<1>5. Cardinality(D) = Cardinality(Below(D, n)) + Cardinality(From(D, n)) - Cardinality({})
  BY <1>2, <1>3, FS_Union
<1> QED BY <1>4, <1>5, FS_EmptySet

(* Only bits below the length change.                                      *)
LEMMA RangeBelow ==
    ASSUME NEW D \in SUBSET Nat, NEW n \in Nat, NEW R \in SUBSET (0 .. n - 1)
    PROVE  /\ Below(Joined(D, R), n) = Joined(Below(D, n), R)
           /\ Below(Removed(D, R), n) = Removed(Below(D, n), R)
           /\ From(Joined(D, R), n) = From(D, n)
           /\ From(Removed(D, R), n) = From(D, n)
<1>1. \A p \in R : p \in Nat /\ p < n /\ ~ n <= p
  OBVIOUS
<1>2. \A p : p \in Below(Joined(D, R), n) <=> p \in Joined(Below(D, n), R)
  BY <1>1 DEF Below, Joined
<1>3. \A p : p \in Below(Removed(D, R), n) <=> p \in Removed(Below(D, n), R)
  BY <1>1 DEF Below, Removed
<1>4. \A p : p \in From(Joined(D, R), n) <=> p \in From(D, n)
  BY <1>1 DEF From, Joined
<1>5. \A p : p \in From(Removed(D, R), n) <=> p \in From(D, n)
  BY <1>1 DEF From, Removed
<1>6. \A S, T : (\A p : p \in S <=> p \in T) => S = T
  OBVIOUS
<1> QED BY <1>2, <1>3, <1>4, <1>5, <1>6

LEMMA RangeInBytes ==
    ASSUME NEW n \in Nat, NEW m \in Nat, n <= m, NEW D \in SUBSET (0 .. m - 1),
           NEW R \in SUBSET (0 .. n - 1)
    PROVE  Joined(D, R) \in SUBSET (0 .. m - 1) /\ Removed(D, R) \in SUBSET (0 .. m - 1)
  BY DEF Joined, Removed

(* The count of set_range follows the bits changed, or begins again.       *)
LEMMA SetRangeLeaves ==
    ASSUME NEW a, Sound(a), NEW start \in 0 .. a.bit_len - 1, NEW stop \in 0 .. a.bit_len - 1,
           NEW val \in BOOLEAN
    PROVE  LET b == Lib!SetRange(a, start, stop, val)
           IN  /\ Leaves(a, b, a.bit_len, IF val THEN Joined(Lib!Value(a), start .. stop)
                                          ELSE Removed(Lib!Value(a), start .. stop))
               /\ b.pos = a.pos
<1> DEFINE n == a.bit_len
           range == start .. stop
           D == IF val THEN Joined(a.data, range) ELSE Removed(a.data, range)
           V == IF val THEN Joined(Lib!Value(a), range) ELSE Removed(Lib!Value(a), range)
           num == IF start \div ByteBits = stop \div ByteBits
                  THEN a.num_set + Cardinality(D) - Cardinality(a.data)
                  ELSE Cardinality(Below(D, n))
           b == Lib!SetRange(a, start, stop, val)
<1>1. a \in BitArray /\ n \in Nat /\ range \subseteq 0 .. n - 1 /\ a.data \in SUBSET Nat
      /\ a.num_set \in Int
  BY DEF Sound, BitArray
<1>2. BytesEnd(n) \in Nat /\ n <= BytesEnd(n)
  BY <1>1, BytesHoldBits
<1>3. b = Rewritten(a, D, num)
  BY LibCounts DEF Lib!SetRange, Rewritten, Joined, Removed, Below
<1> HIDE DEF range, n
<1>4. D \subseteq 0 .. BytesEnd(n) - 1 /\ D \in SUBSET Nat
  <2>1. a.data \in SUBSET (0 .. BytesEnd(n) - 1) /\ range \in SUBSET (0 .. n - 1)
    BY <1>1 DEF Sound, n
  <2>2. D \in SUBSET (0 .. BytesEnd(n) - 1)
    BY <1>1, <1>2, <2>1, RangeInBytes
  <2> HIDE DEF D
  <2> QED BY <1>2, <2>2
<1>5. IsFiniteSet(D) /\ IsFiniteSet(a.data)
  <2>1. IsFiniteSet(0 .. BytesEnd(n) - 1)
    <3>1. BytesEnd(n) - 1 \in Int
      BY <1>2
    <3> QED BY <3>1, FS_Interval
  <2> HIDE DEF D
  <2>2. IsFiniteSet(D)
    BY <1>4, <2>1, FS_Subset
  <2> QED BY <2>2, FiniteBits
<1>6. Below(a.data, n) = Lib!Value(a)
  BY DEF Below, Lib!Value, n
<1>7. Below(D, n) = V
  BY <1>1, <1>6, RangeBelow
<1>8. From(D, n) = From(a.data, n)
  BY <1>1, RangeBelow
<1> HIDE DEF D, V
<1>9. num \in Int /\ num = Cardinality(V)
  <2>1. /\ Cardinality(V) \in Nat /\ Cardinality(From(D, n)) \in Nat
        /\ Cardinality(D) = Cardinality(V) + Cardinality(From(D, n))
    BY <1>1, <1>4, <1>5, <1>7, CountInTwo
  <2>2. /\ Cardinality(Lib!Value(a)) \in Nat
        /\ Cardinality(a.data) = Cardinality(Lib!Value(a)) + Cardinality(From(D, n))
    BY <1>1, <1>5, <1>6, <1>8, CountInTwo
  <2>3. a.num_set = Cardinality(Lib!Value(a))
    BY DEF Sound
  <2> QED BY <1>7, <2>1, <2>2, <2>3
<1> HIDE DEF num, b
<1>10. b \in BitArray /\ b.bit_len = n /\ b.data = D /\ b.num_set = num /\ b.pos = a.pos
  BY <1>1, <1>3, <1>4, <1>9, WithFields DEF n
<1>11. Lib!Value(b) = V
  BY <1>7, <1>10 DEF Lib!Value, Below
<1>12. Sound(b)
  BY <1>4, <1>9, <1>10, <1>11 DEF Sound
<1>13. Tight(a) => Tight(b)
  BY <1>1, <1>10 DEF Tight, D, Joined, Removed, n
<1>14. Leaves(a, b, n, V)
  BY <1>10, <1>11, <1>12, <1>13 DEF Leaves
<1> QED BY <1>10, <1>14 DEF b, V, n, range

(* Filling sets the padding bits too, and clearing clears them.            *)
LEMMA ResetLeaves ==
    ASSUME NEW a, Sound(a), NEW val \in BOOLEAN
    PROVE  LET b == Lib!Reset(a, val)
           IN  /\ Sound(b) /\ b.bit_len = a.bit_len /\ b.pos = a.pos
               /\ Lib!Value(b) = IF val THEN 0 .. a.bit_len - 1 ELSE {}
               /\ val = FALSE => Tight(b)
<1> DEFINE n == a.bit_len
           D == IF val THEN 0 .. BytesEnd(n) - 1 ELSE {}
           V == IF val THEN 0 .. n - 1 ELSE {}
           num == IF val THEN n ELSE 0
           b == Lib!Reset(a, val)
<1>1. a \in BitArray /\ n \in Nat
  BY DEF Sound, BitArray
<1>2. BytesEnd(n) \in Nat /\ n <= BytesEnd(n)
  BY <1>1, BytesHoldBits
<1>3. b = Rewritten(a, D, num)
  BY DEF Lib!Reset, Rewritten, Lib!Allocated, BytesEnd
<1> HIDE DEF b, n
<1>4. D \in SUBSET Nat /\ num \in Int
  BY <1>1, <1>2
<1> HIDE DEF D, num
<1>5. b \in BitArray /\ b.bit_len = n /\ b.data = D /\ b.num_set = num /\ b.pos = a.pos
  BY <1>1, <1>3, <1>4, WithFields DEF n
<1>6. Lib!Value(b) = V
  BY <1>1, <1>2, <1>5 DEF Lib!Value, D
<1>7. Cardinality(V) = num
  <2>1. CASE val
    <3>1. n - 1 \in Int /\ (0 > n - 1 <=> n = 0)
      BY <1>1
    <3>2. Cardinality(0 .. n - 1) = IF 0 > n - 1 THEN 0 ELSE n - 1 - 0 + 1
      BY <3>1, FS_Interval
    <3> QED BY <1>1, <2>1, <3>1, <3>2 DEF num
  <2>2. CASE ~val
    BY <2>2, FS_EmptySet DEF num
  <2> QED BY <2>1, <2>2
<1>8. Sound(b)
  BY <1>5, <1>6, <1>7 DEF Sound, D
<1>9. val = FALSE => Tight(b)
  BY <1>5 DEF Tight, D
<1> QED BY <1>5, <1>6, <1>8, <1>9 DEF b, n


(* The least member of a set is the one that FiniteSetsExt chooses.        *)
LEMMA LeastIsMin ==
    ASSUME NEW S \in SUBSET Nat, NEW x \in S, \A p \in S : x <= p
    PROVE  Lib!Sets!Min(S) = x
<1>1. Lib!Sets!Min(S) \in S /\ \A p \in S : Lib!Sets!Min(S) <= p
  BY LeastIsThere DEF Chars!Bits!Min, Lib!Sets!Min
<1>2. Lib!Sets!Min(S) <= x /\ x <= Lib!Sets!Min(S) /\ Lib!Sets!Min(S) \in Nat /\ x \in Nat
  BY <1>1
<1> QED BY <1>2

(* The array with its iterator elsewhere.                                  *)
Moved(a, n) == [a EXCEPT !.pos = n]

LEMMA MovedIsSound ==
    ASSUME NEW a, Sound(a), NEW n \in Int
    PROVE  /\ Leaves(a, Moved(a, n), a.bit_len, Lib!Value(a))
           /\ Moved(a, n).pos = n
<1> DEFINE b == Moved(a, n)
<1>1. b \in BitArray /\ b.bit_len = a.bit_len /\ b.data = a.data /\ b.num_set = a.num_set
      /\ b.pos = n
  BY DEF Moved, Sound, BitArray
<1> HIDE DEF b
<1>2. Lib!Value(b) = Lib!Value(a)
  BY <1>1 DEF Lib!Value
<1> QED BY <1>1, <1>2 DEF Leaves, Sound, Tight, b

(* A call of iter_next moves the iterator to the next bit of the array and *)
(* returns it, whatever padding bits are set.                              *)
LEMMA IterNextFinds ==
    ASSUME NEW a, Sound(a), a.pos \in -1 .. a.bit_len - 1
    PROVE  LET call  == Lib!IterNext(a)
               ahead == {p \in Lib!Value(a) : p > a.pos}
           IN  /\ ahead = {} => call[2] = -1 /\ \E n \in Int : call[1] = Moved(a, n)
               /\ ahead # {} => /\ call[2] = Lib!Sets!Min(ahead) /\ call[2] \in ahead
                                /\ call[1] = Moved(a, call[2])
<1> DEFINE ahead == {p \in Lib!Value(a) : p > a.pos}
           all == {p \in a.data : p > a.pos}
           bytes == Lib!ByteLen(a.bit_len)
           found == Lib!Min(all)
           past == a.pos \div ByteBits >= bytes
           call == Lib!IterNext(a)
<1>1. a \in BitArray /\ a.bit_len \in Nat /\ a.pos \in Int /\ a.pos < a.bit_len
  BY DEF Sound, BitArray
<1>2. ~past
  BY <1>1, InBytes DEF Chars!Bits!ByteLen, Lib!ByteLen
<1>3. call =
        CASE past -> <<a, Lib!NoBit>>
          [] ~past /\ all = {} -> <<Moved(a, Lib!PastByte(a, bytes)), Lib!NoBit>>
          [] ~past /\ all # {} -> <<Moved(a, found),
                                    IF found >= a.bit_len THEN Lib!NoBit ELSE found>>
  BY DEF Lib!IterNext, Moved
<1>4. /\ all \in SUBSET Nat /\ ahead \in SUBSET all
      /\ \A p \in all : p \in ahead <=> p < a.bit_len
  BY <1>1 DEF BitArray, Lib!Value
<1>5. Lib!PastByte(a, bytes) \in Int
  <2>1. bytes \in Int /\ ByteBits \in Nat \ {0}
    BY <1>1, TablesAssumption DEF Lib!ByteLen
  <2>2. bytes * ByteBits \in Int /\ a.pos % ByteBits \in Int
    BY <1>1, <2>1
  <2> HIDE DEF bytes
  <2> QED BY <2>2 DEF Lib!PastByte
<1> HIDE DEF past, bytes, call, all, ahead
<1>6. CASE all = {}
  <2>1. call = <<Moved(a, Lib!PastByte(a, bytes)), -1>>
    BY <1>2, <1>3, <1>6 DEF Lib!NoBit
  <2>2. ahead = {}
    BY <1>4, <1>6
  <2> QED BY <1>5, <2>1, <2>2 DEF call, ahead
<1>7. CASE all # {}
  <2>1. found \in all /\ \A p \in all : found <= p
    BY <1>4, <1>7, LeastIsThere DEF Chars!Bits!Min, Lib!Min
  <2> HIDE DEF found
  <2>2. call = <<Moved(a, found), IF found >= a.bit_len THEN -1 ELSE found>>
    BY <1>2, <1>3, <1>7 DEF Lib!NoBit
  <2>3. found \in Nat
    BY <1>4, <2>1
  <2>4. CASE found >= a.bit_len
    <3>1. ASSUME NEW p \in ahead PROVE FALSE
      <4>1. p \in all /\ p \in Nat /\ p < a.bit_len /\ found <= p
        BY <1>4, <2>1
      <4> QED BY <1>1, <2>3, <2>4, <4>1
    <3> QED BY <2>2, <2>3, <2>4, <3>1 DEF call, ahead
  <2>5. CASE ~ found >= a.bit_len
    <3>1. found \in ahead /\ ahead \in SUBSET Nat /\ \A p \in ahead : found <= p
      <4>1. found < a.bit_len
        BY <1>1, <2>3, <2>5
      <4> QED BY <1>4, <2>1, <4>1
    <3>2. Lib!Sets!Min(ahead) = found
      BY <3>1, LeastIsMin
    <3> QED BY <2>2, <2>5, <3>1, <3>2 DEF call, ahead
  <2> QED BY <2>4, <2>5
<1> QED BY <1>6, <1>7

(* The greatest member of a set of numbers below n is one.                 *)
LEMMA GreatestIsThere ==
    ASSUME NEW n \in Nat, NEW S \in SUBSET (0 .. n - 1), S # {}
    PROVE  Lib!Max(S) \in S /\ \A p \in S : p <= Lib!Max(S)
<1> DEFINE T == {n - p : p \in S}
<1>1. T \in SUBSET Nat /\ T # {}
  OBVIOUS
<1>2. PICK t \in T : \A u \in T : t <= u
  BY <1>1, LeastIsThere
<1>3. PICK x \in S : t = n - x
  BY <1>2
<1>4. ASSUME NEW y \in S PROVE x >= y
  <2>1. n - y \in T /\ x \in Int /\ y \in Int
    BY <1>3, <1>4
  <2>2. n - x <= n - y
    BY <1>2, <1>3, <2>1
  <2> QED BY <2>1, <2>2
<1>5. Lib!Max(S) \in S /\ \A y \in S : Lib!Max(S) >= y
  BY <1>3, <1>4 DEF Lib!Max
<1>6. \A p \in S : p \in Int
  OBVIOUS
<1> HIDE DEF T
<1> QED BY <1>5, <1>6

(* The reading of a number from the highest position on, and its step k.   *)
ReadAt(g, n, S, k) == IF k = 0 THEN 0 ELSE 2 * g[k - 1] + Lib!Sets!Bit(n - k \in S)
IsReading(g, n, S) == g = [k \in 0 .. n |-> ReadAt(g, n, S, k)]

(* The recursion of the reading has a solution.                            *)
LEMMA ReadingExists == ASSUME NEW n \in Nat, NEW S PROVE \E g : IsReading(g, n, S)
<1> DEFINE Found == {m \in Nat : \E g : \A k \in 0 .. n : k <= m => g[k] = ReadAt(g, n, S, k)}
<1>1. 0 \in Found
  <2> DEFINE g == [k \in 0 .. n |-> 0]
  <2>1. \A k \in 0 .. n : k <= 0 => g[k] = ReadAt(g, n, S, k)
    BY DEF ReadAt
  <2> QED BY <2>1
<1>2. ASSUME NEW m \in Nat, m \in Found PROVE m + 1 \in Found
  <2>1. PICK g : \A k \in 0 .. n : k <= m => g[k] = ReadAt(g, n, S, k)
    BY <1>2
  <2> DEFINE h == [k \in 0 .. n |-> ReadAt(g, n, S, k)]
  <2>2. \A k \in 0 .. n : h[k] = ReadAt(g, n, S, k)
    OBVIOUS
  <2> HIDE DEF h
  <2>3. ASSUME NEW k \in 0 .. n, k <= m + 1
        PROVE  h[k] = ReadAt(h, n, S, k)
    <3>1. CASE k = 0
      BY <2>2, <3>1 DEF ReadAt
    <3>2. CASE k # 0
      <4>1. k - 1 \in 0 .. n /\ k - 1 <= m
        BY <2>3, <3>2
      <4>2. g[k - 1] = h[k - 1]
        BY <2>1, <2>2, <4>1
      <4> QED BY <2>2, <3>2, <4>2 DEF ReadAt
    <3> QED BY <3>1, <3>2
  <2> QED BY <2>3
<1>3. n \in Found
  <2> HIDE DEF Found
  <2> QED BY <1>1, <1>2, Induction
<1>4. PICK g : \A k \in 0 .. n : k <= n => g[k] = ReadAt(g, n, S, k)
  BY <1>3
<1> DEFINE h == [k \in 0 .. n |-> ReadAt(g, n, S, k)]
<1>5. ASSUME NEW k \in 0 .. n PROVE ReadAt(g, n, S, k) = ReadAt(h, n, S, k)
  <2>1. CASE k = 0
    BY <2>1 DEF ReadAt
  <2>2. CASE k # 0
    <3>1. k - 1 \in 0 .. n /\ k - 1 <= n
      BY <2>2
    <3>2. g[k - 1] = h[k - 1]
      BY <1>4, <3>1
    <3> QED BY <2>2, <3>2 DEF ReadAt
  <2> QED BY <2>1, <2>2
<1>6. h = [k \in 0 .. n |-> ReadAt(h, n, S, k)]
  BY <1>5
<1> QED BY <1>6 DEF IsReading

(* The number that a set spells is the end of such a reading.              *)
LEMMA NumberRead ==
    ASSUME NEW n \in Nat, NEW S
    PROVE  \E g : /\ Lib!Sets!Number(n, S) = g[n]
                  /\ \A k \in 0 .. n : g[k] \in Nat
                  /\ g[0] = 0
                  /\ \A k \in 1 .. n : g[k] = 2 * g[k - 1] + (IF n - k \in S THEN 1 ELSE 0)
<1> DEFINE g == CHOOSE g : IsReading(g, n, S)
<1>1. IsReading(g, n, S)
  BY ReadingExists
<1>2. Lib!Sets!Number(n, S) = g[n]
  BY DEF Lib!Sets!Number, IsReading, ReadAt
<1> HIDE DEF g
<1>3. \A k \in 0 .. n : g[k] = ReadAt(g, n, S, k)
  BY <1>1 DEF IsReading
<1>4. g[0] = 0
  BY <1>3 DEF ReadAt
<1>5. ASSUME NEW k \in 1 .. n
      PROVE  g[k] = 2 * g[k - 1] + (IF n - k \in S THEN 1 ELSE 0)
  <2>1. k \in 0 .. n /\ k # 0
    BY <1>5
  <2> QED BY <1>3, <2>1 DEF ReadAt, Lib!Sets!Bit
<1> DEFINE Good == {m \in Nat : m <= n => g[m] \in Nat}
<1>6. 0 \in Good
  BY <1>4
<1>7. ASSUME NEW m \in Nat, m \in Good PROVE m + 1 \in Good
  <2>1. SUFFICES ASSUME m + 1 <= n PROVE g[m + 1] \in Nat
    OBVIOUS
  <2>2. m + 1 \in 1 .. n /\ g[m] \in Nat /\ (m + 1) - 1 = m
    BY <1>7, <2>1
  <2>3. g[m + 1] = 2 * g[m] + (IF n - (m + 1) \in S THEN 1 ELSE 0)
    BY <1>5, <2>2
  <2> QED BY <2>2, <2>3
<1>8. \A k \in 0 .. n : g[k] \in Nat
  <2> HIDE DEF Good
  <2>1. Nat \subseteq Good
    BY <1>6, <1>7, Induction
  <2> QED BY <2>1 DEF Good
<1> QED BY <1>2, <1>4, <1>5, <1>8

(* Of two sets that agree above m the one with m spells the larger number. *)
LEMMA NumberOrder ==
    ASSUME NEW n \in Nat, NEW A, NEW B, NEW m \in 0 .. n - 1, m \in B, m \notin A,
           \A p \in 0 .. n - 1 : p > m => (p \in A <=> p \in B)
    PROVE  /\ Lib!Sets!Number(n, A) \in Nat /\ Lib!Sets!Number(n, B) \in Nat
           /\ Lib!Sets!Number(n, A) < Lib!Sets!Number(n, B)
<1>1. PICK g : /\ Lib!Sets!Number(n, A) = g[n]
               /\ \A k \in 0 .. n : g[k] \in Nat
               /\ g[0] = 0
               /\ \A k \in 1 .. n : g[k] = 2 * g[k - 1] + (IF n - k \in A THEN 1 ELSE 0)
  BY NumberRead
<1>2. PICK h : /\ Lib!Sets!Number(n, B) = h[n]
               /\ \A k \in 0 .. n : h[k] \in Nat
               /\ h[0] = 0
               /\ \A k \in 1 .. n : h[k] = 2 * h[k - 1] + (IF n - k \in B THEN 1 ELSE 0)
  BY NumberRead
<1> DEFINE Good == {k \in Nat : k <= n => /\ k < n - m => g[k] = h[k]
                                          /\ k >= n - m => g[k] < h[k]}
<1>3. 0 \in Good
  BY <1>1, <1>2
<1>4. ASSUME NEW k \in Nat, k \in Good PROVE k + 1 \in Good
  <2>1. SUFFICES ASSUME k + 1 <= n
                 PROVE  /\ k + 1 < n - m => g[k + 1] = h[k + 1]
                        /\ k + 1 >= n - m => g[k + 1] < h[k + 1]
    OBVIOUS
  <2> DEFINE p == n - (k + 1)
             a == IF p \in A THEN 1 ELSE 0
             b == IF p \in B THEN 1 ELSE 0
  <2>2. /\ k + 1 \in 1 .. n /\ k \in 0 .. n /\ (k + 1) - 1 = k
        /\ p \in 0 .. n - 1 /\ p \in Int
    BY <2>1
  <2>3. g[k + 1] = 2 * g[k] + a /\ h[k + 1] = 2 * h[k] + b
    BY <1>1, <1>2, <2>2
  <2>4. g[k] \in Nat /\ h[k] \in Nat /\ a \in {0, 1} /\ b \in {0, 1}
    BY <1>1, <1>2, <2>2
  <2>5. CASE k + 1 < n - m
    <3>1. p > m /\ k < n - m
      BY <2>1, <2>5
    <3>2. a = b /\ g[k] = h[k]
      BY <1>4, <2>1, <2>2, <3>1
    <3> HIDE DEF a, b
    <3> QED BY <2>3, <2>5, <3>2
  <2>6. CASE k + 1 = n - m
    <3>1. p = m /\ k < n - m
      BY <2>1, <2>6
    <3>2. a = 0 /\ b = 1 /\ g[k] = h[k]
      BY <1>4, <2>1, <3>1
    <3> HIDE DEF a, b
    <3> QED BY <2>3, <2>4, <2>6, <3>2
  <2>7. CASE k + 1 > n - m
    <3>1. g[k] < h[k]
      BY <1>4, <2>1, <2>7
    <3> HIDE DEF a, b
    <3> QED BY <2>3, <2>4, <2>7, <3>1
  <2> QED BY <2>1, <2>5, <2>6, <2>7
<1>5. n \in Good
  <2> HIDE DEF Good
  <2> QED BY <1>3, <1>4, Induction
<1>6. g[n] < h[n]
  BY <1>5
<1> QED BY <1>1, <1>2, <1>6

(* serial_compare of arrays with no padding bit set orders them as the     *)
(* numbers that their values spell.                                        *)
LEMMA ComparesNumbers ==
    ASSUME NEW a, NEW b, Sound(a), Sound(b), Tight(a), Tight(b), a.bit_len = b.bit_len
    PROVE  LET x == Lib!Sets!Number(a.bit_len, Lib!Value(a))
               y == Lib!Sets!Number(b.bit_len, Lib!Value(b))
           IN  \/ x < y /\ Lib!SerialCompare(a, b) = -1
               \/ x = y /\ Lib!SerialCompare(a, b) = 0
               \/ x > y /\ Lib!SerialCompare(a, b) = 1
<1> DEFINE n == a.bit_len
           A == Lib!Value(a)
           B == Lib!Value(b)
           differ == (A \ B) \union (B \ A)
           m == Lib!Max(differ)
<1>1. n \in Nat
  BY DEF Sound, BitArray
<1>2. a.data = A /\ b.data = B /\ A \in SUBSET (0 .. n - 1) /\ B \in SUBSET (0 .. n - 1)
  BY DEF Sound, BitArray, Tight, Lib!Value
<1>3. Lib!SerialCompare(a, b)
        = IF differ = {} THEN 0 ELSE IF m \in B THEN -1 ELSE 1
  BY <1>2 DEF Lib!SerialCompare
<1> HIDE DEF n, A, B
<1>4. CASE differ = {}
  <2>1. A = B
    BY <1>4
  <2> QED BY <1>3, <1>4, <2>1 DEF n, A, B
<1>5. CASE differ # {}
  <2>1. m \in differ /\ \A p \in differ : p <= m
    <3>1. differ \in SUBSET (0 .. n - 1)
      BY <1>2
    <3> QED BY <1>1, <1>5, <3>1, GreatestIsThere
  <2>2. m \in 0 .. n - 1
    BY <1>2, <2>1
  <2>3. \A p \in 0 .. n - 1 : p > m => (p \in A <=> p \in B)
    BY <2>1, <2>2
  <2> HIDE DEF m
  <2>4. CASE m \in B
    <3>1. m \notin A
      BY <2>1, <2>4
    <3>2. Lib!Sets!Number(n, A) < Lib!Sets!Number(n, B)
      BY <1>1, <2>2, <2>3, <2>4, <3>1, NumberOrder
    <3>3. Lib!SerialCompare(a, b) = -1
      BY <1>3, <1>5, <2>4
    <3> QED BY <3>2, <3>3 DEF n, A, B
  <2>5. CASE m \notin B
    <3>1. m \in A
      BY <2>1, <2>5
    <3>2. /\ Lib!Sets!Number(n, B) < Lib!Sets!Number(n, A)
          /\ Lib!Sets!Number(n, A) \in Nat /\ Lib!Sets!Number(n, B) \in Nat
      BY <1>1, <2>2, <2>3, <2>5, <3>1, NumberOrder
    <3>3. Lib!SerialCompare(a, b) = 1
      BY <1>3, <1>5, <2>5
    <3>4. Lib!Sets!Number(n, A) > Lib!Sets!Number(n, B)
      BY <3>2
    <3> QED BY <3>3, <3>4 DEF n, A, B
  <2> QED BY <2>4, <2>5
<1> QED BY <1>4, <1>5

(* equal tells arrays of at most one bit apart, whose counts say which     *)
(* bits are set.                                                           *)
LEMMA EqualsOneBit ==
    ASSUME NEW a, NEW b, Sound(a), Sound(b), a.bit_len <= 1, b.bit_len <= 1
    PROVE  Lib!Equal(a, b) <=> a.bit_len = b.bit_len /\ Lib!Value(a) = Lib!Value(b)
<1> DEFINE A == Lib!Value(a)
           B == Lib!Value(b)
<1>1. a.num_set = Cardinality(A) /\ b.num_set = Cardinality(B)
  BY DEF Sound
<1>2. A \subseteq {0} /\ B \subseteq {0}
  BY DEF Sound, BitArray, Lib!Value
<1>3. Cardinality({}) = 0 /\ Cardinality({0}) = 1
  BY FS_EmptySet, FS_Singleton
<1> HIDE DEF A, B
<1>4. (A = {} \/ A = {0}) /\ (B = {} \/ B = {0})
  BY <1>2
<1>5. a.num_set = b.num_set <=> A = B
  BY <1>1, <1>3, <1>4
<1> QED BY <1>5 DEF Lib!Equal, A, B

(* The invariant: arrays are sound, without padding bits in a program that *)
(* fills none and of one length in one that copies, and an iteration under *)
(* way is within its array.                                                *)
BitsInv ==
    /\ usage \in Usages
    /\ arr \in [Ids -> BitArray]
    /\ iterating \in [Ids -> BOOLEAN]
    /\ \A a \in Ids :
         /\ Sound(arr[a])
         /\ arr[a].bit_len <= usage.longest
         /\ iterating[a] => arr[a].pos \in -1 .. arr[a].bit_len - 1
    /\ "fill" \notin usage.calls => \A a \in Ids : Tight(arr[a])
    /\ "copy" \in usage.calls => \A a, b \in Ids : arr[a].bit_len = arr[b].bit_len

(* A call that replaces one array.                                         *)
Replaces(a, new) ==
    /\ a \in Ids
    /\ usage' = usage
    /\ arr' = [arr EXCEPT ![a] = new]
    /\ \E going \in BOOLEAN : iterating' = [iterating EXCEPT ![a] = going]

LEMMA ReplacesKeeps ==
    ASSUME BitsInv, NEW a, NEW new, Replaces(a, new),
           Sound(new), new.bit_len <= usage.longest,
           "fill" \notin usage.calls => Tight(new),
           "copy" \in usage.calls => new.bit_len = arr[a].bit_len,
           iterating'[a] => new.pos \in -1 .. new.bit_len - 1
    PROVE  BitsInv'
<1>1. new \in BitArray
  BY DEF Sound
<1>2. arr' \in [Ids -> BitArray] /\ iterating' \in [Ids -> BOOLEAN]
  BY <1>1 DEF BitsInv, Replaces
<1>3. \A b \in Ids : arr'[b] = (IF b = a THEN new ELSE arr[b])
                     /\ (b # a => iterating'[b] = iterating[b])
  BY DEF BitsInv, Replaces
<1>4. usage' = usage /\ a \in Ids
  BY DEF Replaces
<1>5. \A b \in Ids : /\ Sound(arr'[b])
                     /\ arr'[b].bit_len <= usage'.longest
                     /\ iterating'[b] => arr'[b].pos \in -1 .. arr'[b].bit_len - 1
  BY <1>3, <1>4 DEF BitsInv
<1>6. "fill" \notin usage'.calls => \A b \in Ids : Tight(arr'[b])
  BY <1>3, <1>4 DEF BitsInv
<1>7. "copy" \in usage'.calls => \A b, c \in Ids : arr'[b].bit_len = arr'[c].bit_len
  BY <1>3, <1>4 DEF BitsInv
<1>8. usage' \in Usages
  BY <1>4 DEF BitsInv
<1> QED BY <1>2, <1>5, <1>6, <1>7, <1>8 DEF BitsInv


(* The sets the arrays stand for.                                          *)
LenOf == [a \in Ids |-> arr[a].bit_len]
BitsOf == [a \in Ids |-> Lib!Value(arr[a])]
CursorOf == [a \in Ids |-> IF iterating[a] THEN arr[a].pos ELSE MaxLen]

LEMMA ReplacesMaps ==
    ASSUME BitsInv, NEW a, NEW new, Replaces(a, new)
    PROVE  /\ LenOf' = [LenOf EXCEPT ![a] = new.bit_len]
           /\ BitsOf' = [BitsOf EXCEPT ![a] = Lib!Value(new)]
           /\ CursorOf' = [CursorOf EXCEPT ![a] = IF iterating'[a] THEN new.pos ELSE MaxLen]
<1>1. /\ a \in Ids
      /\ \A b \in Ids : arr'[b] = (IF b = a THEN new ELSE arr[b])
                        /\ (b # a => iterating'[b] = iterating[b])
  BY DEF BitsInv, Replaces
<1>2. LenOf' = [LenOf EXCEPT ![a] = new.bit_len]
  BY <1>1 DEF LenOf
<1>3. BitsOf' = [BitsOf EXCEPT ![a] = Lib!Value(new)]
  BY <1>1 DEF BitsOf
<1>4. CursorOf' = [CursorOf EXCEPT ![a] = IF iterating'[a] THEN new.pos ELSE MaxLen]
  BY <1>1 DEF CursorOf
<1> QED BY <1>2, <1>3, <1>4

LEMMA SetsPut ==
    ASSUME NEW a, NEW S, NEW val
    PROVE  Lib!Sets!Put(a, S, val) <=>
             /\ S \subseteq 0 .. LenOf[a] - 1
             /\ BitsOf' = [BitsOf EXCEPT ![a] = IF val THEN Joined(@, S) ELSE Removed(@, S)]
             /\ out' = 0
             /\ LenOf' = LenOf /\ CursorOf' = CursorOf
  BY DEF Lib!Sets!Put, LenOf, BitsOf, CursorOf, Joined, Removed

LEMMA SetsResize ==
    ASSUME NEW a, NEW n
    PROVE  Lib!Sets!Resize(a, n) <=>
             /\ LenOf' = [LenOf EXCEPT ![a] = n]
             /\ BitsOf' = [BitsOf EXCEPT ![a] = {}]
             /\ CursorOf' = [CursorOf EXCEPT ![a] = MaxLen]
             /\ out' = 0
  BY DEF Lib!Sets!Resize, Lib!Sets!Ended, LenOf, BitsOf, CursorOf


LEMMA SetsExtend ==
    ASSUME NEW a, NEW num
    PROVE  Lib!Sets!Extend(a, num) <=>
             /\ LenOf' = [LenOf EXCEPT ![a] = @ + num]
             /\ BitsOf' = BitsOf /\ CursorOf' = CursorOf
             /\ out' = 0
  BY DEF Lib!Sets!Extend, LenOf, BitsOf, CursorOf

LEMMA SetsCopy ==
    ASSUME NEW l, NEW r
    PROVE  Lib!Sets!Copy(l, r) <=>
             /\ LenOf' = [LenOf EXCEPT ![l] = LenOf[r]]
             /\ BitsOf' = [BitsOf EXCEPT ![l] = BitsOf[r]]
             /\ CursorOf' = CursorOf
             /\ out' = 0
  BY DEF Lib!Sets!Copy, LenOf, BitsOf, CursorOf

LEMMA SetsFlip ==
    ASSUME NEW a, NEW p
    PROVE  Lib!Sets!Flip(a, p) <=>
             /\ BitsOf' = [BitsOf EXCEPT ![a] = IF p \in @ THEN Removed(@, {p}) ELSE Joined(@, {p})]
             /\ out' = (IF p \notin BitsOf[a] THEN 1 ELSE 0)
             /\ LenOf' = LenOf /\ CursorOf' = CursorOf
  BY DEF Lib!Sets!Flip, Lib!Sets!Bit, LenOf, BitsOf, CursorOf, Joined, Removed

(* The queries change nothing.                                             *)
LEMMA SetsQueries ==
    ASSUME NEW a, NEW b, LenOf' = LenOf, BitsOf' = BitsOf, CursorOf' = CursorOf
    PROVE  /\ out' = Cardinality(BitsOf[a]) => Lib!Sets!Count(a)
           /\ out' = (IF LenOf[a] = LenOf[b] /\ BitsOf[a] = BitsOf[b] THEN 1 ELSE 0)
              => Lib!Sets!Equal(a, b)
           /\ LET x == Lib!Sets!Number(LenOf[a], BitsOf[a])
                  y == Lib!Sets!Number(LenOf[b], BitsOf[b])
              IN  /\ LenOf[a] = LenOf[b]
                  /\ \/ x < y /\ out' = -1
                     \/ x = y /\ out' = 0
                     \/ x > y /\ out' = 1
                  => Lib!Sets!Compare(a, b)
<1>1. \A S : Lib!Sets!Cardinality(S) = Cardinality(S)
  BY DEF Lib!Sets!Cardinality, Cardinality
<1>2. out' = Cardinality(BitsOf[a]) => Lib!Sets!Count(a)
  BY <1>1 DEF Lib!Sets!Count, LenOf, BitsOf, CursorOf
<1>3. out' = (IF LenOf[a] = LenOf[b] /\ BitsOf[a] = BitsOf[b] THEN 1 ELSE 0) => Lib!Sets!Equal(a, b)
  BY DEF Lib!Sets!Equal, Lib!Sets!Bit, LenOf, BitsOf, CursorOf
<1>4. LET x == Lib!Sets!Number(LenOf[a], BitsOf[a])
          y == Lib!Sets!Number(LenOf[b], BitsOf[b])
      IN  /\ LenOf[a] = LenOf[b]
          /\ \/ x < y /\ out' = -1
             \/ x = y /\ out' = 0
             \/ x > y /\ out' = 1
          => Lib!Sets!Compare(a, b)
  BY DEF Lib!Sets!Compare, LenOf, BitsOf, CursorOf
<1> QED BY <1>2, <1>3, <1>4

LEMMA SetsIterReset ==
    ASSUME NEW a
    PROVE  Lib!Sets!IterReset(a) <=>
             /\ CursorOf' = [CursorOf EXCEPT ![a] = -1]
             /\ LenOf' = LenOf /\ BitsOf' = BitsOf
             /\ out' = 0
  BY DEF Lib!Sets!IterReset, LenOf, BitsOf, CursorOf

LEMMA SetsIterNext ==
    ASSUME NEW a, CursorOf[a] # MaxLen, LenOf' = LenOf, BitsOf' = BitsOf,
           LET ahead == {p \in BitsOf[a] : p > CursorOf[a]}
           IN  \/ /\ ahead # {}
                  /\ CursorOf' = [CursorOf EXCEPT ![a] = Lib!Sets!Min(ahead)]
                  /\ out' = Lib!Sets!Min(ahead)
               \/ /\ ahead = {}
                  /\ CursorOf' = [CursorOf EXCEPT ![a] = MaxLen]
                  /\ out' = -1
    PROVE  Lib!Sets!IterNext(a)
  BY DEF Lib!Sets!IterNext, Lib!Sets!Ended, LenOf, BitsOf, CursorOf

-----------------------------------------------------------------------------
(* The calls: each keeps the invariant and is a step of BitSet.            *)

LEMMA BecomesReplaces ==
    ASSUME BitsInv, Lib!UsagesInRange, NEW a, NEW new, NEW result, Lib!Becomes(a, new, result),
           \E going \in BOOLEAN : iterating' = [iterating EXCEPT ![a] = going]
    PROVE  Replaces(a, new) /\ out' = result /\ a \in Ids
  BY DEF BitsInv, Lib!UsagesInRange, Lib!Becomes, Replaces

LEMMA SameIterating ==
    ASSUME BitsInv, NEW a \in Ids, iterating' = iterating
    PROVE  /\ \E going \in BOOLEAN : iterating' = [iterating EXCEPT ![a] = going]
           /\ iterating'[a] = iterating[a]
<1>1. iterating[a] \in BOOLEAN /\ iterating' = [iterating EXCEPT ![a] = iterating[a]]
  BY DEF BitsInv
<1> QED BY <1>1

(* A call that leaves the length and the iterator of its array.            *)
LEMMA SameLength ==
    ASSUME BitsInv, Lib!UsagesInRange, NEW a \in Ids, NEW new, NEW result, NEW S,
           Lib!Becomes(a, new, result), iterating' = iterating,
           Leaves(arr[a], new, arr[a].bit_len, S), new.pos = arr[a].pos
    PROVE  /\ BitsInv'
           /\ LenOf' = LenOf /\ CursorOf' = CursorOf
           /\ BitsOf' = [BitsOf EXCEPT ![a] = S]
           /\ out' = result
<1>1. Replaces(a, new) /\ out' = result
  BY BecomesReplaces, SameIterating
<1>2. Sound(new) /\ new.bit_len = arr[a].bit_len /\ Lib!Value(new) = S
      /\ (Tight(arr[a]) => Tight(new))
  BY DEF Leaves
<1>3. iterating'[a] => new.pos \in -1 .. new.bit_len - 1
  BY <1>2, SameIterating DEF BitsInv
<1>4. BitsInv'
  BY <1>1, <1>2, <1>3, ReplacesKeeps DEF BitsInv
<1>5. /\ LenOf' = [LenOf EXCEPT ![a] = arr[a].bit_len]
      /\ BitsOf' = [BitsOf EXCEPT ![a] = S]
      /\ CursorOf' = [CursorOf EXCEPT ![a] = IF iterating[a] THEN arr[a].pos ELSE MaxLen]
  BY <1>1, <1>2, ReplacesMaps, SameIterating
<1>6. LenOf' = LenOf
  BY <1>5 DEF LenOf
<1>7. CursorOf' = CursorOf
  BY <1>5 DEF CursorOf
<1> QED BY <1>1, <1>4, <1>5, <1>6, <1>7

(* A call that changes no array.                                           *)
LEMMA NothingChanges ==
    ASSUME BitsInv, usage' = usage, arr' = arr, iterating' = iterating
    PROVE  BitsInv' /\ LenOf' = LenOf /\ BitsOf' = BitsOf /\ CursorOf' = CursorOf
<1>1. BitsInv'
  BY DEF BitsInv
<1> QED BY <1>1 DEF LenOf, BitsOf, CursorOf

LEMMA BecomesItself ==
    ASSUME BitsInv, Lib!UsagesInRange, NEW a, NEW result, Lib!Becomes(a, arr[a], result)
    PROVE  usage' = usage /\ arr' = arr /\ out' = result /\ a \in Ids
  BY DEF BitsInv, Lib!UsagesInRange, Lib!Becomes


LEMMA ResizeStep ==
    ASSUME BitsInv, Lib!UsagesInRange, Lib!Unmixed, NEW a \in Ids, NEW n \in 0 .. MaxLen,
           Lib!CallResize(a, n)
    PROVE  BitsInv' /\ Lib!Sets!Resize(a, n)
<1> DEFINE new == Lib!Resize(arr[a], n)
<1>1. /\ "copy" \notin usage.calls /\ n <= usage.longest
      /\ Lib!Becomes(a, new, 0) /\ iterating' = [iterating EXCEPT ![a] = FALSE]
  BY DEF Lib!CallResize, Lib!Unmixed, BitsInv
<1>2. arr[a].pos \in Int /\ n \in Nat
  BY DEF BitsInv, BitArray, Lib!UsagesInRange
<1>3. Sound(new) /\ new.bit_len = n /\ Lib!Value(new) = {} /\ Tight(new)
  BY <1>2, ResizeLeaves
<1> HIDE DEF new
<1>4. Replaces(a, new) /\ out' = 0 /\ iterating'[a] = FALSE
  <2>1. iterating'[a] = FALSE
    BY <1>1 DEF BitsInv
  <2>2. \E going \in BOOLEAN : iterating' = [iterating EXCEPT ![a] = going]
    BY <1>1
  <2> QED BY <1>1, <2>1, <2>2, BecomesReplaces
<1>5. BitsInv'
  BY <1>1, <1>3, <1>4, ReplacesKeeps
<1>6. Lib!Sets!Resize(a, n)
  BY <1>3, <1>4, ReplacesMaps, SetsResize
<1> QED BY <1>5, <1>6

LEMMA ExtendStep ==
    ASSUME BitsInv, Lib!UsagesInRange, Lib!Unmixed, NEW a \in Ids, NEW num \in 0 .. MaxLen,
           Lib!CallExtend(a, num)
    PROVE  BitsInv' /\ Lib!Sets!Extend(a, num)
<1> DEFINE new == Lib!Extend(arr[a], num)
<1>1. /\ "copy" \notin usage.calls /\ Tight(arr[a]) /\ arr[a].bit_len + num <= usage.longest
      /\ Lib!Becomes(a, new, 0) /\ iterating' = iterating
  BY DEF Lib!CallExtend, Lib!Unmixed, BitsInv
<1>2. Sound(arr[a]) /\ num \in Nat /\ arr[a].bit_len \in Nat
  BY DEF BitsInv, BitArray, Lib!UsagesInRange
<1>3. Leaves(arr[a], new, arr[a].bit_len + num, Lib!Value(arr[a])) /\ new.pos = arr[a].pos
  BY <1>1, <1>2, ExtendLeaves
<1> HIDE DEF new
<1>4. Replaces(a, new) /\ out' = 0 /\ iterating'[a] = iterating[a]
  BY <1>1, BecomesReplaces, SameIterating
<1>5. /\ Sound(new) /\ new.bit_len = arr[a].bit_len + num /\ Tight(new)
      /\ Lib!Value(new) = Lib!Value(arr[a])
  BY <1>1, <1>3 DEF Leaves
<1>6. iterating'[a] => new.pos \in -1 .. new.bit_len - 1
  <2>1. iterating[a] => arr[a].pos \in -1 .. arr[a].bit_len - 1
    BY DEF BitsInv
  <2> DEFINE n == arr[a].bit_len
  <2>2. n \in Nat /\ new.bit_len = n + num /\ -1 .. n - 1 \subseteq -1 .. (n + num) - 1
    BY <1>2, <1>5
  <2> QED BY <1>3, <1>4, <2>1, <2>2
<1>7. BitsInv'
  BY <1>1, <1>4, <1>5, <1>6, ReplacesKeeps
<1>8. /\ LenOf' = [LenOf EXCEPT ![a] = arr[a].bit_len + num]
      /\ BitsOf' = [BitsOf EXCEPT ![a] = Lib!Value(arr[a])]
      /\ CursorOf' = [CursorOf EXCEPT ![a] = IF iterating[a] THEN arr[a].pos ELSE MaxLen]
  BY <1>3, <1>4, <1>5, ReplacesMaps
<1>9. LenOf' = [LenOf EXCEPT ![a] = @ + num]
  BY <1>8 DEF LenOf
<1>10. BitsOf' = BitsOf /\ CursorOf' = CursorOf
  BY <1>8 DEF BitsOf, CursorOf
<1> QED BY <1>4, <1>7, <1>9, <1>10, SetsExtend

LEMMA CopyStep ==
    ASSUME BitsInv, Lib!UsagesInRange, NEW l \in Ids, NEW r \in Ids, Lib!CallCopy(l, r)
    PROVE  BitsInv' /\ Lib!Sets!Copy(l, r)
<1> DEFINE a == arr[l]
           b == arr[r]
           new == Lib!Copy(a, b)
<1>1. /\ a.bit_len = b.bit_len
      /\ "fill" \notin usage.calls => Tight(b)
      /\ Lib!Becomes(l, new, 0) /\ iterating' = iterating
  BY DEF Lib!CallCopy, BitsInv
<1>2. Sound(a) /\ Sound(b) /\ a \in BitArray /\ b \in BitArray
  BY DEF BitsInv
<1>3. new = Rewritten(a, b.data, b.num_set)
  BY <1>1 DEF Lib!Copy, Rewritten
<1>4. b.data \in SUBSET Nat /\ b.num_set \in Int
  BY <1>2 DEF BitArray
<1> HIDE DEF a, b, new
<1>5. /\ new \in BitArray /\ new.bit_len = a.bit_len /\ new.data = b.data
      /\ new.num_set = b.num_set /\ new.pos = a.pos
  BY <1>2, <1>3, <1>4, WithFields
<1>6. Lib!Value(new) = Lib!Value(b)
  BY <1>1, <1>5 DEF Lib!Value
<1>7. Sound(new)
  BY <1>1, <1>2, <1>5, <1>6 DEF Sound
<1>8. Replaces(l, new) /\ out' = 0 /\ iterating'[l] = iterating[l]
  BY <1>1, BecomesReplaces, SameIterating
<1>9. iterating'[l] => new.pos \in -1 .. new.bit_len - 1
  BY <1>5, <1>8 DEF BitsInv, a
<1>10. BitsInv'
  <2>1. new.bit_len <= usage.longest
    BY <1>5 DEF BitsInv, a
  <2>2. "fill" \notin usage.calls => Tight(new)
    BY <1>1, <1>5 DEF Tight
  <2> QED BY <1>1, <1>5, <1>7, <1>8, <1>9, <2>1, <2>2, ReplacesKeeps DEF a
<1>11. /\ LenOf' = [LenOf EXCEPT ![l] = b.bit_len]
       /\ BitsOf' = [BitsOf EXCEPT ![l] = Lib!Value(b)]
       /\ CursorOf' = [CursorOf EXCEPT ![l] = IF iterating[l] THEN a.pos ELSE MaxLen]
  BY <1>1, <1>5, <1>6, <1>8, ReplacesMaps
<1>12. LenOf[r] = b.bit_len /\ BitsOf[r] = Lib!Value(b)
  BY DEF LenOf, BitsOf, b
<1>13. CursorOf' = CursorOf
  BY <1>11 DEF CursorOf, a
<1> QED BY <1>8, <1>10, <1>11, <1>12, <1>13, SetsCopy

LEMMA SetBitValStep ==
    ASSUME BitsInv, Lib!UsagesInRange, NEW a \in Ids, NEW p \in Lib!Positions(a), NEW val \in BOOLEAN,
           Lib!CallSetBitVal(a, p, val)
    PROVE  BitsInv' /\ \E S \in SUBSET (0 .. LenOf[a] - 1) : Lib!Sets!Put(a, S, val)
<1> DEFINE new == Lib!SetBitVal(arr[a], p, val)
           S == IF val THEN Joined(Lib!Value(arr[a]), {p}) ELSE Removed(Lib!Value(arr[a]), {p})
<1>1. Lib!Becomes(a, new, 0) /\ iterating' = iterating
  BY DEF Lib!CallSetBitVal
<1>2. Sound(arr[a]) /\ p \in 0 .. arr[a].bit_len - 1
  BY DEF BitsInv, Lib!Positions
<1>3. Leaves(arr[a], new, arr[a].bit_len, S) /\ new.pos = arr[a].pos
  BY <1>2, SetBitValLeaves
<1> HIDE DEF new, S
<1>4. /\ BitsInv' /\ LenOf' = LenOf /\ CursorOf' = CursorOf /\ out' = 0
      /\ BitsOf' = [BitsOf EXCEPT ![a] = S]
  BY <1>1, <1>3, SameLength
<1>5. BitsOf' = [BitsOf EXCEPT ![a] = IF val THEN Joined(@, {p}) ELSE Removed(@, {p})]
  BY <1>4 DEF BitsOf, S
<1>6. {p} \in SUBSET (0 .. LenOf[a] - 1)
  BY <1>2 DEF LenOf
<1>7. Lib!Sets!Put(a, {p}, val)
  BY <1>4, <1>5, <1>6, SetsPut
<1> QED BY <1>4, <1>6, <1>7

LEMMA FlipBitStep ==
    ASSUME BitsInv, Lib!UsagesInRange, NEW a \in Ids, NEW p \in Lib!Positions(a),
           Lib!CallFlipBit(a, p)
    PROVE  BitsInv' /\ p \in 0 .. LenOf[a] - 1 /\ Lib!Sets!Flip(a, p)
<1> DEFINE new == Lib!FlipBit(arr[a], p)
           V == Lib!Value(arr[a])
           S == IF p \in V THEN Removed(V, {p}) ELSE Joined(V, {p})
           result == IF Lib!GetBit(new, p) THEN 1 ELSE 0
<1>1. Lib!Becomes(a, new, result) /\ iterating' = iterating
  BY DEF Lib!CallFlipBit
<1>2. Sound(arr[a]) /\ p \in 0 .. arr[a].bit_len - 1
  BY DEF BitsInv, Lib!Positions
<1>3. /\ Leaves(arr[a], new, arr[a].bit_len, S) /\ new.pos = arr[a].pos
      /\ Lib!GetBit(new, p) <=> p \notin V
  BY <1>2, FlipBitLeaves
<1>4. result = IF p \notin V THEN 1 ELSE 0
  BY <1>3
<1> HIDE DEF new, S, result
<1>5. /\ BitsInv' /\ LenOf' = LenOf /\ CursorOf' = CursorOf /\ out' = result
      /\ BitsOf' = [BitsOf EXCEPT ![a] = S]
  BY <1>1, <1>3, SameLength
<1>6. BitsOf[a] = V
  BY DEF BitsOf
<1>7. BitsOf' = [BitsOf EXCEPT ![a] = IF p \in @ THEN Removed(@, {p}) ELSE Joined(@, {p})]
  BY <1>5, <1>6 DEF S
<1>8. p \in 0 .. LenOf[a] - 1
  BY <1>2 DEF LenOf
<1>9. out' = (IF p \notin BitsOf[a] THEN 1 ELSE 0)
  BY <1>4, <1>5, <1>6
<1> QED BY <1>5, <1>7, <1>8, <1>9, SetsFlip

LEMMA SetRangeStep ==
    ASSUME BitsInv, Lib!UsagesInRange, NEW a \in Ids,
           NEW start \in Lib!Positions(a), NEW stop \in Lib!Positions(a), NEW val \in BOOLEAN,
           Lib!CallSetRange(a, start, stop, val)
    PROVE  BitsInv' /\ \E S \in SUBSET (0 .. LenOf[a] - 1) : Lib!Sets!Put(a, S, val)
<1> DEFINE new == Lib!SetRange(arr[a], start, stop, val)
           range == start .. stop
           S == IF val THEN Joined(Lib!Value(arr[a]), range) ELSE Removed(Lib!Value(arr[a]), range)
<1>1. Lib!Becomes(a, new, 0) /\ iterating' = iterating
  BY DEF Lib!CallSetRange
<1>2. Sound(arr[a]) /\ start \in 0 .. arr[a].bit_len - 1 /\ stop \in 0 .. arr[a].bit_len - 1
  BY DEF BitsInv, Lib!Positions
<1>3. Leaves(arr[a], new, arr[a].bit_len, S) /\ new.pos = arr[a].pos
  BY <1>2, SetRangeLeaves
<1>4. arr[a].bit_len \in Nat
  BY <1>2 DEF Sound, BitArray
<1>5. range \in SUBSET (0 .. LenOf[a] - 1)
  BY <1>2, <1>4 DEF LenOf
<1> HIDE DEF new, S, range
<1>6. /\ BitsInv' /\ LenOf' = LenOf /\ CursorOf' = CursorOf /\ out' = 0
      /\ BitsOf' = [BitsOf EXCEPT ![a] = S]
  BY <1>1, <1>3, SameLength
<1>7. BitsOf' = [BitsOf EXCEPT ![a] = IF val THEN Joined(@, range) ELSE Removed(@, range)]
  BY <1>6 DEF BitsOf, S
<1>8. Lib!Sets!Put(a, range, val)
  BY <1>5, <1>6, <1>7, SetsPut
<1> QED BY <1>5, <1>6, <1>8

LEMMA ResetStep ==
    ASSUME BitsInv, Lib!UsagesInRange, NEW a \in Ids, NEW val \in BOOLEAN, Lib!CallReset(a, val)
    PROVE  BitsInv' /\ \E S \in SUBSET (0 .. LenOf[a] - 1) : Lib!Sets!Put(a, S, val)
<1> DEFINE new == Lib!Reset(arr[a], val)
           all == 0 .. arr[a].bit_len - 1
           S == IF val THEN all ELSE {}
<1>1. /\ Lib!Becomes(a, new, 0) /\ iterating' = iterating
      /\ "fill" \notin usage.calls => val = FALSE
  BY DEF Lib!CallReset
<1>2. Sound(arr[a]) /\ arr[a] \in BitArray /\ arr[a].bit_len \in Nat
  BY DEF BitsInv, BitArray
<1>3. /\ Sound(new) /\ new.bit_len = arr[a].bit_len /\ new.pos = arr[a].pos
      /\ Lib!Value(new) = S /\ (val = FALSE => Tight(new))
  BY <1>2, ResetLeaves
<1> HIDE DEF new
<1>4. Replaces(a, new) /\ out' = 0 /\ iterating'[a] = iterating[a]
  BY <1>1, BecomesReplaces, SameIterating
<1>5. BitsInv'
  <2>1. new.bit_len <= usage.longest
    BY <1>3 DEF BitsInv
  <2>2. iterating'[a] => new.pos \in -1 .. new.bit_len - 1
    BY <1>3, <1>4 DEF BitsInv
  <2> QED BY <1>1, <1>3, <1>4, <2>1, <2>2, ReplacesKeeps
<1>6. /\ LenOf' = [LenOf EXCEPT ![a] = arr[a].bit_len]
      /\ BitsOf' = [BitsOf EXCEPT ![a] = S]
      /\ CursorOf' = [CursorOf EXCEPT ![a] = IF iterating[a] THEN arr[a].pos ELSE MaxLen]
  BY <1>3, <1>4, ReplacesMaps
<1>7. LenOf' = LenOf /\ CursorOf' = CursorOf
  BY <1>6 DEF LenOf, CursorOf
<1>8. BitsOf[a] = Lib!Value(arr[a]) /\ Lib!Value(arr[a]) \subseteq all
  BY <1>2, FiniteBits DEF BitsOf
<1>9. S = IF val THEN Joined(BitsOf[a], all) ELSE Removed(BitsOf[a], all)
  BY <1>8 DEF Joined, Removed
<1>10. BitsOf' = [BitsOf EXCEPT ![a] = IF val THEN Joined(@, all) ELSE Removed(@, all)]
  <2> HIDE DEF S, all
  <2> QED BY <1>6, <1>9
<1>11. all \in SUBSET (0 .. LenOf[a] - 1)
  BY DEF LenOf
<1> HIDE DEF all, S
<1>12. Lib!Sets!Put(a, all, val)
  BY <1>4, <1>7, <1>10, <1>11, SetsPut
<1> QED BY <1>5, <1>11, <1>12


LEMMA QuerySteps ==
    ASSUME BitsInv, Lib!UsagesInRange, NEW a \in Ids, NEW b \in Ids,
           Lib!CallGetNumSet(a) \/ Lib!CallEqual(a, b) \/ Lib!CallSerialCompare(a, b)
    PROVE  /\ BitsInv'
           /\ Lib!Comparable(usage)
              => Lib!Sets!Count(a) \/ Lib!Sets!Equal(a, b) \/ Lib!Sets!Compare(a, b)
<1>1. \E result : Lib!Becomes(a, arr[a], result)
  BY DEF Lib!CallGetNumSet, Lib!CallEqual, Lib!CallSerialCompare
<1>2. iterating' = iterating
  BY DEF Lib!CallGetNumSet, Lib!CallEqual, Lib!CallSerialCompare
<1>3. BitsInv' /\ LenOf' = LenOf /\ BitsOf' = BitsOf /\ CursorOf' = CursorOf
  BY <1>1, <1>2, BecomesItself, NothingChanges
<1>4. /\ Sound(arr[a]) /\ Sound(arr[b]) /\ arr[a] \in BitArray /\ arr[b] \in BitArray
      /\ LenOf[a] = arr[a].bit_len /\ BitsOf[a] = Lib!Value(arr[a])
      /\ LenOf[b] = arr[b].bit_len /\ BitsOf[b] = Lib!Value(arr[b])
  BY DEF BitsInv, LenOf, BitsOf
<1>5. SUFFICES ASSUME Lib!Comparable(usage)
               PROVE  Lib!Sets!Count(a) \/ Lib!Sets!Equal(a, b) \/ Lib!Sets!Compare(a, b)
  BY <1>3
<1>6. CASE Lib!CallGetNumSet(a)
  <2>1. out' = arr[a].num_set
    BY <1>6, BecomesItself DEF Lib!CallGetNumSet
  <2>2. out' = Cardinality(BitsOf[a])
    BY <1>4, <2>1 DEF Sound
  <2> QED BY <1>3, <2>2, SetsQueries
<1>7. CASE Lib!CallEqual(a, b)
  <2> DEFINE result == IF Lib!Equal(arr[a], arr[b]) THEN 1 ELSE 0
  <2>1. /\ Lib!Becomes(a, arr[a], result)
        /\ "equal" \in usage.calls
    BY <1>7 DEF Lib!CallEqual
  <2>2. out' = result
    <3> HIDE DEF result
    <3> QED BY <2>1, BecomesItself
  <2>3. arr[a].bit_len <= 1 /\ arr[b].bit_len <= 1
    BY <1>5, <2>1 DEF Lib!Comparable, BitsInv
  <2>4. out' = (IF LenOf[a] = LenOf[b] /\ BitsOf[a] = BitsOf[b] THEN 1 ELSE 0)
    BY <1>4, <2>2, <2>3, EqualsOneBit
  <2> QED BY <1>3, <2>4, SetsQueries
<1>8. CASE Lib!CallSerialCompare(a, b)
  <2>1. /\ out' = Lib!SerialCompare(arr[a], arr[b])
        /\ arr[a].bit_len = arr[b].bit_len /\ "compare" \in usage.calls
    BY <1>8, BecomesItself DEF Lib!CallSerialCompare
  <2>2. Tight(arr[a]) /\ Tight(arr[b])
    BY <1>5, <2>1 DEF Lib!Comparable, BitsInv
  <2>3. LET x == Lib!Sets!Number(LenOf[a], BitsOf[a])
            y == Lib!Sets!Number(LenOf[b], BitsOf[b])
        IN  \/ x < y /\ out' = -1
            \/ x = y /\ out' = 0
            \/ x > y /\ out' = 1
    BY <1>4, <2>1, <2>2, ComparesNumbers
  <2> QED BY <1>3, <1>4, <2>1, <2>3, SetsQueries
<1> QED BY <1>6, <1>7, <1>8

LEMMA IterResetStep ==
    ASSUME BitsInv, Lib!UsagesInRange, NEW a \in Ids, Lib!CallIterReset(a)
    PROVE  BitsInv' /\ Lib!Sets!IterReset(a)
<1> DEFINE new == Moved(arr[a], -1)
<1>1. Lib!Becomes(a, new, 0) /\ iterating' = [iterating EXCEPT ![a] = TRUE]
  BY DEF Lib!CallIterReset, Lib!IterReset, Moved
<1>2. Sound(arr[a]) /\ arr[a].bit_len \in Nat
  BY DEF BitsInv, BitArray
<1>3. Leaves(arr[a], new, arr[a].bit_len, Lib!Value(arr[a])) /\ new.pos = -1
  BY <1>2, MovedIsSound
<1> HIDE DEF new
<1>4. Replaces(a, new) /\ out' = 0 /\ iterating'[a] = TRUE
  <2>1. iterating'[a] = TRUE
    BY <1>1 DEF BitsInv
  <2>2. \E going \in BOOLEAN : iterating' = [iterating EXCEPT ![a] = going]
    BY <1>1
  <2> QED BY <1>1, <2>1, <2>2, BecomesReplaces
<1>5. /\ Sound(new) /\ new.bit_len = arr[a].bit_len /\ (Tight(arr[a]) => Tight(new))
      /\ Lib!Value(new) = Lib!Value(arr[a])
  BY <1>3 DEF Leaves
<1>6. new.bit_len <= usage.longest /\ new.pos \in -1 .. new.bit_len - 1
  BY <1>2, <1>3, <1>5 DEF BitsInv
<1>7. BitsInv'
  BY <1>4, <1>5, <1>6, ReplacesKeeps DEF BitsInv
<1>8. /\ LenOf' = [LenOf EXCEPT ![a] = arr[a].bit_len]
      /\ BitsOf' = [BitsOf EXCEPT ![a] = Lib!Value(arr[a])]
      /\ CursorOf' = [CursorOf EXCEPT ![a] = -1]
  BY <1>3, <1>4, <1>5, ReplacesMaps
<1>9. LenOf' = LenOf /\ BitsOf' = BitsOf
  BY <1>8 DEF LenOf, BitsOf
<1> QED BY <1>4, <1>7, <1>8, <1>9, SetsIterReset

LEMMA IterNextStep ==
    ASSUME BitsInv, Lib!UsagesInRange, NEW a \in Ids, Lib!CallIterNext(a)
    PROVE  BitsInv' /\ Lib!Sets!IterNext(a)
<1> DEFINE call == Lib!IterNext(arr[a])
           ahead == {p \in Lib!Value(arr[a]) : p > arr[a].pos}
           min == Lib!Sets!Min(ahead)
<1>1. /\ iterating[a]
      /\ Lib!Becomes(a, call[1], call[2])
      /\ iterating' = [iterating EXCEPT ![a] = call[2] # -1]
  BY DEF Lib!CallIterNext, Lib!NoBit
<1>2. /\ Sound(arr[a]) /\ arr[a].bit_len \in Nat /\ arr[a].bit_len <= usage.longest
      /\ usage.longest \in 1 .. MaxLen /\ MaxLen \in Nat
      /\ arr[a].pos \in -1 .. arr[a].bit_len - 1
  BY <1>1 DEF BitsInv, BitArray, Lib!UsagesInRange
<1>3. Lib!Value(arr[a]) \subseteq 0 .. arr[a].bit_len - 1
  BY <1>2, FiniteBits
<1>4. /\ ahead = {} => call[2] = -1 /\ \E n \in Int : call[1] = Moved(arr[a], n)
      /\ ahead # {} => call[2] = min /\ min \in ahead /\ call[1] = Moved(arr[a], min)
  BY <1>2, IterNextFinds
<1>5. /\ CursorOf[a] = arr[a].pos /\ CursorOf[a] # MaxLen
      /\ {p \in BitsOf[a] : p > CursorOf[a]} = ahead
  <2>1. CursorOf[a] = arr[a].pos /\ BitsOf[a] = Lib!Value(arr[a])
    BY <1>1 DEF CursorOf, BitsOf
  <2>2. arr[a].pos # MaxLen
    BY <1>2
  <2> QED BY <2>1, <2>2
<1>6. \A p \in ahead : p \in 0 .. arr[a].bit_len - 1
  BY <1>3
<1> HIDE DEF call, ahead, min
<1>7. PICK n \in Int : /\ call[1] = Moved(arr[a], n)
                       /\ ahead = {} => call[2] = -1
                       /\ ahead # {} => n = min /\ call[2] = min /\ min \in ahead
  <2>1. CASE ahead = {}
    BY <1>4, <2>1
  <2>2. CASE ahead # {}
    <3>1. min \in Int
      BY <1>4, <1>6, <2>2
    <3> QED BY <1>4, <2>2, <3>1
  <2> QED BY <2>1, <2>2
<1> DEFINE new == Moved(arr[a], n)
<1>8. Leaves(arr[a], new, arr[a].bit_len, Lib!Value(arr[a])) /\ new.pos = n
  BY <1>2, MovedIsSound
<1> HIDE DEF new
<1>9. /\ Sound(new) /\ new.bit_len = arr[a].bit_len /\ (Tight(arr[a]) => Tight(new))
      /\ Lib!Value(new) = Lib!Value(arr[a])
  BY <1>8 DEF Leaves
<1>10. iterating'[a] = (ahead # {})
  <2>1. iterating'[a] = (call[2] # -1)
    BY <1>1 DEF BitsInv
  <2>2. ahead # {} => call[2] # -1
    BY <1>2, <1>6, <1>7
  <2> QED BY <1>7, <2>1, <2>2
<1>11. Replaces(a, new) /\ out' = call[2]
  <2>1. \E going \in BOOLEAN : iterating' = [iterating EXCEPT ![a] = going]
    <3>1. (call[2] # -1) \in BOOLEAN
      OBVIOUS
    <3> QED BY <1>1, <3>1
  <2> QED BY <1>1, <1>7, <2>1, BecomesReplaces DEF new
<1>12. iterating'[a] => new.pos \in -1 .. new.bit_len - 1
  <2>1. ASSUME ahead # {} PROVE n \in 0 .. arr[a].bit_len - 1
    BY <1>6, <1>7, <2>1
  <2>2. 0 .. arr[a].bit_len - 1 \subseteq -1 .. arr[a].bit_len - 1
    BY <1>2
  <2> QED BY <1>8, <1>9, <1>10, <2>1, <2>2
<1>13. BitsInv'
  <2>1. new.bit_len <= usage.longest
    BY <1>2, <1>9
  <2> QED BY <1>9, <1>11, <1>12, <2>1, ReplacesKeeps DEF BitsInv
<1>14. /\ LenOf' = [LenOf EXCEPT ![a] = arr[a].bit_len]
       /\ BitsOf' = [BitsOf EXCEPT ![a] = Lib!Value(arr[a])]
       /\ CursorOf' = [CursorOf EXCEPT ![a] = IF iterating'[a] THEN n ELSE MaxLen]
  BY <1>8, <1>9, <1>11, ReplacesMaps
<1>15. LenOf' = LenOf /\ BitsOf' = BitsOf
  BY <1>14 DEF LenOf, BitsOf
<1>16. \/ ahead # {} /\ CursorOf' = [CursorOf EXCEPT ![a] = min] /\ out' = min
       \/ ahead = {} /\ CursorOf' = [CursorOf EXCEPT ![a] = MaxLen] /\ out' = -1
  BY <1>7, <1>10, <1>11, <1>14
<1> QED BY <1>5, <1>13, <1>15, <1>16, SetsIterNext DEF min

LEMMA BitsInit ==
    ASSUME Lib!Init, Lib!UsagesInRange
    PROVE  BitsInv /\ Lib!Sets!Init
<1>1. PICK n \in 1 .. usage.longest : arr = [a \in Ids |-> Lib!New(n)]
  BY DEF Lib!Init
<1>2. usage \in Usages /\ usage.longest \in 1 .. MaxLen /\ MaxLen \in Nat
  BY DEF Lib!Init, Lib!UsagesInRange
<1>3. n \in Nat /\ n \in 0 .. MaxLen /\ n <= usage.longest
  BY <1>2
<1>4. /\ Sound(Lib!New(n)) /\ Lib!New(n).bit_len = n
      /\ Lib!Value(Lib!New(n)) = {} /\ Tight(Lib!New(n))
  <2>1. [bit_len |-> 0, data |-> {}, num_set |-> 0, pos |-> 0].pos \in Int
    OBVIOUS
  <2> QED BY <1>3, <2>1, ResizeLeaves DEF Lib!New
<1>5. \A a \in Ids : arr[a] = Lib!New(n) /\ iterating[a] = FALSE
  BY <1>1 DEF Lib!Init
<1>6. arr \in [Ids -> BitArray]
  BY <1>1, <1>4 DEF Sound
<1>7. iterating \in [Ids -> BOOLEAN]
  BY DEF Lib!Init
<1>8. BitsInv
  BY <1>2, <1>3, <1>4, <1>5, <1>6, <1>7 DEF BitsInv
<1>9. /\ LenOf \in [Ids -> 0 .. MaxLen]
      /\ BitsOf = [a \in Ids |-> {}]
      /\ CursorOf = [a \in Ids |-> MaxLen]
  BY <1>3, <1>4, <1>5 DEF LenOf, BitsOf, CursorOf
<1>10. out = 0
  BY DEF Lib!Init
<1>11. Lib!Sets!Init
  BY <1>9, <1>10 DEF Lib!Sets!Init, Lib!Sets!Ended, LenOf, BitsOf, CursorOf
<1> QED BY <1>8, <1>11

LEMMA BitsStep ==
    ASSUME BitsInv, Lib!UsagesInRange, Lib!Unmixed, [Lib!Next]_(Lib!vars)
    PROVE  BitsInv' /\ (Lib!Comparable(usage) => [Lib!Sets!Next]_(Lib!Sets!vars))
<1>1. CASE UNCHANGED Lib!vars
  <2>1. usage' = usage /\ arr' = arr /\ iterating' = iterating /\ out' = out
    BY <1>1 DEF Lib!vars
  <2>2. BitsInv' /\ LenOf' = LenOf /\ BitsOf' = BitsOf /\ CursorOf' = CursorOf
    BY <2>1, NothingChanges
  <2>3. UNCHANGED Lib!Sets!vars
    BY <2>1, <2>2 DEF Lib!Sets!vars, LenOf, BitsOf, CursorOf
  <2> QED BY <2>2, <2>3
<1>2. CASE Lib!Next
  <2>1. PICK a \in Ids :
          \/ \E n \in 0 .. MaxLen : Lib!CallResize(a, n) \/ Lib!CallExtend(a, n)
          \/ \E b \in Ids : Lib!CallCopy(a, b) \/ Lib!CallEqual(a, b) \/ Lib!CallSerialCompare(a, b)
          \/ \E p \in Lib!Positions(a), val \in BOOLEAN : Lib!CallSetBitVal(a, p, val)
          \/ \E p \in Lib!Positions(a) : Lib!CallFlipBit(a, p)
          \/ \E p, q \in Lib!Positions(a), val \in BOOLEAN : Lib!CallSetRange(a, p, q, val)
          \/ \E val \in BOOLEAN : Lib!CallReset(a, val)
          \/ Lib!CallGetNumSet(a)
          \/ Lib!CallIterReset(a)
          \/ Lib!CallIterNext(a)
    BY <1>2 DEF Lib!Next
  <2>2. CASE \E n \in 0 .. MaxLen : Lib!CallResize(a, n) \/ Lib!CallExtend(a, n)
    <3>1. BitsInv' /\ \E n \in 0 .. MaxLen : Lib!Sets!Resize(a, n) \/ Lib!Sets!Extend(a, n)
      BY <2>2, ResizeStep, ExtendStep
    <3> QED BY <3>1 DEF Lib!Sets!Next
  <2>3. CASE \E b \in Ids : Lib!CallCopy(a, b) \/ Lib!CallEqual(a, b) \/ Lib!CallSerialCompare(a, b)
    <3>1. /\ BitsInv'
          /\ Lib!Comparable(usage)
             => \/ \E b \in Ids : \/ Lib!Sets!Copy(a, b)
                                 \/ Lib!Sets!Equal(a, b) \/ Lib!Sets!Compare(a, b)
                \/ Lib!Sets!Count(a)
      BY <2>3, CopyStep, QuerySteps
    <3> QED BY <3>1 DEF Lib!Sets!Next
  <2>4. CASE \/ \E p \in Lib!Positions(a), val \in BOOLEAN : Lib!CallSetBitVal(a, p, val)
             \/ \E p, q \in Lib!Positions(a), val \in BOOLEAN : Lib!CallSetRange(a, p, q, val)
             \/ \E val \in BOOLEAN : Lib!CallReset(a, val)
    <3>1. BitsInv' /\ \E val \in BOOLEAN : \E S \in SUBSET (0 .. LenOf[a] - 1) :
                        Lib!Sets!Put(a, S, val)
      BY <2>4, SetBitValStep, SetRangeStep, ResetStep
    <3> QED BY <3>1 DEF Lib!Sets!Next, LenOf
  <2>5. CASE \E p \in Lib!Positions(a) : Lib!CallFlipBit(a, p)
    <3>1. BitsInv' /\ \E p \in 0 .. LenOf[a] - 1 : Lib!Sets!Flip(a, p)
      BY <2>5, FlipBitStep
    <3> QED BY <3>1 DEF Lib!Sets!Next, LenOf
  <2>6. CASE Lib!CallGetNumSet(a)
    <3>1. /\ BitsInv'
          /\ Lib!Comparable(usage)
             => Lib!Sets!Count(a) \/ Lib!Sets!Equal(a, a) \/ Lib!Sets!Compare(a, a)
      BY <2>6, QuerySteps
    <3> QED BY <3>1 DEF Lib!Sets!Next
  <2>7. CASE Lib!CallIterReset(a)
    <3>1. BitsInv' /\ Lib!Sets!IterReset(a)
      BY <2>7, IterResetStep
    <3> QED BY <3>1 DEF Lib!Sets!Next
  <2>8. CASE Lib!CallIterNext(a)
    <3>1. BitsInv' /\ Lib!Sets!IterNext(a)
      BY <2>8, IterNextStep
    <3> QED BY <3>1 DEF Lib!Sets!Next
  <2> QED BY <2>1, <2>2, <2>3, <2>4, <2>5, <2>6, <2>7, <2>8
<1> QED BY <1>1, <1>2

(* The count kept of a bit array is the number of bits below its length    *)
(* that are set (bitarray.c), for arrays of any length and bytes of any    *)
(* size, whatever programs use, if none mixes the calls (UsagesAssumption).*)
THEOREM NumSetExactAlways == Lib!Spec => []NumSetExact
<1>1. Lib!Init => BitsInv
  BY BitsInit, UsagesAssumption
<1>2. BitsInv /\ [Lib!Next]_(Lib!vars) => BitsInv'
  BY BitsStep, UsagesAssumption
<1>3. BitsInv => NumSetExact
  BY LibCounts DEF BitsInv, Sound, NumSetExact, Lib!NumSetExact
<1> QED BY <1>1, <1>2, <1>3, PTL DEF Lib!Spec

(* The arrays are the sets of BitSet: every value and result that the      *)
(* functions of bitarray.c return, also within an iteration, is that of a  *)
(* set, if in addition no program compares arrays that it fills, or tests  *)
(* arrays of more than one bit for equality, which bitarray.c:368 gets     *)
(* wrong.                                                                  *)
THEOREM ArraysAreSets == (\A u \in Usages : Lib!Comparable(u)) => (Lib!Spec => RefinesBitSet)
<1> SUFFICES ASSUME \A u \in Usages : Lib!Comparable(u) PROVE Lib!Spec => RefinesBitSet
  OBVIOUS
<1>1. Lib!Init => BitsInv /\ Lib!Sets!Init
  BY BitsInit, UsagesAssumption
<1>2. BitsInv /\ [Lib!Next]_(Lib!vars) => BitsInv' /\ [Lib!Sets!Next]_(Lib!Sets!vars)
  <2>1. BitsInv => Lib!Comparable(usage)
    BY DEF BitsInv
  <2> QED BY <2>1, BitsStep, UsagesAssumption
<1> QED
  BY <1>1, <1>2, PTL DEF Lib!Spec, RefinesBitSet, Lib!RefinesBitSet, Lib!Sets!Spec
=============================================================================
