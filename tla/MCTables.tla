------------------------------ MODULE MCTables ------------------------------
(***************************************************************************)
(* The arrays and tables of the library: bit arrays (BitArrays), the       *)
(* dimensions of a space and the covariates (Naming), and the              *)
(* characteristics of administrands (Characteristics).  They do not        *)
(* interact, so that it is enough to explore the calls on one while the    *)
(* others are as they were created.                                        *)
(***************************************************************************)
EXTENDS Naming, Sequences

CONSTANTS ByteBits, Objects, Quarks, MaxRegistered, RegisterAgain,
          Ids, MaxLen, Usages

VARIABLES quark_to_char, char_to_quark, characteristics, iterated, having,
          usage, arr, iterating, out

Chars == INSTANCE Characteristics
charVars == <<quark_to_char, char_to_quark, characteristics, iterated, having>>

Lib == INSTANCE BitArrays
libVars == <<usage, arr, iterating, out>>

(* The quark 0 is no characteristic.                                       *)
ASSUME TablesAssumption ==
    /\ ByteBits \in Nat \ {0}
    /\ Chars!NoQuark \notin Quarks
    /\ RegisterAgain \in BOOLEAN

(* What programs use of the arrays is as the library uses them.            *)
ASSUME UsagesAssumption == Lib!UsagesInRange /\ Lib!Unmixed

MCIds == {"lhs", "rhs"}

(* Two eligibility vectors of a fixed length.                              *)
Fixed == [arrays |-> MCIds, longest |-> 3, calls |-> {"copy", "fill"}]

(* The attributes of two points, of spaces with several and with one.      *)
Attributes == [arrays |-> MCIds, longest |-> 3, calls |-> {"copy", "compare"}]
OneAttribute == [arrays |-> MCIds, longest |-> 1, calls |-> {"copy", "compare", "equal"}]

(* The characteristics of an administrand.                                 *)
Growing == [arrays |-> {"lhs"}, longest |-> 5, calls |-> {"resize", "extend"}]

(* No array is used.                                                       *)
Unused == [arrays |-> {}, longest |-> 1, calls |-> {}]

LibraryUsages == {Fixed, Attributes, OneAttribute, Growing, Unused}

ASSUME ComparisonsAssumption == \A u \in LibraryUsages : Lib!Comparable(u)

(* Two points are tested for equality, in a space with two attributes.     *)
EqualPoints == {[arrays |-> MCIds, longest |-> 2, calls |-> {"copy", "equal"}]}

\* The default names are distinct.
MCDefaultNames == <<"a", "b", "c">>
NoNames == <<>>

SpaceAsCreated == named = {} /\ \A dim \in Dims : names[dim] \in Garbage
CovariatesAsCreated == length = 0
CharacteristicsAsCreated == characteristics = <<>> /\ Len(char_to_quark) = 1

OneAtATime ==
    \/ SpaceAsCreated /\ CovariatesAsCreated /\ CharacteristicsAsCreated
    \/ /\ usage = Unused
       /\ \/ SpaceAsCreated /\ CovariatesAsCreated
          \/ SpaceAsCreated /\ CharacteristicsAsCreated
          \/ CovariatesAsCreated /\ CharacteristicsAsCreated

TablesInit == Init /\ Chars!Init /\ Lib!Init

(* A program that uses arrays of its own leaves the tables alone.          *)
TablesNext ==
    \/ usage = Unused /\ Next /\ UNCHANGED <<charVars, libVars>>
    \/ usage = Unused /\ Chars!Next /\ UNCHANGED <<vars, libVars>>
    \/ Lib!Next /\ UNCHANGED <<vars, charVars>>

TablesSpec == TablesInit /\ [][TablesNext]_<<vars, charVars, libVars>>

(* The count of a bit array is that of its members: see BitArrays.         *)
NumSetExact == Lib!NumSetExact

(* The bit arrays are sets: see BitArrays.                                 *)
RefinesBitSet == Lib!RefinesBitSet

(* Equality of arrays is that of their values: see BitArrays.              *)
DocumentedEqual == Lib!DocumentedEqual

(* An administrand has exactly the characteristics given to it: see        *)
(* Characteristics.                                                        *)
HasWhatWasSet == Chars!HasWhatWasSet

(* An iteration yields exactly those: see Characteristics.                 *)
IterationComplete == Chars!IterationComplete
=============================================================================
