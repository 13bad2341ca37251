------------------------------- MODULE Naming -------------------------------
(***************************************************************************)
(* The tables by which a program names things: the dimensions of an        *)
(* OscatsSpace (space.c), in an array by dimension and a hash table by     *)
(* name, and the values of OscatsCovariates (covariates.c), in an array    *)
(* that grows and a tree of pointers into it.                              *)
(*                                                                         *)
(* The loops that name every dimension, in the constructor of the space    *)
(* and in the property "names", take one step for each name; no other call *)
(* on the space comes between.                                             *)
(***************************************************************************)
EXTENDS Naturals

CONSTANTS NumDims,      \* the number of dimensions of the space
          DimNames,     \* the names a dimension may be given
          DefaultNames, \* dimension -> its name in the constructor
          Garbage,      \* what memory that was not cleared may hold
          Covs,         \* the names of covariates
          Values,       \* the values of covariates, 0 among them
          MaxMoves      \* bound on how often the array of covariates moves

Dims == 1 .. NumDims

ASSUME NamingAssumption ==
    /\ NumDims \in Nat
    /\ DefaultNames \in [Dims -> DimNames]
    /\ MaxMoves \in Nat

VARIABLES names,    \* dimension -> name
          table,    \* name -> dimension, where there is one
          array,    \* dimension -> name, in the loop that names them all
          next,     \* the dimension the loop names next, NumDims + 1 after it
          named,    \* ghost: the dimensions that have been given a name
          clash,    \* ghost: a name was given that was another dimension's
          block,    \* the block of memory of the covariates' array
          capacity, \* the number of values there is space for in the block
          data,     \* position -> value, over the block
          length,   \* the length of the array
          pointer,  \* covariate -> [block, position], where there is one
          last,     \* ghost: the value each covariate was last set to
          kept      \* ghost: the covariates set since the next one was added

spaceVars == <<names, table, array, next, named, clash>>
covVars == <<block, capacity, data, length, pointer, last, kept>>
vars == <<spaceVars, covVars>>

\* The table f without the key k, and with k mapped to v.
Without(f, k) == [x \in DOMAIN f \ {k} |-> f[x]]
With(f, k, v) == [x \in DOMAIN f \cup {k} |-> IF x = k THEN v ELSE f[x]]
-----------------------------------------------------------------------------
(* OscatsSpace.  The array of names is not cleared when it is allocated,   *)
(* and the constructor removes what it finds there from the table.         *)

SpaceInit ==
    /\ names \in [Dims -> DimNames \cup Garbage]
    /\ table = <<>>
    /\ array = DefaultNames
    /\ next = 1
    /\ named = {}
    /\ clash = FALSE

\* Broken: the old name stays in the table.
TableWithNewOnly(dim, name) == With(table, name, dim)

\* The table after the name of dim is replaced.
TableWith(dim, name) == With(Without(table, names[dim]), name, dim)

\* oscats_space_set_dim_name
NameDim(dim, name) ==
    /\ table' = TableWith(dim, name)
    /\ names' = [names EXCEPT ![dim] = name]
    /\ named' = named \cup {dim}
    /\ clash' = (\/ clash
                 \/ \E d \in named \ {dim} : names[d] = name
                 \/ dim \notin named /\ names[dim] \in DOMAIN table)
    /\ UNCHANGED covVars

Idle == next = NumDims + 1

\* The next name of a loop.
NameNext ==
    /\ ~Idle
    /\ NameDim(next, array[next])
    /\ next' = next + 1
    /\ UNCHANGED array

SetDimName(dim, name) ==
    /\ Idle
    /\ NameDim(dim, name)
    /\ UNCHANGED <<array, next>>

\* The property "names" gives every dimension a name, in their order.
SetNames(given) ==
    /\ Idle
    /\ array' = given
    /\ next' = 1
    /\ UNCHANGED <<names, table, named, clash, covVars>>

\* oscats_space_has_dim and oscats_space_get_dim
HasDim(name) == name \in DOMAIN table
GetDim(name) == table[name]
-----------------------------------------------------------------------------
(* OscatsCovariates.  A covariate that is added gets a pointer to the      *)
(* position after its value.  That position may be past the block, and the *)
(* block may move when it grows; what is written through such a pointer is *)
(* taken to leave the block alone.                                         *)

CovInit ==
    /\ block = 0 /\ capacity = 0 /\ length = 0
    /\ data = <<>> /\ pointer = <<>> /\ last = <<>>
    /\ kept = {}

Set == DOMAIN pointer
Valid(cov) == pointer[cov].block = block /\ pointer[cov].position < capacity

\* What may be read: anything, through a pointer that is not valid.
Get(cov) ==
    IF cov \notin Set THEN {0}
    ELSE IF Valid(cov) THEN {data[pointer[cov].position]} ELSE Values

\* Broken: the value goes to the first position.
WrittenFirst(cov, value) == [data EXCEPT ![0] = value]

Written(cov, value) == [data EXCEPT ![pointer[cov].position] = value]

SetAgain(cov, value) ==
    /\ cov \in Set
    /\ data' = IF Valid(cov) THEN Written(cov, value) ELSE data
    /\ last' = With(last, cov, value)
    /\ kept' = kept \cup {cov}
    /\ UNCHANGED <<spaceVars, block, capacity, length, pointer>>

\* The capacity that holds one more value: powers of two, from 16 bytes.
Expanded ==
    IF length < capacity THEN capacity ELSE IF capacity = 0 THEN 2 ELSE 2 * capacity

\* The block after a value is appended; filler is what new memory holds.
Appended(value, filler) ==
    [p \in 0 .. Expanded - 1 |->
        IF p = length THEN value ELSE IF p < capacity THEN data[p] ELSE filler]

Add(cov, value, moves, filler) ==
    /\ cov \notin Set
    /\ moves => Expanded # capacity /\ block < MaxMoves
    /\ block' = IF moves THEN block + 1 ELSE block
    /\ capacity' = Expanded
    /\ data' = Appended(value, filler)
    /\ length' = length + 1
    /\ pointer' = With(pointer, cov, [block |-> block', position |-> length'])
    /\ last' = With(last, cov, value)
    /\ kept' = {c \in kept : pointer[c].position # length}
    /\ UNCHANGED spaceVars
-----------------------------------------------------------------------------
Init == SpaceInit /\ CovInit

Next ==
    \/ NameNext
    \/ \E dim \in Dims, name \in DimNames : SetDimName(dim, name)
    \/ \E given \in [Dims -> DimNames] : SetNames(given)
    \/ \E cov \in Covs, value \in Values :
          \/ SetAgain(cov, value)
          \/ \E moves \in BOOLEAN, filler \in Values : Add(cov, value, moves, filler)

Spec == Init /\ [][Next]_vars
-----------------------------------------------------------------------------
(* oscats_space_set_dim_name keeps two tables that must agree: whatever    *)
(* names were given, in whatever order, a name that is found leads to the  *)
(* dimension that has it, so that no name that was replaced is found; and  *)
(* as long as no name was given that another dimension had, every          *)
(* dimension is found by its name.                                         *)
NamesAgree ==
    /\ \A name \in DimNames \cup Garbage :
          HasDim(name) => GetDim(name) \in named /\ names[GetDim(name)] = name
    /\ ~clash => \A dim \in named : HasDim(names[dim]) /\ GetDim(names[dim]) = dim

(* What oscats_covariates_set wrote over an existing covariate is what     *)
(* oscats_covariates_get returns, for as long as the array does not move   *)
(* and the covariate points into it, whichever other covariates are set or *)
(* added; only the addition right after a covariate's own overwrites it.   *)
ReadBack == \A cov \in kept : Valid(cov) => Get(cov) = {last[cov]}
=============================================================================
