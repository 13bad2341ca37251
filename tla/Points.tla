------------------------------- MODULE Points -------------------------------
(***************************************************************************)
(* OscatsSpace and OscatsPoint as the algorithms see them.  A space is its *)
(* geometry: the numbers of continuous and binary dimensions and the       *)
(* maxima of the natural ones.  Of the continuous coordinates a point      *)
(* keeps only where they come from; the binary coordinates are the set of  *)
(* those that are 1.                                                       *)
(*                                                                         *)
(* The estimators and the Kullback-Leibler criterion go through the        *)
(* discrete coordinates with the same nested loops: over the natural       *)
(* dimensions, over the values of one, and over the binary dimensions,     *)
(* each of which is cleared and then set.                                  *)
(***************************************************************************)
EXTENDS Integers, Sequences, FiniteSets, SequencesExt

haveDiscr(space) == space.num_bin > 0 \/ space.max # <<>>

\* Two spaces with the same numbers of dimensions and the same maxima.
SpaceCompatible(lhs, rhs) ==
    /\ lhs.num_cont = rhs.num_cont
    /\ lhs.num_bin = rhs.num_bin
    /\ lhs.max = rhs.max

NewPoint(space) ==
    [space |-> space, cont |-> IF space.num_cont > 0 THEN "zero" ELSE "none",
     bin |-> {}, nat |-> [I \in DOMAIN space.max |-> 0]]

CopyOf(lhs, rhs) ==
    IF SpaceCompatible(lhs.space, rhs.space)
    THEN [lhs EXCEPT !.cont = rhs.cont, !.bin = rhs.bin, !.nat = rhs.nat] ELSE lhs

WithCont(point, value) ==
    IF point.space.num_cont > 0 THEN [point EXCEPT !.cont = value] ELSE point
-----------------------------------------------------------------------------
(* The steps of the loops, each a value of a natural and of a binary       *)
(* dimension.  None stands for the dimension that is faked where a space   *)
(* has none of its kind.                                                   *)

None == [dim |-> -1, value |-> 0]

\* Broken: the loop stops short of the maximum.
NatValuesShort(space) ==
    IF space.max = <<>> THEN <<None>>
    ELSE FlattenSeq([I \in DOMAIN space.max |->
                       [v \in 1 .. space.max[I] |-> [dim |-> I, value |-> v - 1]]])

NatValues(space) ==
    IF space.max = <<>> THEN <<None>>
    ELSE FlattenSeq([I \in DOMAIN space.max |->
                       [v \in 1 .. space.max[I] + 1 |-> [dim |-> I, value |-> v - 1]]])

BinValues(space) ==
    IF space.num_bin = 0 THEN <<None>>
    ELSE [n \in 1 .. 2 * space.num_bin |-> [dim |-> (n - 1) \div 2, value |-> (n - 1) % 2]]

Steps(space) ==
    FlattenSeq([n \in DOMAIN NatValues(space) |->
                  [b \in DOMAIN BinValues(space) |->
                     [nat |-> NatValues(space)[n], bin |-> BinValues(space)[b]]]])

WithNat(point, nat) == IF nat = None THEN point ELSE [point EXCEPT !.nat[nat.dim] = nat.value]
WithBin(point, bin) ==
    IF bin = None THEN point
    ELSE [point EXCEPT !.bin = IF bin.value = 0 THEN @ \ {bin.dim} ELSE @ \cup {bin.dim}]

\* All values of the discrete coordinates.
Patterns(space) ==
    [bin : SUBSET (0 .. space.num_bin - 1),
     nat : {f \in [DOMAIN space.max -> 0 .. FoldSeq(LAMBDA a, b : a + b, 0, space.max)] :
              \A I \in DOMAIN f : f[I] <= space.max[I]}]
=============================================================================
