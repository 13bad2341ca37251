----------------------------- MODULE Selection -----------------------------
(***************************************************************************)
(* What OscatsAlgMaxFisher (max_fisher.c) and OscatsAlgMaxKl (max_kl.c)    *)
(* keep between the selections of a test.  Both sum the information of the *)
(* items already recorded, and add only those recorded since the last      *)
(* selection; MaxKl also keeps the scratch point that its sum over the     *)
(* patterns moves about.  An information matrix is the sequence of what    *)
(* was added: the number of the item, and where the continuous coordinates *)
(* of the point came from at which its information was computed.  The      *)
(* choice among the criteria is in Chooser.                                *)
(***************************************************************************)
EXTENDS Points

\* A matrix that is not allocated.
NoMatrix == <<[item |-> 0, cont |-> "none"]>>
NoSpace == [num_cont |-> 0, num_bin |-> 0, max |-> <<>>]

\* The items after the first base_num of len recorded ones, at theta.
AddRecorded(matrix, base_num, len, theta) ==
    matrix \o [i \in 1 .. len - base_num |-> [item |-> base_num + i, cont |-> theta.cont]]
-----------------------------------------------------------------------------
(* OscatsAlgMaxFisher *)

NewFisher == [dim |-> 0, base |-> NoMatrix, base_num |-> 0]

\* The matrix is needed only for more than one dimension.
FisherAlloc(num) ==
    [dim |-> num, base |-> IF num > 1 THEN <<>> ELSE NoMatrix, base_num |-> 0]

\* Broken: the information of the last examinee stays.
FisherInitializeKeeps(self) == [self EXCEPT !.base_num = 0]

FisherInitialize(self) ==
    [self EXCEPT !.base = IF @ = NoMatrix THEN NoMatrix ELSE <<>>, !.base_num = 0]

FisherResize(num) == FisherAlloc(num)

\* The first criterion for another number of dimensions allocates.
FisherCriterion(self, space) ==
    IF self.dim = space.num_cont THEN self ELSE FisherAlloc(space.num_cont)

FisherAccumulate(self, theta, len) ==
    IF self.base = NoMatrix THEN self
    ELSE [self EXCEPT !.base = AddRecorded(self.base, self.base_num, len, theta),
                      !.base_num = len]
-----------------------------------------------------------------------------
(* OscatsAlgMaxKl *)

NewKl(posterior, inf_bounds) ==
    [posterior |-> posterior, inf_bounds |-> inf_bounds, space |-> NoSpace,
     theta |-> NewPoint(NoSpace), Inf |-> NoMatrix, base_num |-> 0]

\* The number of patterns, for the length of the discrete prior.
numPatterns(space) ==
    LET times(m, n) == (m + 1) * n IN FoldSeq(times, 2 ^ space.num_bin, space.max)

KlAlloc(self, space) ==
    [self EXCEPT
       !.space = space, !.theta = NewPoint(space),
       !.Inf = IF space.num_cont > 0 /\ ~self.posterior /\ self.inf_bounds
               THEN <<>> ELSE NoMatrix]

KlInitialize(self) ==
    [self EXCEPT !.Inf = IF @ = NoMatrix THEN NoMatrix ELSE <<>>, !.base_num = 0]

KlResize(self, space) == KlAlloc([self EXCEPT !.base_num = 0], space)

KlAccumulate(self, theta, len) ==
    IF self.Inf = NoMatrix THEN self
    ELSE [self EXCEPT !.Inf = AddRecorded(self.Inf, self.base_num, len, theta),
                      !.base_num = len]

(* The patterns that a sum evaluates, beginning from the scratch point.    *)
SummedFrom(point) ==
    LET move(trail, step) ==
            Append(trail, WithBin(WithNat(trail[Len(trail)], step.nat), step.bin))
    IN  Tail(FoldLeft(move, <<point>>, Steps(point.space)))

\* One evaluation of the criterion; each sum starts where the last ended.
KlCriterion(self, space) ==
    LET ready == IF SpaceCompatible(self.space, space) THEN self ELSE KlAlloc(self, space)
        summed == SummedFrom(ready.theta)
    IN  [ready EXCEPT !.theta = summed[Len(summed)]]
=============================================================================
