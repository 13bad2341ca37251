----------------------------- MODULE DataClasses -----------------------------
(***************************************************************************)
(* Tests, examinees, items, banks, spaces, points and models as objects:   *)
(* their properties, the objects they refer to and the arrays they keep.   *)
(* What they do is in the other modules.                                   *)
(***************************************************************************)
EXTENDS AlgorithmClasses

CONSTANTS Ids, DimLists, Maxima, Covariates,
          FirstDim,      \* the first dimension of every space
          NewCovariates  \* what an examinee without covariates creates

ID == ConstructOnly("id", Ids \union {Null}, Null)

-----------------------------------------------------------------------------
Test ==
    [id |-> ID,
     itembank |-> ConstructOnly("object", OrNull(Banks), Null),
     length_hint |-> Plain("value", Counts, 0),
     itermax_select |-> ConstructOnly("value", AtLeast(1), 50),
     itermax_items |-> ConstructOnly("value", AtLeast(1), 200)]

\* The test freezes its bank and thaws it when it is disposed.
TestSet(s, p, v) ==
    IF p = "itembank" /\ v # Null
    THEN [Set(Test, s, p, v) EXCEPT !.frozen = @ \union {v}]
    ELSE Set(Test, s, p, v)
TestDispose(s) == [Cleared(s, "itembank") EXCEPT !.frozen = @ \ {s.val["itembank"]}]

-----------------------------------------------------------------------------
Examinee ==
    [id |-> ID, covariates |-> Plain("object", OrNull(Covariates), Null)]

\* Reading the covariates creates them when there are none.
ExamineeReadCovariates(s) ==
    IF s.val["covariates"] # Null THEN s
    ELSE [s EXCEPT !.val["covariates"] = NewCovariates, !.refs = Ref(@, NewCovariates)]

\* The list of points by name, which owns them.
ExamineeSetTheta(s, name, theta) == Given(s, name, theta)
ExamineePrep(s) == ListEmptied(s)
ExamineeAddItem(s, item) == Listed(s, item)
ExamineeDispose(s) ==
    ListEmptied(Cleared(Cleared(Cleared(s, "simDefault"), "estDefault"), "covariates"))

-----------------------------------------------------------------------------
Administrand == [id |-> ID, frozen |-> ReadOnly(FALSE)]

\* The list of models by name, which owns them.
ItemSetModel(s, name, model) == Given(s, name, model)
ItemDispose(s) == Cleared(Cleared(s, "default"), "other")

ItemBank == [id |-> ID, frozen |-> ReadOnly(FALSE),
             sizeHint |-> ConstructOnly("value", Counts, 1)]

ItemBankAddItem(s, item) == Listed(s, item)
ItemBankRemoveItem(s, item) == Unlisted(s, item)
ItemBankDispose(s) == ListEmptied(s)

-----------------------------------------------------------------------------
Space ==
    [id |-> ID,
     numCont |-> ConstructOnly("value", Counts, 0),
     numBin |-> ConstructOnly("value", Counts, 0),
     numNat |-> ConstructOnly("value", Counts, 0),
     max |-> Plain("value", OrNull(Maxima), Null)]

SpaceConstructed(s) == SetField(s, "max", [i \in 1 .. s.val["numNat"] |-> 2])

\* Broken: as many maxima as are given.
SpaceSetAnyLength(s, p, v) ==
    IF p # "max" THEN Set(Space, s, p, v)
    ELSE IF v = Null THEN s
    ELSE SetField(s, p, v)

\* One maximum for each dimension, or nothing changes.
SpaceSet(s, p, v) ==
    IF p # "max" THEN Set(Space, s, p, v)
    ELSE IF v = Null \/ Len(v) # s.val["numNat"] THEN s
    ELSE SetField(s, p, v)

Point == [space |-> ConstructOnly("object", OrNull(Spaces), Null)]
PointDispose(s) == Cleared(s, "space")

-----------------------------------------------------------------------------
Model ==
    [space |-> ConstructOnly("object", Spaces, Null),
     dims |-> ConstructOnly("value", OrNull(DimLists), Null),
     covariates |-> ConstructOnly("value", OrNull(Covariates), Null)]

\* Without a space a model has one dimension that does not exist.
ModelConstructed(s) ==
    CASE s.val["space"] = Null -> SetField(s, "dims", <<"none">>)
      [] s.val["space"] # Null /\ s.val["dims"] \in {Null, <<>>} ->
           SetField(s, "dims", <<FirstDim>>)
      [] OTHER -> s
ModelDispose(s) == Cleared(s, "space")

\* The models with categories, which keep the number of the last one.
Ncat == ConstructOnly("value", AtLeast(3), 3)
WithCategories(class) == [p \in DOMAIN class \union {"Ncat"} |->
                            IF p = "Ncat" THEN Ncat ELSE class[p]]
Nominal == WithCategories(Model)
PartialCredit == WithCategories(Model)
GeneralizedPartialCredit == WithCategories(Model)
GradedResponse == WithCategories(Model)

\* The names of the covariates are copied.
CopyOf(covariates) == <<"copy", covariates>>

ModelSet(class, s, p, v) ==
    CASE p = "Ncat" -> SetField(s, p, v - 1)
      [] p = "covariates" -> IF v = Null THEN s ELSE SetField(s, p, CopyOf(v))
      [] OTHER -> Set(class, s, p, v)
ModelGet(class, s, p) ==
    IF p = "Ncat" THEN s.val[p] + 1 ELSE Get(class, s, p)
=============================================================================
