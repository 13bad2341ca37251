----------------------------- MODULE ItemModel -----------------------------
(***************************************************************************)
(* OscatsModel: what the item response models have in common.  A model is  *)
(* a record of its latent dimensions, covariates and parameters; params    *)
(* and names are indexed from 0, as in the code.  What a concrete model    *)
(* adds is in the modules LogisticModels, PolytomousModels and             *)
(* DiagnosticModels.                                                       *)
(*                                                                         *)
(* A probability is written once, over jets.  Evaluated over no variables  *)
(* it is the value the code computes; over the latent dimensions, or over  *)
(* the parameters, it is also the exact gradient and Hessian with which    *)
(* the derivatives of the code are compared.                               *)
(***************************************************************************)
EXTENDS Arithmetic

CONSTANT Space \* the dimensions of the latent space: pairs <<type, index>>

DimTypeOf(d) == d[1]
shortDim(d) == d[2]

\* The dimensions of a type are numbered from 0.
ASSUME SpaceAssumption ==
    /\ IsFiniteSet(Space)
    /\ \A d \in Space : d = <<DimTypeOf(d), shortDim(d)>> /\ <<DimTypeOf(d), 0>> \in Space

SpaceDims(type) == {shortDim(d) : d \in {e \in Space : DimTypeOf(e) = type}}

NoType == "none"

(* The dims a model keeps of those requested: the first available one when *)
(* none was given, otherwise those that are valid.  The type starts as the *)
(* type of the first dimension requested, even if that one is not valid.   *)
DefaultType ==
    CASE SpaceDims("cont") # {} -> "cont"
      [] SpaceDims("cont") = {} /\ SpaceDims("bin") # {} -> "bin"
      [] OTHER -> "nat"

KeptDims(requested) ==
    IF requested = <<>> THEN <<<<DefaultType, 0>>>>
    ELSE LET kept[n \in 0 .. Len(requested)] ==
                 IF n = 0 THEN <<>>
                 ELSE IF requested[n] \in Space THEN Append(kept[n - 1], requested[n])
                 ELSE kept[n - 1]
             valid == kept[Len(requested)]
         IN  IF valid = <<>> THEN <<<<NoType, 0>>>> ELSE valid

DimType(requested) ==
    IF requested = <<>> THEN DefaultType
    ELSE LET kept == KeptDims(requested)
             first == DimTypeOf(requested[1])
         IN  IF \A i \in DOMAIN kept : DimTypeOf(kept[i]) = first THEN first ELSE NoType

\* A model whose dimensions are not of the type it requires has Ndims = 0.
Restricted(model, required) ==
    IF model.dimType = required THEN model ELSE [model EXCEPT !.Ndims = 0]

BaseModel(kind, requested, covariates, Ncat) ==
    [kind |-> kind, dims |-> KeptDims(requested), Ndims |-> Len(KeptDims(requested)),
     dimType |-> DimType(requested), covariates |-> covariates,
     Ncov |-> Len(covariates), Ncat |-> Ncat]

(* The layout of the parameters is the set of the pairs <<index, name>>    *)
(* that the constructor writes to model->names; a set of Np pairs.         *)
CovariateNames(model, first) ==
    {<<first + j - 1, <<"Covariate", model.covariates[j]>>>> : j \in 1 .. model.Ncov}

\* g_new0(gdouble, Np) and the names
WithParams(model, Np, layout) ==
    [kind |-> model.kind, dims |-> model.dims, Ndims |-> model.Ndims,
     dimType |-> model.dimType, covariates |-> model.covariates, Ncov |-> model.Ncov,
     Ncat |-> model.Ncat, Np |-> Np, layout |-> layout,
     params |-> [p \in 0 .. Np - 1 |-> 0]]

\* get_param and set_param use the first parameter of a name
IndexesOf(model, name) == {pair[1] : pair \in {q \in model.layout : q[2] = name}}
HasParam(model, name) == IndexesOf(model, name) # {}
FirstIndex(model, name) ==
    CHOOSE p \in IndexesOf(model, name) : \A q \in IndexesOf(model, name) : p <= q
GetParam(model, name) ==
    IF HasParam(model, name) THEN model.params[FirstIndex(model, name)] ELSE 0
SetParamByIndex(model, p, value) ==
    IF p < model.Np THEN [model EXCEPT !.params[p] = value] ELSE model
SetParam(model, name, value) ==
    IF HasParam(model, name) THEN SetParamByIndex(model, FirstIndex(model, name), value)
    ELSE model
-----------------------------------------------------------------------------
(* An evaluation point: the model, the values of the continuous and binary *)
(* dimensions, those of the covariates (0 when not set), the variables of  *)
(* the jets, and the junk that a read past the end of an array yields.     *)

AtPoint(model, theta, cov, junk, variables) ==
    [model |-> model, theta |-> theta, cov |-> cov, junk |-> junk, variables |-> variables]

Vars(at) ==
    CASE at.variables = "none" -> {}
      [] at.variables = "theta" -> SpaceDims("cont")
      [] at.variables = "params" -> 0 .. at.model.Np - 1

Number(at, c) == ConstJet(Vars(at), c)
ThetaValue(at, i) == at.theta[<<"cont", shortDim(at.model.dims[i])>>]
CovValue(at, j) == at.cov[at.model.covariates[j]]

Theta(at, i) ==
    IF at.variables = "theta"
    THEN VarJet(Vars(at), shortDim(at.model.dims[i]), ThetaValue(at, i))
    ELSE Number(at, ThetaValue(at, i))

Param(at, p) ==
    IF at.variables = "params" THEN VarJet(Vars(at), p, at.model.params[p])
    ELSE Number(at, at.model.params[p])

Dims(at) == 1 .. at.model.Ndims
Params(at) == 0 .. at.model.Np - 1

\* sum_i a_i theta_i, and sum_j d_j cov_j
Projection(at, a) == SumFrom(Number(at, 0), [i \in Dims(at) |-> Times(a[i], Theta(at, i))])

CovariateEffect(at, first) ==
    SumFrom(Number(at, 0),
            [j \in 1 .. at.model.Ncov |-> Scale(CovValue(at, j), Param(at, first + j - 1))])

Logistic(z) == ReciprocalJet(Plus(ConstJet(Variables(z), 1), ExpJet(Scale(-1, z))))
-----------------------------------------------------------------------------
(* What a derivative adds to the caller's gradient and Hessian.            *)

Positions(at, d) == {i \in Dims(at) : shortDim(at.model.dims[i]) = d}

\* Entries by position are added at shortDims[i], so that those of a
\* dimension that is listed twice add up.
OverDims(at, G, H) ==
    [g |-> [d \in SpaceDims("cont") |-> Total([i \in Positions(at, d) |-> G[i]])],
     h |-> [d, e \in SpaceDims("cont") |->
              Total([ij \in Positions(at, d) \X Positions(at, e) |-> H[ij]])]]

\* Broken: the mixed derivatives take both discriminations from one dimension.
OverDimsOneSided(at, a, grad, hes) ==
    OverDims(at, [i \in Dims(at) |-> a[i] * grad], [i, j \in Dims(at) |-> a[i] * a[i] * hes])

\* The usual case: a_i grad and a_i a_j hes.
OverDimsBy(at, a, grad, hes) ==
    OverDims(at, [i \in Dims(at) |-> a[i] * grad], [i, j \in Dims(at) |-> a[i] * a[j] * hes])

OverParams(at, G, H) ==
    [g |-> [p \in Params(at) |-> G[p] % Prime],
     h |-> [p, q \in Params(at) |-> H[p, q] % Prime]]
=============================================================================
