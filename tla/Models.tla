------------------------------- MODULE Models -------------------------------
(***************************************************************************)
(* A caller of the item response models: it constructs a model, calibrates *)
(* its parameters by name, and lets oscats_model_logLik_dtheta,            *)
(* oscats_model_logLik_dparam and oscats_model_fisher_inf add to its       *)
(* gradients and Hessians, as the estimators and selection criteria do.    *)
(*                                                                         *)
(* The specification is called IrtSpec, and not Spec, so that one module   *)
(* can hold proofs about Administrands and about the models of their items.*)
(***************************************************************************)
EXTENDS LogisticModels, PolytomousModels, DiagnosticModels

CONSTANTS Requests,     \* the sequences of dimensions a model may be given
          CovariateLists, \* the sequences of covariates a model may be given
          Ncats,        \* how many categories above the first a model may have
          Situations,   \* the points and covariates a call may meet: [theta, cov]
          Seeds,        \* each stands for an assignment of the parameters
          Junk,         \* what Pc and Gpc may read past their arrays
          MaxCalls      \* bound on the calls that add derivatives

(* Each of the properties is an array of what it is an array of; Ncat is   *)
(* that of the code, one less than the property, which is at least 3.      *)
ASSUME CallerAssumption ==
    /\ \A requested \in Requests : requested \in Seq(Range(requested))
    /\ \A covariates \in CovariateLists : covariates \in Seq(Range(covariates))
    /\ Ncats \subseteq Nat \ {0, 1}

(* Coordinates, covariates, parameters and what is read past the end of an *)
(* array are numbers.                                                      *)
ASSUME SituationsAssumption ==
    /\ \A s \in Situations :
          /\ \A d \in Space : s.theta[d] \in Int
          /\ \A covariates \in CovariateLists : \A j \in DOMAIN covariates :
                s.cov[covariates[j]] \in Int
    /\ Seeds \subseteq Int /\ Junk \subseteq Int

VARIABLES model,        \* the model, or Unmade
          calibrated,   \* whether its parameters were set
          calls,        \* the derivatives added so far
          dtheta,       \* gradient and Hessian in theta
          dparam,       \* gradient and Hessian in the parameters
          info,         \* the information
          want,         \* ghost: the exact values of these three
          right         \* ghost: no call met a formula known to be wrong

irtVars == <<model, calibrated, calls, dtheta, dparam, info, want, right>>

ContinuousKinds == {"l1p", "l2p", "l3p", "nominal", "pc", "gpc", "gr"}
BinaryKinds == {"dina", "nida"}
Unmade == [kind |-> "none", Ndims |-> 0]

Construct(kind, base) ==
    CASE kind = "l1p" -> L1pNew(base) [] kind = "l2p" -> L2pNew(base)
      [] kind = "l3p" -> L3pNew(base) [] kind = "nominal" -> NominalNew(base)
      [] kind = "pc" -> PcNew(base)   [] kind = "gpc" -> GpcNew(base)
      [] kind = "gr" -> GrNew(base)   [] kind = "dina" -> DinaNew(base)
      [] kind = "nida" -> NidaNew(base)

P(at, resp) ==
    LET kind == at.model.kind
    IN  CASE kind = "l1p" -> L1pP(at, resp) [] kind = "l2p" -> L2pP(at, resp)
          [] kind = "l3p" -> L3pP(at, resp) [] kind = "nominal" -> NominalP(at, resp)
          [] kind = "pc" -> PcP(at, resp)   [] kind = "gpc" -> GpcP(at, resp)
          [] kind = "gr" -> GrP(at, resp)   [] kind = "dina" -> DinaP(at, resp)
          [] kind = "nida" -> NidaP(at, resp)

logLik_dtheta(at, resp, Inf) ==
    LET kind == at.model.kind
    IN  CASE kind = "l1p" -> L1pDtheta(at, resp, Inf)
          [] kind = "l2p" -> L2pDtheta(at, resp, Inf)
          [] kind = "l3p" -> L3pDtheta(at, resp, Inf)
          [] kind = "nominal" -> NominalDtheta(at, resp, Inf)
          [] kind = "pc" -> PcDtheta(at, resp, Inf)
          [] kind = "gpc" -> GpcDtheta(at, resp, Inf)
          [] kind = "gr" -> GrDtheta(at, resp, Inf)

logLik_dparam(at, resp) ==
    LET kind == at.model.kind
    IN  CASE kind = "l1p" -> L1pDparam(at, resp) [] kind = "l2p" -> L2pDparam(at, resp)
          [] kind = "l3p" -> L3pDparam(at, resp) [] kind = "nominal" -> NominalDparam(at, resp)
          [] kind = "pc" -> PcDparam(at, resp)   [] kind = "gpc" -> GpcDparam(at, resp)
          [] kind = "gr" -> GrDparam(at, resp)   [] kind = "dina" -> DinaDparam(at, resp)
          [] kind = "nida" -> NidaDparam(at, resp)

get_max(m) == IF m.kind \in {"nominal", "pc", "gpc", "gr"} THEN PolytomousMax(m) ELSE DichotomousMax
Responses(m) == 0 .. get_max(m)

Distance(at) ==
    CASE at.model.kind = "l1p" -> L1pDistance(at)
      [] at.model.kind = "l2p" -> L2pDistance(at)
      [] at.model.kind = "l3p" -> L3pDistance(at)
      [] at.model.kind = "nominal" -> NominalDistance(at)
-----------------------------------------------------------------------------
(* The situations and the junk a call may meet.  Points where a            *)
(* probability vanishes, so that its logarithm has no derivatives, are     *)
(* left out; in the arithmetic used here these are also those where it     *)
(* or a denominator vanishes modulo Prime.                                 *)

JunkOf(m) == IF m.kind \in {"pc", "gpc"} THEN Junk ELSE {0}

Possible(at) ==
    /\ \A resp \in Responses(at.model) : P(at, resp).v % Prime # 0
    /\ at.model.kind = "l3p" => L3pPStar(at).v % Prime # 0
Points(m) ==
    {at \in {AtPoint(m, s.theta, s.cov, junk, "none") : s \in Situations, junk \in JunkOf(m)} :
        Possible(at)}

In(at, variables) == [at EXCEPT !.variables = variables]

Added(a, b) ==
    [g |-> [i \in DOMAIN a.g |-> a.g[i] \oplus b.g[i]],
     h |-> [ij \in DOMAIN a.h |-> a.h[ij] \oplus b.h[ij]]]
Nothing(V) == [g |-> [i \in V |-> 0], h |-> [ij \in V \X V |-> 0]]

\* oscats_model_fisher_inf: the Hessians, each times -P, of all responses
fisher_inf(at) ==
    LET add(resp, I) == Added(I, logLik_dtheta(at, resp, TRUE))
    IN  FoldSet(add, Nothing(SpaceDims("cont")), Responses(at.model)).h

\* The exact derivatives of log P(resp), and the variance of the score.
LogDerivatives(p) == [g |-> LogGradient(p), h |-> LogHessian(p)]
ExactDerivatives(at, resp) == LogDerivatives(P(at, resp))

MeanProduct(p, score) ==
    [d, e \in SpaceDims("cont") |->
        Total([resp \in DOMAIN p |-> p[resp] \otimes (score[resp][d] \otimes score[resp][e])])]
ScoreVariance(at) ==
    MeanProduct([resp \in Responses(at.model) |-> P(at, resp).v],
                [resp \in Responses(at.model) |-> logLik_dtheta(at, resp, FALSE).g])

(* Where the derivatives in the parameters are those of P: not for the     *)
(* models of adjacent categories, nor for those of a wrong response that   *)
(* the binary models attribute to guessing.                                *)
RightDparam(at, resp) ==
    \/ at.model.kind \in {"l1p", "l2p", "l3p", "nominal"}
    \/ at.model.kind = "dina" /\ (resp = 1 \/ DinaPass(at))
    \/ at.model.kind = "nida" /\ resp = 1

Continuous == model.kind \in ContinuousKinds
Ready == calibrated /\ calls < MaxCalls
-----------------------------------------------------------------------------
IrtInit ==
    /\ model = Unmade
    /\ calibrated = FALSE
    /\ calls = 0
    /\ dtheta = Nothing({})
    /\ dparam = Nothing({})
    /\ info = Nothing({}).h
    /\ want = [dtheta |-> Nothing({}), dparam |-> Nothing({}), info |-> Nothing({}).h]
    /\ right = TRUE

(* A model whose dimensions are not of the type it requires is reported    *)
(* and not used; Pc and Gpc without covariates read through NULL.          *)
New(kind, requested, covariates, Ncat) ==
    LET covs == IF kind \in BinaryKinds THEN <<>> ELSE covariates
        new == Construct(kind, BaseModel(kind, requested, covs, Ncat))
        none == Nothing(SpaceDims("cont"))
        noParams == Nothing(0 .. new.Np - 1)
    IN  /\ model = Unmade
        /\ kind \in {"pc", "gpc"} => Len(covs) > 0
        /\ model' = new
        /\ dtheta' = none
        /\ dparam' = noParams
        /\ info' = none.h
        /\ want' = [dtheta |-> none, dparam |-> noParams, info |-> none.h]
        /\ UNCHANGED <<calibrated, calls, right>>

\* Every parameter is set, through its name.
Calibrate(seed) ==
    LET set(pair, m) ==
            SetParam(m, pair[2], 2 + ((pair[1] * pair[1] + seed * pair[1] + seed) % 5))
    IN  /\ model.Ndims > 0 /\ ~calibrated
        /\ model' = FoldSet(set, model, model.layout)
        /\ calibrated' = TRUE
        /\ UNCHANGED <<calls, dtheta, dparam, info, want, right>>

AddDtheta(at, resp) ==
    /\ Ready /\ Continuous
    /\ dtheta' = Added(dtheta, logLik_dtheta(at, resp, FALSE))
    /\ want' = [want EXCEPT !.dtheta = Added(@, ExactDerivatives(In(at, "theta"), resp))]
    /\ calls' = calls + 1
    /\ UNCHANGED <<model, calibrated, dparam, info, right>>

AddDparam(at, resp) ==
    /\ Ready
    /\ dparam' = Added(dparam, logLik_dparam(at, resp))
    /\ want' = [want EXCEPT !.dparam = Added(@, ExactDerivatives(In(at, "params"), resp))]
    /\ right' = (right /\ RightDparam(at, resp))
    /\ calls' = calls + 1
    /\ UNCHANGED <<model, calibrated, dtheta, info>>

AddInformation(at) ==
    /\ Ready /\ Continuous
    /\ info' = [ij \in DOMAIN info |-> info[ij] \oplus fisher_inf(at)[ij]]
    /\ want' = [want EXCEPT !.info = [ij \in DOMAIN info |-> @[ij] \oplus ScoreVariance(at)[ij]]]
    /\ calls' = calls + 1
    /\ UNCHANGED <<model, calibrated, dtheta, dparam, right>>

IrtNext ==
    \/ \E kind \in ContinuousKinds \cup BinaryKinds, requested \in Requests,
          covariates \in CovariateLists, Ncat \in Ncats : New(kind, requested, covariates, Ncat)
    \/ \E seed \in Seeds : Calibrate(seed)
    \/ /\ Ready
       /\ \E at \in Points(model) :
            \/ \E resp \in Responses(model) : AddDtheta(at, resp)
            \/ \E resp \in Responses(model) : AddDparam(at, resp)
            \/ AddInformation(at)

IrtSpec == IrtInit /\ [][IrtNext]_irtVars
-----------------------------------------------------------------------------
(* Each index below Np is named by the constructor, once: the formulas for *)
(* the indices of difficulties, discriminations and covariates neither     *)
(* overlap nor leave a parameter without a name, whatever the dimensions   *)
(* and covariates (the names arrays of model_constructed).                 *)
EveryParameterNamed ==
    model # Unmade =>
        /\ {pair[1] : pair \in model.layout} = 0 .. model.Np - 1
        /\ Cardinality(model.layout) = model.Np

(* The probabilities of the responses 0..max of a model sum to one, at     *)
(* every point, also with the junk that P of Pc and Gpc adds.              *)
ProbabilitiesSumToOne ==
    calibrated /\ calls = 0 =>
        \A at \in Points(model) : Total([k \in Responses(model) |-> P(at, k).v]) = 1

(* What logLik_dtheta adds, over several calls, is the gradient and the    *)
(* Hessian of the logarithm of P: each entry lands at its dimension, with  *)
(* the discrimination of its position and the sign of its response.        *)
ThetaDerivativesExact ==
    model.kind \in {"l1p", "l2p", "l3p", "nominal", "gr"} => dtheta = want.dtheta

(* The same for logLik_dparam and the parameters: mixed derivatives of     *)
(* difficulties, guessing, discriminations and covariates included.        *)
ParamDerivativesExact == right => dparam = want.dparam

(* What fisher_inf adds is the variance of the score that logLik_dtheta    *)
(* reports.  For the models of adjacent categories the two agree although  *)
(* neither is a derivative of P.                                           *)
InformationIsVarianceOfScore == Continuous => info = want.info

(* The distance of a dichotomous model is the absolute log-odds of its     *)
(* response apart from guessing, by which the closest-difficulty criterion *)
(* orders the items; P and distance sum their terms separately.            *)
DistanceIsLogOdds ==
    calibrated /\ calls = 0 /\ model.kind \in {"l1p", "l2p", "l3p"} =>
        \A at \in Points(model) :
            LET p == P(at, 1).v
                c == IF model.kind = "l3p" THEN model.params[L3pC] ELSE 0
                odds == (p \ominus c) \oslash (1 - p)
                e == Exp(Distance(at))
            IN  odds = e \/ (odds \otimes e) = 1

(* What the documentation of oscats_model_logLik_dparam says: it           *)
(* calculates the derivative of the log-likelihood with respect to the     *)
(* parameters.                                                             *)
DocumentedDparam == dparam = want.dparam
=============================================================================
