--------------------------- MODULE LogisticModels ---------------------------
(***************************************************************************)
(* The dichotomous models OscatsModelL1p, L2p and L3p.  The response 1     *)
(* has probability P* = 1/(1+exp(-z)) with z = sum_i a_i theta_i           *)
(* + sum_j d_j cov_j - b (all a_i = 1 for L1p), or c + (1-c) P* for L3p.   *)
(* The derivatives are the code's own formulas, entry by entry; those in   *)
(* the parameters share the weights dz/db = -1, dz/da_i = theta_i and      *)
(* dz/dd_j = cov_j.                                                        *)
(***************************************************************************)
EXTENDS ItemModel

DichotomousMax == 1

\* 1/(1+exp(resp ? -z : z))
Binary(z, resp) == Logistic(IF resp = 1 THEN z ELSE Scale(-1, z))

Abs(n) == IF n < 0 THEN -n ELSE n
-----------------------------------------------------------------------------
(* OscatsModelL1p: parameters b, d_j *)

L1pB == 0
L1pCov == 1

L1pLayout(model) == {<<L1pB, <<"Diff", 0>>>>} \cup CovariateNames(model, L1pCov)
L1pNew(base) == Restricted(WithParams(base, 1 + base.Ncov, L1pLayout(base)), "cont")

L1pZ(at) ==
    Minus(Plus(Projection(at, [i \in Dims(at) |-> Number(at, 1)]), CovariateEffect(at, L1pCov)),
          Param(at, L1pB))
L1pP(at, resp) == Binary(L1pZ(at), resp)
L1pDistance(at) == Abs(L1pZ(at).v)

\* Broken: the weight of the information is p for every response.
BinaryHesValAlwaysP(p, resp, Inf) ==
    LET hes_val == Neg(p \otimes (1 - p)) IN IF Inf THEN hes_val \otimes Neg(p) ELSE hes_val

\* (1-p, -p) and -p(1-p), or with Inf the latter times -P(resp)
BinaryGradVal(p, resp) == IF resp = 1 THEN 1 \ominus p ELSE Neg(p)
BinaryHesVal(p, resp, Inf) ==
    LET hes_val == Neg(p \otimes (1 - p))
    IN  IF Inf THEN hes_val \otimes Neg(IF resp = 1 THEN p ELSE 1 - p) ELSE hes_val

BinaryDtheta(at, a, p, resp, Inf) ==
    OverDimsBy(at, a, BinaryGradVal(p, resp), BinaryHesVal(p, resp, Inf))
L1pDtheta(at, resp, Inf) ==
    BinaryDtheta(at, [i \in Dims(at) |-> 1], L1pP(at, 1).v, resp, Inf)

BinaryDparam(at, weight, p, resp) ==
    OverParams(at, [k \in Params(at) |-> weight[k] * BinaryGradVal(p, resp)],
                   [k, l \in Params(at) |-> weight[k] * weight[l] * BinaryHesVal(p, resp, FALSE)])
L1pDparam(at, resp) ==
    BinaryDparam(at, [k \in Params(at) |-> IF k = L1pB THEN -1 ELSE CovValue(at, k)],
                 L1pP(at, 1).v, resp)
-----------------------------------------------------------------------------
(* OscatsModelL2p: parameters b, a_i, d_j *)

L2pB == 0
L2pA(i) == i
L2pCov(model) == model.Np - model.Ncov

DiscrNames(model, first) ==
    {<<first + i - 1, <<"Discr", model.dims[i]>>>> : i \in 1 .. model.Ndims}

L2pLayout(model) ==
    {<<L2pB, <<"Diff", 0>>>>} \cup DiscrNames(model, L2pA(1))
        \cup CovariateNames(model, 1 + model.Ndims)
L2pNew(base) ==
    Restricted(WithParams(base, 1 + base.Ndims + base.Ncov, L2pLayout(base)), "cont")

L2pZ(at) ==
    Minus(Plus(Projection(at, [i \in Dims(at) |-> Param(at, L2pA(i))]),
               CovariateEffect(at, L2pCov(at.model))),
          Param(at, L2pB))
L2pP(at, resp) == Binary(L2pZ(at), resp)
\* Broken: the distance overlooks the covariates.
L2pDistanceBare(at) ==
    Abs(Minus(Projection(at, [i \in Dims(at) |-> Param(at, L2pA(i))]), Param(at, L2pB)).v)
L2pDistance(at) == Abs(L2pZ(at).v)

L2pDtheta(at, resp, Inf) ==
    BinaryDtheta(at, [i \in Dims(at) |-> at.model.params[L2pA(i)]], L2pP(at, 1).v, resp, Inf)

L2pWeight(at, k) ==
    CASE k = L2pB -> -1
      [] k > L2pB /\ k < L2pCov(at.model) -> ThetaValue(at, k)
      [] OTHER -> CovValue(at, k - L2pCov(at.model) + 1)

L2pDparam(at, resp) ==
    BinaryDparam(at, [k \in Params(at) |-> L2pWeight(at, k)], L2pP(at, 1).v, resp)
-----------------------------------------------------------------------------
(* OscatsModelL3p: parameters b, c, a_i, d_j *)

L3pB == 0
L3pC == 1
L3pA(i) == 1 + i
L3pCov(model) == model.Np - model.Ncov

L3pLayout(model) ==
    {<<L3pB, <<"Diff", 0>>>>, <<L3pC, <<"Guess", 0>>>>}
        \cup DiscrNames(model, L3pA(1)) \cup CovariateNames(model, 2 + model.Ndims)
L3pNew(base) ==
    Restricted(WithParams(base, 2 + base.Ndims + base.Ncov, L3pLayout(base)), "cont")

L3pZ(at) ==
    Minus(Plus(Projection(at, [i \in Dims(at) |-> Param(at, L3pA(i))]),
               CovariateEffect(at, L3pCov(at.model))),
          Param(at, L3pB))
L3pPStar(at) == Logistic(L3pZ(at))
L3pP(at, resp) ==
    LET c == Param(at, L3pC)
        x == Plus(c, Times(OneMinus(c), L3pPStar(at)))
    IN  IF resp = 1 THEN x ELSE OneMinus(x)
L3pDistance(at) == Abs(L3pZ(at).v)

\* The factors that L3p's two derivatives share: p, q_star, grad_val, hes_val
\* and hes_c_val, from c and P*.
L3pFactors(c, p_star, resp) ==
    LET q_star == 1 \ominus p_star
        p == c \oplus ((1 - c) \otimes p_star)
        pq == p_star \otimes q_star
        toward == ((1 - c) \otimes pq) \oslash p
        away == Neg(((1 - c) \otimes pq) \oslash (1 - p))
        curve == ((c \otimes Square(q_star)) \ominus Square(p_star)) \oslash p
    IN  IF resp = 1
        THEN [p |-> p, q_star |-> q_star, grad |-> toward, hes |-> toward \otimes curve,
              hes_c |-> Neg(pq \oslash Square(p)),
              grad_C |-> q_star \oslash p, hes_C |-> Neg(Square(q_star) \oslash Square(p))]
        ELSE [p |-> p, q_star |-> q_star, grad |-> away,
              hes |-> (away \otimes (((1 - c) \otimes Square(q_star)))) \oslash (1 - p),
              hes_c |-> 0,
              grad_C |-> Neg(q_star) \oslash (1 - p),
              hes_C |-> Neg(Square(q_star) \oslash Square(1 - p))]
L3pFactorsAt(at, resp) == L3pFactors(at.model.params[L3pC], L3pPStar(at).v, resp)

L3pDthetaBy(at, f, resp, Inf) ==
    OverDimsBy(at, [i \in Dims(at) |-> at.model.params[L3pA(i)]], f.grad,
               IF Inf THEN f.hes \otimes Neg(IF resp = 1 THEN f.p ELSE 1 - f.p) ELSE f.hes)
L3pDtheta(at, resp, Inf) == L3pDthetaBy(at, L3pFactorsAt(at, resp), resp, Inf)

\* Broken: the difficulty is weighted like a discrimination.
L3pWeightPlus(at, k) ==
    CASE k = L3pB -> 1
      [] k > L3pC /\ k < L3pCov(at.model) -> ThetaValue(at, k - 1)
      [] k >= L3pCov(at.model) -> CovValue(at, k - L3pCov(at.model) + 1)

L3pWeight(at, k) ==
    CASE k = L3pB -> -1
      [] k > L3pC /\ k < L3pCov(at.model) -> ThetaValue(at, k - 1)
      [] k >= L3pCov(at.model) -> CovValue(at, k - L3pCov(at.model) + 1)

L3pDparamBy(at, f) ==
    LET grad(k) == IF k = L3pC THEN f.grad_C ELSE L3pWeight(at, k) * f.grad
        hes(k, l) == CASE k = L3pC /\ l = L3pC -> f.hes_C
                       [] k = L3pC /\ l # L3pC -> L3pWeight(at, l) * f.hes_c
                       [] k # L3pC /\ l = L3pC -> L3pWeight(at, k) * f.hes_c
                       [] OTHER -> L3pWeight(at, k) * L3pWeight(at, l) * f.hes
    IN  OverParams(at, [k \in Params(at) |-> grad(k)], [k, l \in Params(at) |-> hes(k, l)])
L3pDparam(at, resp) == L3pDparamBy(at, L3pFactorsAt(at, resp))
=============================================================================
