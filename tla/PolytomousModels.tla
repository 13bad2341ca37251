-------------------------- MODULE PolytomousModels --------------------------
(***************************************************************************)
(* The models of more than two categories: OscatsModelNominal, Pc, Gpc and *)
(* Gr.  Their Ncat is one less than the property of that name: responses   *)
(* are 0..Ncat.  Here k in 1..Ncat numbers the categories above the first. *)
(* The formulas are the code's, with its mistakes: P of Pc and Gpc is that *)
(* of a nominal model, while their derivatives are of adjacent categories. *)
(***************************************************************************)
EXTENDS ItemModel

PolytomousMax(model) == model.Ncat
Categories(at) == 1 .. at.model.Ncat

DiffNames(model) == {<<k - 1, <<"Diff", k>>>> : k \in 1 .. model.Ncat}

\* 1 or exp(z_resp), over 1 + sum_k exp(z_k)
Softmax(at, resp, z) ==
    LET denom == SumFrom(Number(at, 1), [k \in Categories(at) |-> ExpJet(z[k])])
        numer == IF resp = 0 THEN Number(at, 1) ELSE ExpJet(z[resp])
    IN  Times(numer, ReciprocalJet(denom))
-----------------------------------------------------------------------------
(* OscatsModelNominal: parameters b_k, a_ki, d_j *)

NominalB(k) == k - 1
NominalA(at, i, k) == i * at.model.Ncat + k - 1
NominalCov(model) == model.Np - model.Ncov

\* Broken: the discriminations of a category are Ncat entries apart, as in hlgr.c.
NominalLayoutByCategory(model) ==
    DiffNames(model)
        \cup {<<k * model.Ncat + i - 1, <<"Discr", k, model.dims[i]>>>> :
                i \in 1 .. model.Ndims, k \in 1 .. model.Ncat}
        \cup CovariateNames(model, (model.Ndims + 1) * model.Ncat)

NominalLayout(model) ==
    DiffNames(model)
        \cup {<<i * model.Ncat + k - 1, <<"Discr", k, model.dims[i]>>>> :
                i \in 1 .. model.Ndims, k \in 1 .. model.Ncat}
        \cup CovariateNames(model, (model.Ndims + 1) * model.Ncat)
NominalNew(base) ==
    Restricted(WithParams(base, (base.Ndims + 1) * base.Ncat + base.Ncov, NominalLayout(base)),
               "cont")

NominalZ(at, k) ==
    Plus(Minus(Projection(at, [i \in Dims(at) |-> Param(at, NominalA(at, i, k))]), Param(at, NominalB(k))),
         CovariateEffect(at, NominalCov(at.model)))
NominalP(at, resp) == Softmax(at, resp, [k \in Categories(at) |-> NominalZ(at, k)])

\* The variable is called min, but keeps the largest |z_k|.
NominalDistance(at) ==
    LET z(k) == NominalZ(at, k).v
    IN  CHOOSE d \in {IF z(k) < 0 THEN -z(k) ELSE z(k) : k \in Categories(at)} :
            \A k \in Categories(at) : z(k) <= d /\ -z(k) <= d

NominalValues(at) == [k \in 0 .. at.model.Ncat |-> NominalP(at, k).v]

NominalDthetaBy(at, P, resp, Inf) ==
    LET a(i, k) == at.model.params[NominalA(at, i, k)]
        mean(i) == Total([y \in Categories(at) |-> a(i, y) * P[y]])
        inf_factor == CASE ~Inf -> 1
                        [] Inf /\ resp = 0 -> Total([y \in Categories(at) |-> P[y]]) - 1
                        [] Inf /\ resp > 0 -> -P[resp]
    IN  OverDims(at,
            [i \in Dims(at) |-> (IF resp > 0 THEN a(i, resp) ELSE 0) - mean(i)],
            [i, j \in Dims(at) |-> Total([x \in Categories(at) |->
                Neg((a(i, x) * P[x]) \otimes ((a(j, x) - mean(j)) \otimes inf_factor))])])

NominalDtheta(at, resp, Inf) == NominalDthetaBy(at, NominalValues(at), resp, Inf)

\* The parameters b_k and a_ki are those of a category, with a factor -1 or
\* theta_i; the others are d_j.
NominalCategory(at, p) == (p % at.model.Ncat) + 1
NominalFactor(at, p) ==
    IF p < at.model.Ncat THEN -1 ELSE ThetaValue(at, p \div at.model.Ncat)

NominalDparamBy(at, P, resp) ==
    LET cat(p) == NominalCategory(at, p)
        f(p) == NominalFactor(at, p)
        isCov(p) == p >= NominalCov(at.model)
        cov(p) == CovValue(at, p - NominalCov(at.model) + 1)
        grad(p) == IF isCov(p) THEN cov(p) * (P[0] - Indicator(resp = 0))
                   ELSE f(p) * (Indicator(cat(p) = resp) - P[cat(p)])
        mixed(p, y) == Neg((f(p) * cov(y) * P[0]) \otimes P[cat(p)])
        hes(p, q) == CASE isCov(p) /\ isCov(q) -> (cov(p) * cov(q) * P[0]) \otimes (P[0] - 1)
                       [] isCov(p) /\ ~isCov(q) -> mixed(q, p)
                       [] ~isCov(p) /\ isCov(q) -> mixed(p, q)
                       [] OTHER -> (f(p) * f(q) * P[cat(p)])
                                     \otimes (P[cat(q)] - Indicator(cat(p) = cat(q)))
    IN  OverParams(at, [p \in Params(at) |-> grad(p)], [p, q \in Params(at) |-> hes(p, q)])
NominalDparam(at, resp) == NominalDparamBy(at, NominalValues(at), resp)
-----------------------------------------------------------------------------
(* OscatsModelPc and OscatsModelGpc: parameters b_k, a_i (Gpc only), d_j.  *)
(* The loop of P over the covariates runs to Np instead of Ncov, past the  *)
(* ends of covariates and params; what it adds is at.junk.                 *)

StepB(k) == k - 1
GpcA(model, i) == model.Ncat + i - 1
PcCov(model) == model.Ncat
GpcCov(model) == model.Ncat + model.Ndims

PcNew(base) ==
    Restricted(WithParams(base, base.Ncat + base.Ncov,
                          DiffNames(base) \cup CovariateNames(base, PcCov(base))), "cont")
GpcNew(base) ==
    Restricted(WithParams(base, base.Ncat + base.Ndims + base.Ncov,
        DiffNames(base)
            \cup {<<GpcA(base, i), <<"Discr", 0, base.dims[i]>>>> : i \in 1 .. base.Ndims}
            \cup CovariateNames(base, GpcCov(base))), "cont")

StepZ(at, k, slope, firstCov) ==
    Plus(Plus(Minus(slope, Param(at, StepB(k))), CovariateEffect(at, firstCov)),
         Number(at, at.junk))
PcP(at, resp) ==
    LET slope == Projection(at, [i \in Dims(at) |-> Number(at, 1)])
    IN  Softmax(at, resp, [k \in Categories(at) |-> StepZ(at, k, slope, PcCov(at.model))])
GpcP(at, resp) ==
    LET slope == Projection(at, [i \in Dims(at) |-> Param(at, GpcA(at.model, i))])
    IN  Softmax(at, resp, [k \in Categories(at) |-> StepZ(at, k, slope, GpcCov(at.model))])

\* E = sum_x x P_x and V = sum_x x^2 P_x
MeanCategory(at, P) == Total([x \in Categories(at) |-> x * P[x]])
MeanSquare(at, P) == Total([x \in Categories(at) |-> x * x * P[x]])

StepDtheta(at, P, resp, Inf, a) ==
    LET E == MeanCategory(at, P)
        grad_val == resp \ominus E
        EEV == Square(E) \ominus MeanSquare(at, P)
        hes_val == IF Inf THEN EEV \otimes Neg(P[resp]) ELSE EEV
    IN  OverDimsBy(at, a, grad_val, hes_val)

PcDtheta(at, resp, Inf) ==
    StepDtheta(at, [k \in 0 .. at.model.Ncat |-> PcP(at, k).v], resp, Inf,
               [i \in Dims(at) |-> 1])
GpcDtheta(at, resp, Inf) ==
    StepDtheta(at, [k \in 0 .. at.model.Ncat |-> GpcP(at, k).v], resp, Inf,
               [i \in Dims(at) |-> at.model.params[GpcA(at.model, i)]])

(* The derivatives in the parameters.  The Hessian's entry for d_i is at   *)
(* firstCov + i, its gradient's is added to entry i, that of a b or an a.  *)
StepDparam(at, P, resp, firstCov) ==
    LET E == MeanCategory(at, P)
        EEV == Square(E) \ominus MeanSquare(at, P)
        cumSum(k) == Total([x \in k .. at.model.Ncat |-> P[x]])
        x_E(k) == Total([x \in k .. at.model.Ncat |-> x * P[x]])
                    \ominus (E \otimes cumSum(k))
        isB(p) == p < at.model.Ncat
        isCov(p) == p >= firstCov
        th(p) == ThetaValue(at, p - at.model.Ncat + 1)
        cov(p) == CovValue(at, p - firstCov + 1)
        larger(p, q) == IF p > q THEN p ELSE q
        smaller(p, q) == IF p > q THEN q ELSE p
        stepGrad(p) == CASE isB(p) -> cumSum(p + 1) - Indicator(resp >= p + 1)
                         [] isCov(p) -> 0
                         [] OTHER -> th(p) * (resp - E)
        misplaced(p) == IF p < at.model.Ncov
                        THEN CovValue(at, p + 1) * (P[0] - Indicator(resp = 0)) ELSE 0
        upper(p, q) == \* p <= q
            CASE isB(p) /\ isB(q) -> cumSum(q + 1) \otimes (cumSum(p + 1) - 1)
              [] isB(p) /\ ~isB(q) /\ ~isCov(q) -> th(q) * x_E(p + 1)
              [] isB(p) /\ isCov(q) -> cov(q) * (P[0] \otimes cumSum(p + 1))
              [] ~isB(p) /\ ~isCov(q) -> th(p) * th(q) * EEV
              [] ~isB(p) /\ ~isCov(p) /\ isCov(q) -> -th(p) * cov(q) * (E \otimes P[0])
              [] isCov(p) -> cov(p) * cov(q) * (P[0] \otimes (P[0] - 1))
    IN  OverParams(at, [p \in Params(at) |-> stepGrad(p) + misplaced(p)],
                       [p, q \in Params(at) |-> upper(smaller(p, q), larger(p, q))])

PcDparam(at, resp) ==
    StepDparam(at, [k \in 0 .. at.model.Ncat |-> PcP(at, k).v], resp, PcCov(at.model))
GpcDparam(at, resp) ==
    StepDparam(at, [k \in 0 .. at.model.Ncat |-> GpcP(at, k).v], resp, GpcCov(at.model))
-----------------------------------------------------------------------------
(* OscatsModelGr: the parameters of Gpc; P is a difference of logistics *)

GrA(model, i) == GpcA(model, i)
GrCov(model) == GpcCov(model)
GrNew(base) == GpcNew(base)

GrPStar(at, k) ==
    Logistic(Plus(Minus(Projection(at, [i \in Dims(at) |-> Param(at, GrA(at.model, i))]),
                        Param(at, StepB(k))),
                  CovariateEffect(at, GrCov(at.model))))
\* Broken: the last category has a next one.
GrPUnbounded(at, resp) ==
    Minus(IF resp = 0 THEN Number(at, 1) ELSE GrPStar(at, resp), GrPStar(at, resp + 1))

GrP(at, resp) ==
    Minus(IF resp = 0 THEN Number(at, 1) ELSE GrPStar(at, resp),
          IF resp = at.model.Ncat THEN Number(at, 0) ELSE GrPStar(at, resp + 1))

\* P* of k, 1 below the first category and 0 above the last
GrStar(at) ==
    [k \in 0 .. at.model.Ncat + 1 |-> CASE k = 0 -> 1
                                       [] k > at.model.Ncat -> 0
                                       [] OTHER -> GrPStar(at, k).v]

\* p, pq_k - pq_kk and the factor of the second derivatives
GrFactors(star, resp) ==
    LET p == star[resp] - star[resp + 1]
        pq(k) == star[k] * (1 - star[k])
        pqqp(k) == pq(k) \otimes (1 - 2 * star[k])
        first == (pq(resp) - pq(resp + 1)) \oslash p
    IN  [p |-> p, first |-> first,
         second |-> ((pqqp(resp) - pqqp(resp + 1)) \oslash p) \ominus Square(first)]

GrDthetaBy(at, f, Inf) ==
    OverDimsBy(at, [i \in Dims(at) |-> at.model.params[GrA(at.model, i)]], f.first,
               IF Inf THEN f.second \otimes (-f.p) ELSE f.second)
GrDtheta(at, resp, Inf) == GrDthetaBy(at, GrFactors(GrStar(at), resp), Inf)

(* Every parameter of DO_GRAD, DO_VAR and DO_COV has a weight dz; those of *)
(* b_k and b_(k+1) are -1.  The entries of b_(k+1) are guarded by          *)
(* k < Ncov, except with an a_i, where the guard is k < Ncat.              *)
GrDparamBy(at, f, k) ==
    LET isB(p) == p < at.model.Ncat
        isCov(p) == p >= GrCov(at.model)
        isA(p) == ~isB(p) /\ ~isCov(p)
        touched(p, bound) == isB(p) => (p + 1 = k \/ (p + 1 = k + 1 /\ k < bound))
        dz(p) == CASE isB(p) -> -1
                   [] isCov(p) -> CovValue(at, p - GrCov(at.model) + 1)
                   [] OTHER -> ThetaValue(at, p - at.model.Ncat + 1)
        bound(p, q) == IF isA(p) \/ isA(q) THEN at.model.Ncat ELSE at.model.Ncov
    IN  OverParams(at,
            [p \in Params(at) |-> IF touched(p, at.model.Ncov) THEN dz(p) * f.first ELSE 0],
            [p, q \in Params(at) |-> IF touched(p, bound(p, q)) /\ touched(q, bound(p, q))
                                     THEN dz(p) * dz(q) * f.second ELSE 0])
GrDparam(at, resp) == GrDparamBy(at, GrFactors(GrStar(at), resp), resp)
=============================================================================
