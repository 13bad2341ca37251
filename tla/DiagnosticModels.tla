-------------------------- MODULE DiagnosticModels --------------------------
(***************************************************************************)
(* The models over binary dimensions: OscatsModelDina and OscatsModelNida. *)
(* An examinee who masters a dimension succeeds unless he slips; one who   *)
(* does not succeeds if he guesses.                                        *)
(***************************************************************************)
EXTENDS ItemModel

Masters(at, i) == at.theta[<<"bin", shortDim(at.model.dims[i])>>] = 1

Response(p, resp) == IF resp = 1 THEN p ELSE OneMinus(p)
-----------------------------------------------------------------------------
(* OscatsModelDina: one guess and one slip parameter for the item *)

Guess == 0
Slip == 1

DinaNew(base) ==
    Restricted(WithParams(base, 2, {<<Guess, <<"Guess", 0>>>>, <<Slip, <<"Slip", 0>>>>}), "bin")

DinaPass(at) == \A i \in 1 .. at.model.Ndims : Masters(at, i)
DinaP(at, resp) ==
    Response(IF DinaPass(at) THEN OneMinus(Param(at, Slip)) ELSE Param(at, Guess), resp)

\* The tmp of each of the four cases; that of a wrong response by guessing
\* is Guess, where 1 - Guess would be right.
DinaDparam(at, resp) ==
    LET which == IF DinaPass(at) THEN Slip ELSE Guess
        tmp == IF which = Slip /\ resp = 1 THEN at.model.params[Slip] - 1
               ELSE at.model.params[which]
        sign == IF which = Guess /\ resp = 0 THEN -1 ELSE 1
    IN  OverParams(at,
            [p \in Params(at) |-> IF p = which THEN sign * Reciprocal(tmp) ELSE 0],
            [p, q \in Params(at) |->
                IF p = which /\ q = which THEN -sign * Reciprocal(tmp * tmp) ELSE 0])
-----------------------------------------------------------------------------
(* OscatsModelNida: a guess and a slip parameter for each dimension *)

NidaGuess(i) == i - 1
NidaSlip(model, i) == model.Ndims + i - 1

NidaNew(base) ==
    Restricted(WithParams(base, 2 * base.Ndims,
        UNION {{<<NidaGuess(i), <<"Guess", base.dims[i]>>>>,
                <<NidaSlip(base, i), <<"Diff", base.dims[i]>>>>} : i \in 1 .. base.Ndims}), "bin")

\* The parameter that is in force for dimension i
NidaParam(at, i) == IF Masters(at, i) THEN NidaSlip(at.model, i) ELSE NidaGuess(i)

NidaP(at, resp) ==
    LET success(i) == IF Masters(at, i) THEN OneMinus(Param(at, NidaSlip(at.model, i)))
                      ELSE Param(at, NidaGuess(i))
        product[n \in 0 .. at.model.Ndims] ==
            IF n = 0 THEN Number(at, 1) ELSE Times(product[n - 1], success(n))
    IN  Response(product[at.model.Ndims], resp)

(* For a wrong response p is P of that response, and logit_p = p/(1-p)     *)
(* where (1-p)/p would be right.                                           *)
NidaDparamBy(at, p0, resp) ==
    LET inForce == {NidaParam(at, i) : i \in 1 .. at.model.Ndims}
        slips(p) == p >= at.model.Ndims
        sign(p) == IF slips(p) THEN -1 ELSE 1
        success(p) == IF slips(p) THEN 1 - at.model.params[p] ELSE at.model.params[p]
        logit_p == p0 \oslash (1 - p0)
        right(p) == sign(p) * Reciprocal(success(p))
        wrong(p) == (-sign(p)) * (logit_p \oslash success(p))
        crossed(p, q) == (IF slips(p) /\ slips(q) THEN -1 ELSE 1)
                           * ((logit_p \oslash (success(p) * success(q))) \oslash (1 - p0))
        grad(p) == CASE p \notin inForce -> 0
                     [] p \in inForce /\ resp = 1 -> right(p)
                     [] p \in inForce /\ resp = 0 -> wrong(p)
        hes(p, q) == CASE p = q -> -grad(p) * grad(p)
                       [] resp = 0 /\ p # q /\ {p, q} \subseteq inForce -> crossed(p, q)
                       [] OTHER -> 0
    IN  OverParams(at, [p \in Params(at) |-> grad(p)], [p, q \in Params(at) |-> hes(p, q)])
NidaDparam(at, resp) == NidaDparamBy(at, NidaP(at, 0).v, resp)
=============================================================================
