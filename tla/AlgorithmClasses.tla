-------------------------- MODULE AlgorithmClasses --------------------------
(***************************************************************************)
(* The algorithms as objects: the properties that configure them, what     *)
(* registering one for a test connects and refers to, and what it drops    *)
(* when it is disposed.  The handlers are in the modules CatTest, Adaptive *)
(* and ClassRates.                                                         *)
(*                                                                         *)
(* The first connection of a registration takes the reference that         *)
(* oscats_algorithm_register sank, each further one comes with a           *)
(* reference of its own; each drops one as it ends.                        *)
(***************************************************************************)
EXTENDS GObject, Sequences

CONSTANTS TestBank,   \* the item bank of the test
          Banks, Vectors, Spaces,
          NumCont,    \* the number of continuous dimensions of every space
          Matrices,   \* pairs of a size and the entries
          Quotas,     \* arrays for Nitems
          Counts,     \* unsigned integers
          Keys,       \* strings, and Null
          Reals       \* strings that stand for doubles

AtLeast(n) == {k \in Counts : k >= n}
OrNull(objects) == objects \union {Null}
Key == Plain("key", Keys, Null)
NumChosen == ConstructOnly("value", AtLeast(1), 1)

Connect(s) == [s EXCEPT !.handlers = @ + 1]

\* The chooser of an algorithm is its own; the field stands for
\* self->chooser->bank.
TakeBank(s) == Taken(s, "chooser.bank", TestBank)

-----------------------------------------------------------------------------
(* Algorithms without further state.                                       *)

FixedLength == [len |-> ConstructOnly("value", AtLeast(1), 20)]
FixedLengthRegister(s) == Connect(s)

Simulate ==
    [auto_record |-> Construct("value", BOOLEAN, TRUE), modelKey |-> Key, thetaKey |-> Key]
SimulateRegister(s) == Connect(s)

ClassRates ==
    [by_pattern |-> ConstructOnly("value", BOOLEAN, FALSE),
     simKey |-> ConstructOnly("key", Keys, Null), estKey |-> ConstructOnly("key", Keys, Null)]
ClassRatesRegister(s) == Connect(s)

PickRandRegister(s) == Connect(s)

\* Broken: the second connection drops a reference that nobody took.
ExposureCounterRegisterOneRef(s) == Connect(Connect(s))

ExposureCounterRegister(s) == GRef(Connect(Connect(s)))

-----------------------------------------------------------------------------
(* The chooser and the algorithms that have one.                           *)

Chooser ==
    [num |-> NumChosen, itembank |-> Plain("object", OrNull(Banks), Null)]
ChooserDispose(s) == Cleared(s, "itembank")

ClosestDiff == [num |-> NumChosen, modelKey |-> Key, thetaKey |-> Key]
ClosestDiffRegister(s) == Connect(TakeBank(s))
ClosestDiffDispose(s) == Cleared(s, "chooser.bank")

MaxFisher ==
    [num |-> NumChosen, A_opt |-> ConstructOnly("value", BOOLEAN, FALSE),
     modelKey |-> Key, thetaKey |-> Key]
MaxFisherRegister(s) == GRef(Connect(Connect(TakeBank(s))))
MaxFisherDispose(s) == Cleared(s, "chooser.bank")

-----------------------------------------------------------------------------
(* Priors.  mu is copied, of Sigma the Cholesky factor is kept.            *)

SizeOf(matrix) == matrix[1]

Cholesky(matrix) == [of |-> matrix, times |-> 1]

\* As the pointer is tested and then dereferenced when it is NULL, no mean
\* can be set.
SetMu(s, mu) ==
    IF mu = Null THEN SetField(s, "mu", Null)
    ELSE IF s.val["mu"] = Null \/ SizeOf(s.val["mu"]) # SizeOf(mu) THEN Crash(s)
    ELSE SetField(s, "mu", mu)

\* A matrix of another size is not copied: the factor that is there is
\* decomposed once more.
SetSigma(s, Sigma) ==
    LET half == s.val["Sigma"] IN
    CASE Sigma = Null -> SetField(s, "Sigma", Null)
      [] Sigma # Null /\ half # Null /\ SizeOf(half.of) # SizeOf(Sigma) ->
           SetField(s, "Sigma", [half EXCEPT !.times = 2])
      [] OTHER -> SetField(s, "Sigma", Cholesky(Sigma))

\* The factor times its transpose.
SigmaOf(half) ==
    CASE half = Null -> Null
      [] half # Null /\ half.times = 1 -> half.of
      [] OTHER -> <<SizeOf(half.of), "another matrix">>

\* The setter drops a reference but takes none.
SetDprior(s, prior) == Given(s, "Dprior", prior)

SetPrior(class, s, p, v) ==
    CASE p = "mu"     -> SetMu(s, v)
      [] p = "Sigma"  -> SetSigma(s, v)
      [] p = "Dprior" -> SetDprior(s, v)
      [] OTHER        -> Set(class, s, p, v)

MaxKl ==
    [num |-> NumChosen,
     inf_bounds |-> ConstructOnly("value", BOOLEAN, FALSE),
     posterior |-> ConstructOnly("value", BOOLEAN, FALSE),
     c |-> Construct("value", Reals, "3"),
     mu |-> Construct("value", OrNull(Matrices), Null),
     Sigma |-> Construct("value", OrNull(Matrices), Null),
     Dprior |-> Plain("object", OrNull(Vectors), Null),
     modelKey |-> Key, thetaKey |-> Key]
MaxKlSet(s, p, v) == SetPrior(MaxKl, s, p, v)
MaxKlGet(s, p) == IF p = "Sigma" THEN SigmaOf(s.val[p]) ELSE Get(MaxKl, s, p)
MaxKlRegister(s) == GRef(Connect(Connect(TakeBank(s))))

\* alloc_workspace makes a new point for the patterns, which refers to the
\* space, and then gives up when the prior does not fit the space.
MaxKlResize(s, space) ==
    LET fits == s.val["posterior"] /\ s.val["Sigma"] # Null
                  => SizeOf(s.val["Sigma"].of) = NumCont
        pointed == Replaced(s, "theta.space", space)
    IN  IF fits THEN Replaced(pointed, "space", space) ELSE pointed

MaxKlDispose(s) ==
    Cleared(Cleared(Cleared(Cleared(s, "chooser.bank"), "space"), "Dprior"), "theta.space")

Estimate ==
    [independent |-> Plain("value", BOOLEAN, FALSE),
     posterior |-> Plain("value", BOOLEAN, FALSE),
     Nposterior |-> Construct("value", Counts, 0),
     mu |-> Plain("value", OrNull(Matrices), Null),
     Sigma |-> Plain("value", OrNull(Matrices), Null),
     Dprior |-> Plain("object", OrNull(Vectors), Null),
     tol |-> Construct("value", Reals, "1e-6"),
     modelKey |-> Key, thetaKey |-> Key]
EstimateSet(s, p, v) == SetPrior(Estimate, s, p, v)
EstimateGet(s, p) == IF p = "Sigma" THEN SigmaOf(s.val[p]) ELSE Get(Estimate, s, p)
EstimateRegister(s) == Connect(s)

\* The factor is not an object but unreferenced as one.
EstimateDispose(s) ==
    IF s.val["Sigma"] # Null THEN Crash(s) ELSE Cleared(s, "Dprior")

-----------------------------------------------------------------------------
(* Stratification.                                                         *)

Stratify ==
    [num |-> ReadOnly(0), itembank |-> ConstructOnly("object", OrNull(Banks), Null)]
StratifyDispose(s) == Cleared(s, "itembank")

Astrat ==
    [equal |-> ConstructOnly("value", BOOLEAN, TRUE),
     Nstrata |-> Construct("value", AtLeast(1), 2),
     Nblocks |-> Construct("value", Counts, 0),
     Nequal |-> Construct("value", AtLeast(1), 5),
     Nitems |-> Plain("value", OrNull(Quotas), Null),
     modelKey |-> Key,
     Ncur |-> ReadOnly(0)]

\* Broken: the number of strata may always be set.
AstratSetAnyNstrata(s, p, v) ==
    CASE p = "Nitems" ->
           IF s.val["equal"] \/ v = Null \/ v = <<>> THEN s
           ELSE [s EXCEPT !.val["Nstrata"] = Len(v), !.val["Nitems"] = v]
      [] OTHER -> Set(Astrat, s, p, v)

\* Once the quotas are given they decide the number of strata.
AstratSet(s, p, v) ==
    CASE p = "Nstrata" -> IF s.val["Nitems"] # Null THEN s ELSE SetField(s, p, v)
      [] p = "Nitems"  ->
           IF s.val["equal"] \/ v = Null \/ v = <<>> THEN s
           ELSE [s EXCEPT !.val["Nstrata"] = Len(v), !.val["Nitems"] = v]
      [] OTHER -> Set(Astrat, s, p, v)

\* The stratification is the algorithm's own and refers to the bank.
AstratRegister(s) == Connect(GRef(Connect(Taken(s, "stratify.bank", TestBank))))
AstratDispose(s) == Cleared(s, "stratify.bank")
=============================================================================
