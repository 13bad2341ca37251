------------------------------ MODULE Adaptive ------------------------------
(***************************************************************************)
(* Tests that adapt to the examinee: a selection algorithm (MaxFisher,     *)
(* MaxKl or ClosestDiff) that reads the examinee's estimate, and Estimate, *)
(* which moves it after every item.  The order of the signals is that of   *)
(* OscatsTest; of the loop only the number of recorded items is kept.      *)
(***************************************************************************)
EXTENDS Estimate, Selection

CONSTANTS Spaces,      \* the latent spaces of the tests
          Selectors,   \* subset of {"fisher", "kl", "diff"}
          Likelihoods, \* the levels of likelihood, Impossible among them
          Nposteriors, \* values of the property Nposterior
          MaxItems,    \* bound on the items recorded in a test
          MaxTests     \* bound on the number of tests

ASSUME AdaptiveAssumption ==
    /\ \A space \in Spaces : /\ space.num_cont \in Nat /\ space.num_bin \in Nat
                             /\ space.num_cont > 0 \/ haveDiscr(space)
    /\ Likelihoods \subseteq Nat /\ Impossible \in Likelihoods
    /\ Nposteriors \subseteq Nat

\* The least maximum of a natural dimension is 1 (space.c).
ASSUME SpacesAssumption == \A space \in Spaces : space.max \in Seq(Nat \ {0})

VARIABLES pc,        \* the signal emitted next, or "idle" between tests
          selector,  \* the selection algorithm in use
          fisher,    \* the OscatsAlgMaxFisher
          kl,        \* the OscatsAlgMaxKl
          estimator, \* the OscatsAlgEstimate
          theta,     \* the examinee's point for estimation
          search,    \* the search in progress, or the last one
          len,       \* the number of items recorded for the examinee
          tests,     \* the number of tests begun
          lost       \* ghost: some search met no possible pattern

vars == <<pc, selector, fisher, kl, estimator, theta, search, len, tests, lost>>

NoTheta == [space |-> NoSpace]

Init ==
    /\ pc = "idle"
    /\ selector \in Selectors
    /\ fisher = NewFisher
    /\ kl \in {NewKl(posterior, bounds) : posterior, bounds \in BOOLEAN}
    /\ kl # NewKl(FALSE, TRUE) => selector = "kl"
    /\ estimator \in {NewEstimator(eap, independent, N) :
                        eap, independent \in BOOLEAN, N \in Nposteriors}
    /\ theta = NoTheta
    /\ search = NoSearch
    /\ len = 0 /\ tests = 0
    /\ lost = FALSE

\* The program gives the examinee a point to begin with.
SetEstTheta(space, bin) ==
    /\ pc = "idle" /\ tests < MaxTests
    /\ theta' = [WithCont(NewPoint(space), "start") EXCEPT !.bin = bin]
    /\ lost' = FALSE
    /\ UNCHANGED <<pc, selector, fisher, kl, estimator, search, len, tests>>

\* oscats_alg_max_fisher_resize or oscats_alg_max_kl_resize, between tests
\* for any space, and during one for its own.
Resize(space) ==
    /\ pc \in {"idle", "select"}
    /\ pc = "select" => space = theta.space
    /\ fisher' = IF selector = "fisher" THEN FisherResize(space.num_cont) ELSE fisher
    /\ kl' = IF selector = "kl" THEN KlResize(kl, space) ELSE kl
    /\ UNCHANGED <<pc, selector, estimator, theta, search, len, tests, lost>>

\* The examinee's items are cleared, and ::initialize is emitted.
Start ==
    /\ pc = "idle" /\ theta # NoTheta /\ tests < MaxTests
    /\ pc' = "select"
    /\ len' = 0 /\ tests' = tests + 1
    /\ fisher' = IF selector = "fisher" THEN FisherInitialize(fisher) ELSE fisher
    /\ kl' = IF selector = "kl" THEN KlInitialize(kl) ELSE kl
    /\ UNCHANGED <<selector, estimator, theta, search, lost>>

(* ::select.  If any item is eligible, its criterion is evaluated; the     *)
(* item chosen may be rejected, and then another one is asked for.         *)
Select(eligible, approved) ==
    LET space == theta.space
        f == FisherAccumulate(fisher, theta, len)
        k == KlAccumulate(kl, theta, len)
    IN  /\ pc = "select"
        /\ pc' = CASE ~eligible -> "idle"
                   [] eligible /\ approved -> "administer"
                   [] eligible /\ ~approved -> "select"
        /\ fisher' = CASE selector # "fisher" -> fisher
                       [] selector = "fisher" /\ eligible -> FisherCriterion(f, space)
                       [] selector = "fisher" /\ ~eligible -> f
        /\ kl' = CASE selector # "kl" -> kl
                   [] selector = "kl" /\ eligible -> KlCriterion(k, space)
                   [] selector = "kl" /\ ~eligible -> k
        /\ UNCHANGED <<selector, estimator, theta, search, len, tests, lost>>

Becomes(s) ==
    /\ theta' = s.theta /\ estimator' = s.self /\ search' = s.search
    /\ lost' = (lost \/ (s.search.mode # "none" /\ ~Searching(s) /\ s.search.max = 0))

\* ::administer records the item or not; then ::administered is emitted.
Administer(recorded, converges) ==
    /\ pc = "administer" /\ len < MaxItems
    /\ pc' = "administered"
    /\ len' = len + (IF recorded THEN 1 ELSE 0)
    /\ Becomes(administered(theta, estimator, len', converges))
    /\ UNCHANGED <<selector, fisher, kl, tests>>

SearchOn(converges, likelihood) ==
    /\ pc = "administered"
    /\ Searching(At(theta, estimator, search))
    /\ Becomes(NextPattern(At(theta, estimator, search), converges, likelihood))
    /\ UNCHANGED <<pc, selector, fisher, kl, len, tests>>

\* ::stopcrit
Stopcrit(stop) ==
    /\ pc = "administered"
    /\ ~Searching(At(theta, estimator, search))
    /\ pc' = IF stop \/ len = MaxItems THEN "idle" ELSE "select"
    /\ search' = NoSearch
    /\ UNCHANGED <<selector, fisher, kl, estimator, theta, len, tests, lost>>

Next ==
    \/ \E space \in Spaces : \/ \E bin \in SUBSET (0 .. space.num_bin - 1) :
                                   SetEstTheta(space, bin)
                             \/ Resize(space)
    \/ Start
    \/ \E eligible, approved \in BOOLEAN : Select(eligible, approved)
    \/ \E recorded, converges \in BOOLEAN : Administer(recorded, converges)
    \/ \E converges \in BOOLEAN, likelihood \in Likelihoods : SearchOn(converges, likelihood)
    \/ \E stop \in BOOLEAN : Stopcrit(stop)

Spec == Init /\ [][Next]_vars
-----------------------------------------------------------------------------
Estimated == pc = "administered" /\ ~Searching(At(theta, estimator, search)) /\ len > 0

(* After the handler of ::administered the estimate is a point that was    *)
(* evaluated in the search that decided it, and none of those evaluated is *)
(* likelier; with one attribute these are all patterns.  Its continuous    *)
(* coordinates are from an iteration that converged or from an integral,   *)
(* also when the maximum likelihood search was given up half-way.          *)
(* Natural dimensions are excepted: see NextPattern.                       *)
EstimateIsLikeliest ==
    LET visited == search.visited
        likeliest(v) == v.likelihood > 0 /\ \A w \in visited : w.likelihood <= v.likelihood
    IN  Estimated =>
          /\ lost \/ theta.cont \in {"ml", "eap", "none"}
          /\ theta.space.max = <<>> /\ visited # {} =>
               /\ \/ \E v \in visited : likeliest(v) /\ v.bin = theta.bin /\ v.cont = theta.cont
                  \/ \A v \in visited : v.likelihood = 0
               /\ theta.space.num_bin = 1 => {v.bin : v \in visited} = {{}, {0}}

(* At every selection the information of MaxFisher and MaxKl is that of    *)
(* the items recorded for this examinee, each once, computed at estimates  *)
(* that were settled: also after rejected selections, items that were not  *)
(* recorded, tests in other spaces, and resizing.                          *)
InformationExact ==
    \A sum \in {<<fisher.base, fisher.base_num>>, <<kl.Inf, kl.base_num>>} :
        LET matrix == sum[1]
        IN  pc = "administer" /\ matrix # NoMatrix =>
              /\ sum[2] = len
              /\ [i \in DOMAIN matrix |-> matrix[i].item] = [i \in 1 .. len |-> i]
              /\ lost \/ \A i \in DOMAIN matrix : matrix[i].cont # "far"

(* The sum of MaxKl over a space with at most one binary and one natural   *)
(* dimension meets every pattern once, whatever the scratch point was left *)
(* at, so that each pattern gets its own weight of the prior; and for any  *)
(* space it meets no more patterns than the prior has entries.             *)
EveryPatternSummedOnce ==
    LET space == kl.space
        summed == SummedFrom(kl.theta)
    IN  space # NoSpace /\ haveDiscr(space) =>
          /\ Len(summed) <= numPatterns(space)
          /\ space.num_bin <= 1 /\ Len(space.max) <= 1 =>
               /\ Len(summed) = numPatterns(space)
               /\ {[bin |-> p.bin, nat |-> p.nat] : p \in ToSet(summed)} = Patterns(space)
=============================================================================
