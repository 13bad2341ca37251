--------------------------- MODULE Adaptive_proofs ---------------------------
(***************************************************************************)
(* For any spaces, bounds and likelihoods, InformationExact: the           *)
(* information MaxFisher and MaxKl have summed at every selection is that  *)
(* of the items recorded; EstimateIsLikeliest: the estimate is the         *)
(* likeliest of the points that the search for it has met; and             *)
(* EveryPatternSummedOnce: the sum of MaxKl goes over each pattern once,   *)
(* and over no more than the prior has entries.                            *)
(***************************************************************************)
EXTENDS Adaptive, FiniteSetTheorems, TLAPS

Conts == {"none", "zero", "start", "ml", "far", "eap"}
Entry == [item : Nat, cont : Conts]

-----------------------------------------------------------------------------
(* The shape of the data.                                                  *)

(* An iteration that fails can only leave a point with continuous          *)
(* dimensions.                                                             *)
IsPoint(p) ==
    /\ p = [space |-> p.space, cont |-> p.cont, bin |-> p.bin, nat |-> p.nat]
    /\ p.cont \in Conts
    /\ p.cont = "far" => p.space.num_cont > 0

IsEstimator(e) ==
    /\ e = [eap |-> e.eap, independent |-> e.independent, Nposterior |-> e.Nposterior, x |-> e.x]
    /\ e.eap \in BOOLEAN /\ e.independent \in BOOLEAN /\ e.Nposterior \in Nat

IsSearch(r) ==
    /\ r = [mode |-> r.mode, n |-> r.n, max |-> r.max, visited |-> r.visited]
    /\ r.mode \in {"none", "mle", "map"}

IsFisher(f) == f = [dim |-> f.dim, base |-> f.base, base_num |-> f.base_num]

IsKl(k) ==
    k = [posterior |-> k.posterior, inf_bounds |-> k.inf_bounds, space |-> k.space,
         theta |-> k.theta, Inf |-> k.Inf, base_num |-> k.base_num]

-----------------------------------------------------------------------------
(* Where the continuous coordinates may be those of a failed iteration.    *)

(* The handler has left theta at such a point only to search a posteriori, *)
(* and found no possible pattern yet.                                      *)
FarOnlySearching(s) ==
    s.theta.cont = "far" => s.search.mode = "map" /\ s.search.max = 0

(* A point that is evaluated as it is did not come from one.               *)
EvaluatedSettled(s) == ~EachTime(s.self, s.theta) => s.self.x.cont # "far"

(* The estimator's own point has the geometry of the examinee's.           *)
SameGeometry(s) == IsPoint(s.self.x) /\ SpaceCompatible(s.theta.space, s.self.x.space)

IsState(s) ==
    /\ s = [theta |-> s.theta, self |-> s.self, search |-> s.search]
    /\ IsPoint(s.theta) /\ IsEstimator(s.self) /\ IsSearch(s.search)
    /\ s.search.mode # "none" => SameGeometry(s)

Sound(s) == FarOnlySearching(s) /\ (s.search.mode # "none" => EvaluatedSettled(s))

-----------------------------------------------------------------------------
(* The inductive invariant.                                                *)

State == At(theta, estimator, search)
GaveUp == search.mode # "none" /\ ~Searching(State) /\ search.max = 0

ThetaInv ==
    /\ lost \in BOOLEAN
    /\ IsEstimator(estimator)
    /\ estimator.x = NoX \/ IsPoint(estimator.x)
    /\ theta = NoTheta \/ IsPoint(theta)
    /\ pc # "idle" => theta # NoTheta
    /\ pc # "administered" => theta = NoTheta \/ lost \/ theta.cont # "far"
    /\ pc = "administered" =>
          /\ IsState(State)
          /\ GaveUp => lost
          /\ lost \/ Sound(State)

(* The first num items, in their order, at estimates that were settled     *)
(* unless that is excused.                                                 *)
FirstItems(matrix, num, excused) ==
    /\ matrix \in Seq(Entry) /\ Len(matrix) = num
    /\ \A i \in 1 .. num : matrix[i].item = i /\ (excused \/ matrix[i].cont # "far")

(* A matrix that is allocated has those, and at ::administer all of them.  *)
Summed(matrix, num) ==
    /\ num \in Nat /\ num <= len
    /\ matrix # NoMatrix => FirstItems(matrix, num, lost) /\ (pc = "administer" => num = len)

(* Once a criterion was evaluated the workspaces fit the space.            *)
Evaluated == len > 0 \/ pc \in {"administer", "administered"}

MatrixInv ==
    /\ pc \in {"idle", "select", "administer", "administered"}
    /\ len \in Nat
    /\ IsFisher(fisher) /\ IsKl(kl)
    /\ selector # "fisher" => fisher.base = NoMatrix /\ fisher.base_num = 0
    /\ selector # "kl" => kl.Inf = NoMatrix /\ kl.base_num = 0
    /\ pc # "idle" =>
          /\ Summed(fisher.base, fisher.base_num)
          /\ Summed(kl.Inf, kl.base_num)
          /\ selector = "fisher" /\ Evaluated => fisher.dim = theta.space.num_cont
          /\ selector = "kl" /\ Evaluated => SpaceCompatible(kl.space, theta.space)

IInv == ThetaInv /\ MatrixInv

-----------------------------------------------------------------------------
(* Points.                                                                 *)

(* A new point is a point of its space.                                    *)
LEMMA NewPointIsPoint == ASSUME NEW space PROVE IsPoint(NewPoint(space)) /\ NewPoint(space).space = space
  BY DEF IsPoint, NewPoint, Conts

(* The setters of a point leave the rest of it alone.                      *)
LEMMA WithContSame ==
    ASSUME NEW p, IsPoint(p), NEW value \in Conts
    PROVE  /\ IsPoint(WithCont(p, value))
           /\ WithCont(p, value).space = p.space
           /\ p.space.num_cont > 0 => WithCont(p, value).cont = value
           /\ ~(p.space.num_cont > 0) => WithCont(p, value) = p
  BY DEF IsPoint, WithCont

(* A point whose discrete coordinates are set keeps its space and the      *)
(* continuous ones.                                                        *)
LEMMA WithDiscreteSame ==
    ASSUME NEW p, IsPoint(p), NEW step
    PROVE  /\ IsPoint(WithBin(p, step)) /\ IsPoint(WithNat(p, step))
           /\ WithBin(p, step).space = p.space /\ WithNat(p, step).space = p.space
           /\ WithBin(p, step).cont = p.cont /\ WithNat(p, step).cont = p.cont
  BY DEF IsPoint, WithBin, WithNat

(* A copy of a point is a point of the same space.                         *)
LEMMA CopyIsPoint ==
    ASSUME NEW lhs, NEW rhs, IsPoint(lhs), IsPoint(rhs)
    PROVE  /\ IsPoint(CopyOf(lhs, rhs))
           /\ CopyOf(lhs, rhs).space = lhs.space
           /\ SpaceCompatible(lhs.space, rhs.space) => CopyOf(lhs, rhs).cont = rhs.cont
  BY DEF IsPoint, CopyOf, SpaceCompatible

(* Spaces are compatible in either order.                                  *)
LEMMA CompatibleSymmetric ==
    ASSUME NEW a, NEW b, SpaceCompatible(a, b)
    PROVE  SpaceCompatible(b, a)
  BY DEF SpaceCompatible

-----------------------------------------------------------------------------
(* The steps of the estimator.                                             *)

(* What the handler and each step of the search lead to: the examinee's    *)
(* point keeps its space.                                                  *)
Follows(t, theta0) ==
    /\ IsState(t) /\ t.theta.space = theta0.space
    /\ t.self.x = NoX \/ IsPoint(t.self.x)

(* The posterior estimate leaves the search in a sound state.              *)
LEMMA BeginMAPSound ==
    ASSUME NEW theta0, NEW self0, IsPoint(theta0), IsEstimator(self0), IsPoint(self0.x),
           SpaceCompatible(theta0.space, self0.x.space)
    PROVE  LET t == BeginMAP(theta0, self0) IN Follows(t, theta0) /\ Sound(t)
<1> DEFINE x == CopyOf(self0.x, theta0)
           y == IF Once(self0, theta0) THEN EAP(x) ELSE x
           t == BeginMAP(theta0, self0)
<1>1. IsPoint(x) /\ x.space = self0.x.space /\ x.cont = theta0.cont
  BY CopyIsPoint, CompatibleSymmetric
<1>2. x.space.num_cont = theta0.space.num_cont
  BY <1>1 DEF SpaceCompatible
<1>3. IsPoint(y) /\ y.space = x.space /\ (Once(self0, theta0) => y.cont = "eap")
  BY <1>1, <1>2, WithContSame DEF EAP, Conts, Once
<1>4. CASE haveDiscr(theta0.space)
  <2>1. t = At(theta0, [self0 EXCEPT !.x = y], Search("map"))
    BY <1>4 DEF BeginMAP
  <2>2. /\ t.theta = theta0 /\ t.self = [self0 EXCEPT !.x = y] /\ t.search = Search("map")
        /\ t = [theta |-> t.theta, self |-> t.self, search |-> t.search]
    BY <2>1 DEF At
  <2>3. IsEstimator(t.self) /\ t.self.x = y /\ t.self.independent = self0.independent
    BY <2>2 DEF IsEstimator
  <2>4. IsSearch(t.search) /\ t.search.mode = "map" /\ t.search.max = 0
    BY <2>2 DEF IsSearch, Search
  <2>5. SameGeometry(t)
    BY <2>2, <2>3, <1>1, <1>3 DEF SameGeometry
  <2>6. EvaluatedSettled(t)
    <3>1. SUFFICES ASSUME ~EachTime(t.self, t.theta) PROVE y.cont # "far"
      BY <2>3 DEF EvaluatedSettled
    <3>2. CASE Once(self0, theta0)
      BY <3>2, <1>3
    <3>3. CASE ~Once(self0, theta0)
      <4>1. ~(theta0.space.num_cont > 0)
        BY <3>1, <3>3, <1>4, <2>2, <2>3 DEF Once, EachTime
      <4>2. y = x
        BY <3>3
      <4> QED BY <4>1, <4>2, <1>1, <1>2 DEF IsPoint
    <3> QED BY <3>2, <3>3
  <2> QED BY <2>2, <2>3, <2>4, <2>5, <2>6, <1>3 DEF IsState, Sound, FarOnlySearching, Follows
<1>5. CASE ~haveDiscr(theta0.space)
  <2>1. t = At(CopyOf(theta0, y), [self0 EXCEPT !.x = y], NoSearch)
    BY <1>5 DEF BeginMAP
  <2>2. /\ t.theta = CopyOf(theta0, y) /\ t.self = [self0 EXCEPT !.x = y] /\ t.search = NoSearch
        /\ t = [theta |-> t.theta, self |-> t.self, search |-> t.search]
    BY <2>1 DEF At
  <2>3. IsEstimator(t.self) /\ t.self.x = y
    BY <2>2 DEF IsEstimator
  <2>4. IsSearch(t.search) /\ t.search.mode = "none"
    BY <2>2 DEF IsSearch, NoSearch
  <2>5. IsPoint(t.theta) /\ t.theta.space = theta0.space /\ t.theta.cont = y.cont
    BY <2>2, <1>1, <1>3, CopyIsPoint
  <2>6. y.cont # "far"
    BY <1>1, <1>2, <1>3, <1>5 DEF Once, IsPoint
  <2> QED BY <2>2, <2>3, <2>4, <2>5, <2>6, <1>3 DEF IsState, Sound, FarOnlySearching, Follows
<1> QED BY <1>4, <1>5

(* The likelihood estimate starts the search in a sound state, from a      *)
(* point that is not far off.                                              *)
LEMMA BeginMLESound ==
    ASSUME NEW theta0, NEW self0, NEW converges \in BOOLEAN,
           IsPoint(theta0), IsEstimator(self0), IsPoint(self0.x),
           SpaceCompatible(theta0.space, self0.x.space)
    PROVE  LET t == BeginMLE(theta0, self0, converges)
           IN  Follows(t, theta0) /\ (theta0.cont # "far" => Sound(t))
<1> DEFINE first == IF Once(self0, theta0) THEN NR(theta0, converges) ELSE theta0
           x == CopyOf(self0.x, first)
           t == BeginMLE(theta0, self0, converges)
<1> SUFFICES Follows(t, theta0) /\ (theta0.cont # "far" => Sound(t))
  OBVIOUS
<1>1. IsPoint(first) /\ first.space = theta0.space
  BY WithContSame DEF NR, Conts
<1>2. converges /\ theta0.cont # "far" => first.cont # "far"
  BY WithContSame DEF NR, Conts, Once
<1>3. CASE Once(self0, theta0) /\ ~converges
  <2>1. t = BeginMAP(first, self0)
    BY <1>3 DEF BeginMLE
  <2> QED BY <2>1, <1>1, BeginMAPSound DEF Follows
<1>4. CASE Once(self0, theta0) /\ converges /\ ~haveDiscr(theta0.space)
  <2>1. t = At(first, self0, NoSearch)
    BY <1>4 DEF BeginMLE
  <2> HIDE DEF first, t
  <2>2. /\ t.theta = first /\ t.self = self0 /\ t.search = NoSearch
        /\ t = [theta |-> t.theta, self |-> t.self, search |-> t.search]
    BY <2>1 DEF At
  <2>3. IsSearch(t.search) /\ t.search.mode = "none"
    BY <2>2 DEF IsSearch, NoSearch
  <2> QED BY <2>2, <2>3, <1>1, <1>2, <1>4 DEF Follows, IsState, Sound, FarOnlySearching
<1>5. CASE /\ ~(Once(self0, theta0) /\ ~converges)
           /\ ~(Once(self0, theta0) /\ converges /\ ~haveDiscr(theta0.space))
  <2>1. t = At(first, [self0 EXCEPT !.x = x], Search("mle"))
    BY <1>5 DEF BeginMLE, IsEstimator
  <2>2. IsPoint(x) /\ x.space = self0.x.space /\ x.cont = first.cont
    BY <1>1, CopyIsPoint, CompatibleSymmetric
  <2>3. theta0.cont # "far" => first.cont # "far"
    BY <1>2, <1>5
  <2> HIDE DEF first, x, t
  <2>4. /\ t.theta = first /\ t.self = [self0 EXCEPT !.x = x] /\ t.search = Search("mle")
        /\ t = [theta |-> t.theta, self |-> t.self, search |-> t.search]
    BY <2>1 DEF At
  <2>5. IsEstimator(t.self) /\ t.self.x = x
    BY <2>4 DEF IsEstimator
  <2>6. IsSearch(t.search) /\ t.search.mode = "mle"
    BY <2>4 DEF IsSearch, Search
  <2> QED BY <2>2, <2>3, <2>4, <2>5, <2>6, <1>1
          DEF Follows, IsState, SameGeometry, Sound, FarOnlySearching, EvaluatedSettled
<1> QED BY <1>3, <1>4, <1>5

(* Before a search the estimator has a point of its own that is compatible *)
(* with the space of the point it is given.                                *)
LEMMA PreparedFits ==
    ASSUME NEW theta0, NEW self0, IsPoint(theta0), IsEstimator(self0),
           self0.x = NoX \/ IsPoint(self0.x)
    PROVE  LET ready == Prepared(self0, theta0)
           IN  /\ IsEstimator(ready) /\ IsPoint(ready.x)
               /\ SpaceCompatible(theta0.space, ready.x.space)
<1>1. CASE self0.x # NoX /\ SpaceCompatible(theta0.space, self0.x.space)
  BY <1>1 DEF Prepared
<1>2. CASE ~(self0.x # NoX /\ SpaceCompatible(theta0.space, self0.x.space))
  <2>1. Prepared(self0, theta0) = [self0 EXCEPT !.x = NewPoint(theta0.space)]
    BY <1>2 DEF Prepared
  <2> QED BY <2>1, NewPointIsPoint DEF IsEstimator, SpaceCompatible
<1> QED BY <1>1, <1>2

(* The handler of ::administered.                                          *)
LEMMA AdministeredSound ==
    ASSUME NEW theta0, NEW self0, NEW num \in Nat, NEW converges \in BOOLEAN,
           IsPoint(theta0), IsEstimator(self0), self0.x = NoX \/ IsPoint(self0.x)
    PROVE  LET t == administered(theta0, self0, num, converges)
           IN  Follows(t, theta0) /\ (theta0.cont # "far" => Sound(t))
<1> DEFINE ready == Prepared(self0, theta0)
           t == administered(theta0, self0, num, converges)
<1> SUFFICES Follows(t, theta0) /\ (theta0.cont # "far" => Sound(t))
  OBVIOUS
<1>1. IsEstimator(ready) /\ IsPoint(ready.x) /\ SpaceCompatible(theta0.space, ready.x.space)
  BY PreparedFits
<1>2. self0.eap \in BOOLEAN /\ self0.Nposterior \in Nat
  BY DEF IsEstimator
<1> HIDE DEF ready
<1>3. CASE num = 0
  <2>1. t = At(theta0, ready, NoSearch)
    BY <1>3 DEF administered, ready
  <2> HIDE DEF t
  <2>2. /\ t.theta = theta0 /\ t.self = ready /\ t.search = NoSearch
        /\ t = [theta |-> t.theta, self |-> t.self, search |-> t.search]
    BY <2>1 DEF At
  <2>3. IsSearch(t.search) /\ t.search.mode = "none"
    BY <2>2 DEF IsSearch, NoSearch
  <2> QED BY <2>2, <2>3, <1>1 DEF Follows, IsState, Sound, FarOnlySearching
<1>4. CASE num > 0 /\ (self0.eap \/ num <= self0.Nposterior)
  <2>1. t = BeginMAP(theta0, ready)
    BY <1>2, <1>4 DEF administered, ready
  <2> QED BY <2>1, <1>1, BeginMAPSound
<1>5. CASE num > 0 /\ ~(self0.eap \/ num <= self0.Nposterior)
  <2>1. t = BeginMLE(theta0, ready, converges)
    BY <1>2, <1>5 DEF administered, ready
  <2> QED BY <2>1, <1>1, BeginMLESound
<1> QED BY <1>3, <1>4, <1>5

(* A comparison takes the point over, or leaves theta where it was.        *)
LEMMA CompareSound ==
    ASSUME NEW s, IsState(s), s.search.mode # "none", NEW theta0, NEW x, NEW likelihood,
           IsPoint(theta0), theta0.cont = s.theta.cont, theta0.space = s.theta.space,
           IsPoint(x), SpaceCompatible(theta0.space, x.space)
    PROVE  LET t == Compare(s, theta0, x, likelihood)
           IN  /\ Follows(t, theta0)
               /\ FarOnlySearching(s) /\ x.cont # "far" => Sound(t)
<1> DEFINE t == Compare(s, theta0, x, likelihood)
<1> SUFFICES Follows(t, theta0) /\ (FarOnlySearching(s) /\ x.cont # "far" => Sound(t))
  OBVIOUS
<1>1. IsPoint(CopyOf(theta0, x)) /\ CopyOf(theta0, x).space = theta0.space
        /\ CopyOf(theta0, x).cont = x.cont
  BY CopyIsPoint
<1>2. /\ t = [theta |-> t.theta, self |-> t.self, search |-> t.search]
      /\ t.self = [s.self EXCEPT !.x = x]
      /\ t.search.mode = s.search.mode /\ IsSearch(t.search)
      /\ \/ t.theta = CopyOf(theta0, x)
         \/ t.theta = theta0 /\ t.search.max = s.search.max
  BY DEF Compare, At, IsState, IsSearch
<1> HIDE DEF t
<1>3. IsEstimator(t.self) /\ t.self.x = x
  BY <1>2 DEF IsState, IsEstimator
<1>4. IsPoint(t.theta) /\ t.theta.space = theta0.space
  BY <1>1, <1>2
<1>5. Follows(t, theta0)
  BY <1>2, <1>3, <1>4 DEF Follows, IsState, SameGeometry
<1>6. ASSUME FarOnlySearching(s), x.cont # "far"
      PROVE  Sound(t)
  BY <1>1, <1>2, <1>3, <1>6 DEF Sound, FarOnlySearching, EvaluatedSettled
<1> QED BY <1>5, <1>6

(* One pattern of the search.                                              *)
LEMMA NextPatternSound ==
    ASSUME NEW s, IsState(s), s.search.mode # "none", NEW converges \in BOOLEAN, NEW likelihood
    PROVE  LET t == NextPattern(s, converges, likelihood)
           IN  Follows(t, s.theta) /\ (Sound(s) => Sound(t))
<1> DEFINE step == Steps(s.theta.space)[s.search.n + 1]
           theta0 == WithNat(s.theta, step.nat)
           x == WithBin(s.self.x, step.bin)
           t == NextPattern(s, converges, likelihood)
<1> SUFFICES Follows(t, s.theta) /\ (Sound(s) => Sound(t))
  OBVIOUS
<1>1. IsPoint(theta0) /\ theta0.space = s.theta.space /\ theta0.cont = s.theta.cont
  BY WithDiscreteSame DEF IsState
<1>2. IsPoint(x) /\ x.space = s.self.x.space /\ x.cont = s.self.x.cont
  BY WithDiscreteSame DEF IsState, SameGeometry
<1>3. SpaceCompatible(theta0.space, x.space) /\ x.space.num_cont = theta0.space.num_cont
  BY <1>1, <1>2 DEF IsState, SameGeometry, SpaceCompatible
<1>4. EachTime(s.self, theta0) <=> EachTime(s.self, s.theta)
  BY <1>1 DEF EachTime
<1>5. t = CASE ~EachTime(s.self, theta0) -> Compare(s, theta0, x, likelihood)
            [] EachTime(s.self, theta0) /\ s.search.mode = "map" ->
                  Compare(s, theta0, EAP(x), likelihood)
            [] EachTime(s.self, theta0) /\ s.search.mode = "mle" /\ converges ->
                  Compare(s, theta0, NR(x, TRUE), likelihood)
            [] EachTime(s.self, theta0) /\ s.search.mode = "mle" /\ ~converges ->
                  BeginMAP(theta0, [s.self EXCEPT !.x = NR(x, FALSE)])
  BY DEF NextPattern
<1> HIDE DEF theta0, x, t
<1>6. CASE ~EachTime(s.self, theta0)
  <2>1. t = Compare(s, theta0, x, likelihood)
    BY <1>5, <1>6
  <2>2. Sound(s) => FarOnlySearching(s) /\ x.cont # "far"
    BY <1>2, <1>4, <1>6 DEF Sound, EvaluatedSettled
  <2> QED BY <2>1, <2>2, <1>1, <1>2, <1>3, CompareSound DEF Follows
<1>7. CASE EachTime(s.self, theta0) /\ s.search.mode = "map"
  <2>1. t = Compare(s, theta0, EAP(x), likelihood)
    BY <1>5, <1>7
  <2>2. IsPoint(EAP(x)) /\ EAP(x).space = x.space /\ EAP(x).cont = "eap"
    BY <1>2, <1>3, <1>7, WithContSame DEF EAP, EachTime, Conts
  <2> QED BY <2>1, <2>2, <1>1, <1>3, CompareSound DEF Follows, Sound
<1>8. CASE EachTime(s.self, theta0) /\ s.search.mode = "mle" /\ converges
  <2> DEFINE y == NR(x, TRUE)
  <2>1. t = Compare(s, theta0, y, likelihood)
    BY <1>5, <1>8
  <2>2. IsPoint(y) /\ y.space = x.space /\ y.cont = "ml"
    BY <1>2, <1>3, <1>8, WithContSame DEF NR, EachTime, Conts
  <2> HIDE DEF y
  <2> QED BY <2>1, <2>2, <1>1, <1>3, CompareSound DEF Follows, Sound
<1>9. CASE EachTime(s.self, theta0) /\ s.search.mode = "mle" /\ ~converges
  <2> DEFINE y == NR(x, FALSE)
             self0 == [s.self EXCEPT !.x = y]
  <2>1. t = BeginMAP(theta0, self0)
    BY <1>5, <1>9
  <2>2. IsPoint(y) /\ y.space = x.space
    BY <1>2, WithContSame DEF NR, Conts
  <2> HIDE DEF y
  <2>3. IsEstimator(self0) /\ self0.x = y
    BY DEF IsState, IsEstimator
  <2> HIDE DEF self0
  <2> QED BY <2>1, <2>2, <2>3, <1>1, <1>3, BeginMAPSound DEF Follows
<1> QED BY <1>6, <1>7, <1>8, <1>9 DEF IsState, IsSearch

-----------------------------------------------------------------------------
(* The steps of the selection algorithms.                                  *)

(* The items summed so far, after one more, are still the first of the     *)
(* record.                                                                 *)
LEMMA AddRecordedFirst ==
    ASSUME NEW matrix, NEW num \in Nat, NEW upto \in Nat, num <= upto,
           NEW excused \in BOOLEAN, FirstItems(matrix, num, excused),
           NEW point, IsPoint(point), excused \/ point.cont # "far"
    PROVE  FirstItems(AddRecorded(matrix, num, upto, point), upto, excused)
<1> DEFINE tail == [i \in 1 .. upto - num |-> [item |-> num + i, cont |-> point.cont]]
           sum == matrix \o tail
<1>1. tail \in Seq(Entry) /\ Len(tail) = upto - num
  <2>1. \A i \in 1 .. upto - num : [item |-> num + i, cont |-> point.cont] \in Entry
    BY DEF IsPoint, Entry
  <2>2. tail \in [1 .. upto - num -> Entry]
    BY <2>1
  <2>3. upto - num \in Nat
    OBVIOUS
  <2> HIDE DEF tail
  <2> QED BY <2>2, <2>3
<1>2. \A i \in 1 .. upto - num : tail[i].item = num + i /\ tail[i].cont = point.cont
  OBVIOUS
<1> HIDE DEF tail
<1>3. sum \in Seq(Entry) /\ Len(sum) = upto
  BY <1>1 DEF FirstItems
<1> HIDE DEF sum
<1>4. ASSUME NEW i \in 1 .. upto
      PROVE  sum[i].item = i /\ (excused \/ sum[i].cont # "far")
  <2>1. CASE i \in 1 .. num
    <3>1. sum[i] = matrix[i]
      BY <2>1, <1>1 DEF FirstItems, sum
    <3> QED BY <3>1, <2>1 DEF FirstItems
  <2>2. CASE i \in num + 1 .. upto
    <3>1. sum[i] = tail[i - num]
      BY <2>2, <1>1 DEF FirstItems, sum
    <3>2. i - num \in 1 .. upto - num /\ num + (i - num) = i
      BY <2>2
    <3>3. tail[i - num].item = i /\ tail[i - num].cont = point.cont
      BY <3>2, <1>2
    <3> QED BY <3>1, <3>3
  <2>3. i \in 1 .. num \/ i \in num + 1 .. upto
    BY <1>4
  <2> QED BY <2>1, <2>2, <2>3
<1> QED BY <1>3, <1>4 DEF FirstItems, AddRecorded, sum, tail

(* No item summed yet is the first none of the record.                     *)
LEMMA NothingAddedFirst == ASSUME NEW excused \in BOOLEAN PROVE FirstItems(<<>>, 0, excused)
  BY DEF FirstItems

(* A selection with an eligible item: whatever was summed before, all      *)
(* items are now, or the workspace is new and none has been recorded.      *)
LEMMA FisherSelects ==
    ASSUME IInv, pc = "select", selector = "fisher"
    PROVE  LET f == FisherAccumulate(fisher, theta, len)
               c == FisherCriterion(f, theta.space)
           IN  /\ IsFisher(f) /\ IsFisher(c)
               /\ c.dim = theta.space.num_cont
               /\ c.base_num \in Nat /\ c.base_num <= len
               /\ c.base # NoMatrix => FirstItems(c.base, len, lost) /\ c.base_num = len
<1> DEFINE f == FisherAccumulate(fisher, theta, len)
           c == FisherCriterion(f, theta.space)
<1> SUFFICES /\ IsFisher(f) /\ IsFisher(c)
             /\ c.dim = theta.space.num_cont
             /\ c.base_num \in Nat /\ c.base_num <= len
             /\ c.base # NoMatrix => FirstItems(c.base, len, lost) /\ c.base_num = len
  OBVIOUS
<1>1. /\ IsFisher(fisher) /\ Summed(fisher.base, fisher.base_num) /\ len \in Nat
      /\ lost \in BOOLEAN /\ IsPoint(theta) /\ (lost \/ theta.cont # "far")
      /\ len > 0 => fisher.dim = theta.space.num_cont
  BY DEF IInv, ThetaInv, MatrixInv, Evaluated
<1>2. /\ IsFisher(f) /\ f.dim = fisher.dim /\ f.base_num \in Nat /\ f.base_num <= len
      /\ f.base # NoMatrix => FirstItems(f.base, len, lost) /\ f.base_num = len
  <2>1. CASE fisher.base = NoMatrix
    BY <2>1, <1>1 DEF FisherAccumulate, Summed
  <2>2. CASE fisher.base # NoMatrix
    <3>1. FirstItems(AddRecorded(fisher.base, fisher.base_num, len, theta), len, lost)
      BY <2>2, <1>1, AddRecordedFirst DEF Summed
    <3>2. f = [fisher EXCEPT !.base = AddRecorded(fisher.base, fisher.base_num, len, theta),
                             !.base_num = len]
      BY <2>2 DEF FisherAccumulate
    <3>3. /\ IsFisher(f) /\ f.dim = fisher.dim /\ f.base_num = len
          /\ f.base = AddRecorded(fisher.base, fisher.base_num, len, theta)
      BY <3>2, <1>1 DEF IsFisher
    <3> HIDE DEF f
    <3>4. FirstItems(f.base, len, lost)
      BY <3>1, <3>3
    <3> QED BY <3>3, <3>4, <1>1
  <2> QED BY <2>1, <2>2
<1> HIDE DEF f
<1>3. CASE f.dim = theta.space.num_cont
  BY <1>3, <1>2 DEF FisherCriterion
<1>4. CASE f.dim # theta.space.num_cont
  <2>1. len = 0
    BY <1>4, <1>1, <1>2
  <2>2. c = FisherAlloc(theta.space.num_cont)
    BY <1>4 DEF FisherCriterion
  <2>3. IsFisher(c) /\ c.dim = theta.space.num_cont /\ c.base_num = 0 /\ c.base \in {<<>>, NoMatrix}
    BY <2>2 DEF FisherAlloc, IsFisher
  <2> QED BY <2>1, <2>3, <1>1, <1>2, NothingAddedFirst
<1> QED BY <1>3, <1>4

(* The selection by divergence keeps its sums those of the record.         *)
LEMMA KlSelects ==
    ASSUME IInv, pc = "select", selector = "kl"
    PROVE  LET k == KlAccumulate(kl, theta, len)
               c == KlCriterion(k, theta.space)
           IN  /\ IsKl(k) /\ IsKl(c)
               /\ SpaceCompatible(c.space, theta.space)
               /\ c.base_num \in Nat /\ c.base_num <= len
               /\ c.Inf # NoMatrix => FirstItems(c.Inf, len, lost) /\ c.base_num = len
<1> DEFINE k == KlAccumulate(kl, theta, len)
           c == KlCriterion(k, theta.space)
           ready == IF SpaceCompatible(k.space, theta.space) THEN k ELSE KlAlloc(k, theta.space)
<1> SUFFICES /\ IsKl(k) /\ IsKl(c)
             /\ SpaceCompatible(c.space, theta.space)
             /\ c.base_num \in Nat /\ c.base_num <= len
             /\ c.Inf # NoMatrix => FirstItems(c.Inf, len, lost) /\ c.base_num = len
  OBVIOUS
<1>1. /\ IsKl(kl) /\ Summed(kl.Inf, kl.base_num) /\ len \in Nat
      /\ lost \in BOOLEAN /\ IsPoint(theta) /\ (lost \/ theta.cont # "far")
      /\ len > 0 => SpaceCompatible(kl.space, theta.space)
  BY DEF IInv, ThetaInv, MatrixInv, Evaluated
<1>2. /\ IsKl(k) /\ k.space = kl.space /\ k.base_num \in Nat /\ k.base_num <= len
      /\ k.Inf # NoMatrix => FirstItems(k.Inf, len, lost) /\ k.base_num = len
  <2>1. CASE kl.Inf = NoMatrix
    BY <2>1, <1>1 DEF KlAccumulate, Summed
  <2>2. CASE kl.Inf # NoMatrix
    <3>1. FirstItems(AddRecorded(kl.Inf, kl.base_num, len, theta), len, lost)
      BY <2>2, <1>1, AddRecordedFirst DEF Summed
    <3>2. k = [kl EXCEPT !.Inf = AddRecorded(kl.Inf, kl.base_num, len, theta), !.base_num = len]
      BY <2>2 DEF KlAccumulate
    <3>3. /\ IsKl(k) /\ k.space = kl.space /\ k.base_num = len
          /\ k.Inf = AddRecorded(kl.Inf, kl.base_num, len, theta)
      BY <3>2, <1>1 DEF IsKl
    <3> HIDE DEF k
    <3>4. FirstItems(k.Inf, len, lost)
      BY <3>1, <3>3
    <3> QED BY <3>3, <3>4, <1>1
  <2> QED BY <2>1, <2>2
<1>3. \E moved : c = [ready EXCEPT !.theta = moved]
  BY DEF KlCriterion
<1> HIDE DEF k, c
<1>4. /\ IsKl(ready) /\ SpaceCompatible(ready.space, theta.space)
      /\ ready.base_num \in Nat /\ ready.base_num <= len
      /\ ready.Inf # NoMatrix => FirstItems(ready.Inf, len, lost) /\ ready.base_num = len
  <2>1. CASE SpaceCompatible(k.space, theta.space)
    BY <2>1, <1>2
  <2>2. CASE ~SpaceCompatible(k.space, theta.space)
    <3>1. len = 0
      BY <2>2, <1>1, <1>2
    <3>2. /\ IsKl(ready) /\ ready.space = theta.space /\ ready.base_num = k.base_num
          /\ ready.Inf \in {<<>>, NoMatrix}
      BY <2>2, <1>2 DEF KlAlloc, IsKl
    <3> HIDE DEF ready
    <3> QED BY <3>1, <3>2, <1>1, <1>2, NothingAddedFirst DEF SpaceCompatible
  <2> QED BY <2>1, <2>2
<1> HIDE DEF ready
<1>5. /\ IsKl(c) /\ c.space = ready.space /\ c.base_num = ready.base_num /\ c.Inf = ready.Inf
  BY <1>3, <1>4 DEF IsKl
<1> QED BY <1>2, <1>4, <1>5

-----------------------------------------------------------------------------
(* The invariant.                                                          *)

(* A point is not the missing one.                                         *)
LEMMA PointIsThere == ASSUME NEW p, IsPoint(p) PROVE p # NoTheta
  BY DEF IsPoint, NoTheta

(* The invariant holds of a new examinee and new algorithms.               *)
LEMMA InitInv == Init => IInv
<1> SUFFICES ASSUME Init PROVE IInv
  OBVIOUS
<1>1. IsEstimator(estimator) /\ estimator.x = NoX
  <2>1. PICK eap \in BOOLEAN, independent \in BOOLEAN, N \in Nposteriors :
          estimator = NewEstimator(eap, independent, N)
    BY DEF Init
  <2> QED BY <2>1, AdaptiveAssumption DEF NewEstimator, IsEstimator
<1>2. IsFisher(fisher) /\ fisher.base = NoMatrix /\ fisher.base_num = 0
  BY DEF Init, NewFisher, IsFisher
<1>3. IsKl(kl) /\ kl.Inf = NoMatrix /\ kl.base_num = 0
  <2>1. PICK posterior \in BOOLEAN, bounds \in BOOLEAN : kl = NewKl(posterior, bounds)
    BY DEF Init
  <2> QED BY <2>1 DEF NewKl, IsKl
<1> QED BY <1>1, <1>2, <1>3 DEF Init, IInv, ThetaInv, MatrixInv

(* The examinee's point and the estimator, at the end of a call of the     *)
(* handler or of a step of the search.                                     *)
LEMMA BecomesKeepsThetaInv ==
    ASSUME NEW t, Becomes(t), Follows(t, theta), lost \in BOOLEAN, lost \/ Sound(t),
           pc' = "administered"
    PROVE  ThetaInv' /\ theta'.space = theta.space /\ (lost => lost')
<1>1. theta' = t.theta /\ estimator' = t.self /\ search' = t.search
  BY DEF Becomes
<1>2. State' = t
  BY <1>1 DEF State, At, Follows, IsState
<1>3. lost' \in BOOLEAN /\ (lost => lost') /\ (GaveUp' => lost')
  <2>1. lost' = (lost \/ (t.search.mode # "none" /\ ~Searching(t) /\ t.search.max = 0))
    BY DEF Becomes
  <2> QED BY <2>1, <1>1, <1>2 DEF GaveUp
<1>4. IsPoint(theta') /\ theta' # NoTheta /\ theta'.space = theta.space
  BY <1>1, PointIsThere DEF Follows, IsState
<1>5. IsEstimator(estimator') /\ (estimator'.x = NoX \/ IsPoint(estimator'.x))
  BY <1>1 DEF Follows, IsState
<1>6. IsState(State') /\ (lost' \/ Sound(State'))
  BY <1>2, <1>3 DEF Follows
<1> QED BY <1>3, <1>4, <1>5, <1>6 DEF ThetaInv

(* The program gives the examinee an estimate between tests.               *)
LEMMA SetEstThetaStep ==
    ASSUME IInv, NEW space, NEW bin, SetEstTheta(space, bin)
    PROVE  IInv'
<1> DEFINE p == WithCont(NewPoint(space), "start")
<1>1. IsPoint(p) /\ p.cont # "far"
  BY NewPointIsPoint, WithContSame DEF Conts, NewPoint, IsPoint
<1>2. theta' = [p EXCEPT !.bin = bin]
  BY DEF SetEstTheta
<1> HIDE DEF p
<1>3. IsPoint(theta') /\ theta'.cont # "far"
  BY <1>1, <1>2 DEF IsPoint
<1>4. ThetaInv'
  BY <1>3 DEF SetEstTheta, IInv, ThetaInv
<1>5. MatrixInv'
  BY DEF SetEstTheta, IInv, MatrixInv
<1> QED BY <1>4, <1>5 DEF IInv

(* The program gives an algorithm another space.                           *)
LEMMA ResizeStep ==
    ASSUME IInv, NEW space, Resize(space)
    PROVE  IInv'
<1>1. ThetaInv'
  BY DEF Resize, IInv, ThetaInv, State, GaveUp
<1>2. fisher' = fisher \/ (/\ selector = "fisher" /\ IsFisher(fisher') /\ fisher'.base_num = 0
                          /\ fisher'.base \in {<<>>, NoMatrix} /\ fisher'.dim = space.num_cont)
  BY DEF Resize, FisherResize, FisherAlloc, IsFisher
<1>3. kl' = kl \/ (/\ selector = "kl" /\ IsKl(kl') /\ kl'.base_num = 0
                  /\ kl'.Inf \in {<<>>, NoMatrix} /\ kl'.space = space)
  BY DEF Resize, KlResize, KlAlloc, IsKl, IInv, MatrixInv
<1>4. /\ IsFisher(fisher') /\ IsKl(kl')
      /\ selector' # "fisher" => fisher'.base = NoMatrix /\ fisher'.base_num = 0
      /\ selector' # "kl" => kl'.Inf = NoMatrix /\ kl'.base_num = 0
      /\ len' = len /\ pc' = pc /\ lost' = lost /\ theta' = theta /\ selector' = selector
  BY <1>2, <1>3 DEF Resize, IInv, MatrixInv
<1>5. ASSUME pc # "idle"
      PROVE  /\ Summed(fisher.base, fisher.base_num)' /\ Summed(kl.Inf, kl.base_num)'
             /\ selector' = "fisher" /\ Evaluated' => fisher'.dim = theta'.space.num_cont
             /\ selector' = "kl" /\ Evaluated' => SpaceCompatible(kl'.space, theta'.space)
  <2>1. pc = "select" /\ space = theta.space /\ len \in Nat /\ lost \in BOOLEAN
    BY <1>5 DEF Resize, IInv, MatrixInv, ThetaInv
  <2>2. Summed(fisher.base, fisher.base_num)'
    <3>1. CASE fisher' = fisher
      BY <3>1, <1>4, <1>5 DEF IInv, MatrixInv, Summed
    <3>2. CASE fisher' # fisher
      BY <3>2, <1>2, <1>4, <2>1, NothingAddedFirst DEF Summed
    <3> QED BY <3>1, <3>2
  <2>3. Summed(kl.Inf, kl.base_num)'
    <3>1. CASE kl' = kl
      BY <3>1, <1>4, <1>5 DEF IInv, MatrixInv, Summed
    <3>2. CASE kl' # kl
      BY <3>2, <1>3, <1>4, <2>1, NothingAddedFirst DEF Summed
    <3> QED BY <3>1, <3>2
  <2>4. selector' = "fisher" /\ Evaluated' => fisher'.dim = theta'.space.num_cont
    BY <1>2, <1>4, <1>5, <2>1 DEF IInv, MatrixInv, Evaluated
  <2>5. selector' = "kl" /\ Evaluated' => SpaceCompatible(kl'.space, theta'.space)
    BY <1>3, <1>4, <1>5, <2>1 DEF IInv, MatrixInv, Evaluated, SpaceCompatible
  <2> QED BY <2>2, <2>3, <2>4, <2>5
<1>6. MatrixInv'
  BY <1>4, <1>5 DEF IInv, MatrixInv
<1> QED BY <1>1, <1>6 DEF IInv

(* A test begins.                                                          *)
LEMMA StartStep ==
    ASSUME IInv, Start
    PROVE  IInv'
<1>1. ThetaInv'
  BY DEF Start, IInv, ThetaInv
<1>2. /\ IsFisher(fisher') /\ fisher'.base \in {<<>>, NoMatrix} /\ fisher'.base_num = 0
      /\ selector' # "fisher" => fisher'.base = NoMatrix
  BY DEF Start, FisherInitialize, IsFisher, IInv, MatrixInv
<1>3. /\ IsKl(kl') /\ kl'.Inf \in {<<>>, NoMatrix} /\ kl'.base_num = 0
      /\ selector' # "kl" => kl'.Inf = NoMatrix
  BY DEF Start, KlInitialize, IsKl, IInv, MatrixInv
<1>4. pc' = "select" /\ len' = 0 /\ lost' \in BOOLEAN /\ selector' = selector
  BY DEF Start, IInv, ThetaInv
<1>5. Summed(fisher.base, fisher.base_num)' /\ Summed(kl.Inf, kl.base_num)' /\ ~Evaluated'
  BY <1>2, <1>3, <1>4, NothingAddedFirst DEF Summed, Evaluated
<1>6. MatrixInv'
  BY <1>2, <1>3, <1>4, <1>5 DEF MatrixInv
<1> QED BY <1>1, <1>6 DEF IInv

(* An item is selected.                                                    *)
LEMMA SelectStep ==
    ASSUME IInv, NEW eligible \in BOOLEAN, NEW approved \in BOOLEAN, Select(eligible, approved)
    PROVE  IInv'
<1> DEFINE f == FisherAccumulate(fisher, theta, len)
           k == KlAccumulate(kl, theta, len)
<1>1. ThetaInv'
  BY DEF Select, IInv, ThetaInv
<1>2. pc = "select" /\ pc' \in {"idle", "select", "administer"} /\ (pc' # "idle" => eligible)
  BY DEF Select
<1>3. UNCHANGED <<selector, theta, len, lost>>
  BY DEF Select
<1>4. /\ selector = "fisher" /\ eligible => fisher' = FisherCriterion(f, theta.space)
      /\ selector = "fisher" /\ ~eligible => fisher' = f
      /\ selector # "fisher" => fisher' = fisher
  BY DEF Select
<1>5. /\ selector = "kl" /\ eligible => kl' = KlCriterion(k, theta.space)
      /\ selector = "kl" /\ ~eligible => kl' = k
      /\ selector # "kl" => kl' = kl
  BY DEF Select
<1> HIDE DEF f, k
<1>6. /\ IsFisher(fisher')
      /\ selector # "fisher" => fisher'.base = NoMatrix /\ fisher'.base_num = 0
      /\ selector = "fisher" /\ eligible => fisher'.dim = theta.space.num_cont
      /\ eligible => Summed(fisher.base, fisher.base_num)'
  <2>1. CASE selector = "fisher"
    BY <2>1, <1>2, <1>3, <1>4, FisherSelects DEF Summed, f
  <2>2. CASE selector # "fisher"
    BY <2>2, <1>2, <1>3, <1>4 DEF IInv, MatrixInv, Summed
  <2> QED BY <2>1, <2>2
<1>7. /\ IsKl(kl')
      /\ selector # "kl" => kl'.Inf = NoMatrix /\ kl'.base_num = 0
      /\ selector = "kl" /\ eligible => SpaceCompatible(kl'.space, theta.space)
      /\ eligible => Summed(kl.Inf, kl.base_num)'
  <2>1. CASE selector = "kl"
    BY <2>1, <1>2, <1>3, <1>5, KlSelects DEF Summed, k
  <2>2. CASE selector # "kl"
    BY <2>2, <1>2, <1>3, <1>5 DEF IInv, MatrixInv, Summed
  <2> QED BY <2>1, <2>2
<1>8. MatrixInv'
  BY <1>2, <1>3, <1>6, <1>7 DEF IInv, MatrixInv
<1> QED BY <1>1, <1>8 DEF IInv

(* What was summed stays as it is while items are recorded and estimates   *)
(* move.                                                                   *)
LEMMA SummedStays ==
    ASSUME NEW matrix, NEW num, Summed(matrix, num),
           len \in Nat, len' \in Nat, len <= len', pc' # "administer", lost => lost'
    PROVE  /\ num \in Nat /\ num <= len'
           /\ matrix # NoMatrix => FirstItems(matrix, num, lost')
  BY DEF Summed, FirstItems

(* An item is administered and the estimate is begun.                      *)
LEMMA AdministerStep ==
    ASSUME IInv, NEW recorded \in BOOLEAN, NEW converges \in BOOLEAN,
           Administer(recorded, converges)
    PROVE  IInv'
<1> DEFINE t == administered(theta, estimator, len', converges)
<1>1. /\ pc = "administer" /\ pc' = "administered" /\ Becomes(t)
      /\ UNCHANGED <<selector, fisher, kl>>
  BY DEF Administer
<1>2. len \in Nat /\ len' \in Nat /\ len <= len'
  BY DEF Administer, IInv, MatrixInv
<1>3. Follows(t, theta) /\ (lost \/ Sound(t)) /\ lost \in BOOLEAN
  BY <1>1, <1>2, AdministeredSound DEF IInv, ThetaInv
<1> HIDE DEF t
<1>4. ThetaInv' /\ theta'.space = theta.space /\ (lost => lost')
  BY <1>1, <1>3, BecomesKeepsThetaInv
<1>5. Summed(fisher.base, fisher.base_num)' /\ Summed(kl.Inf, kl.base_num)'
  BY <1>1, <1>2, <1>4, SummedStays DEF IInv, MatrixInv, Summed
<1>6. MatrixInv'
  BY <1>1, <1>2, <1>4, <1>5 DEF IInv, MatrixInv, Evaluated
<1> QED BY <1>4, <1>6 DEF IInv

(* The search for the estimate goes on, or ends.                           *)
LEMMA SearchOnStep ==
    ASSUME IInv, NEW converges \in BOOLEAN, NEW likelihood, SearchOn(converges, likelihood)
    PROVE  IInv'
<1> DEFINE t == NextPattern(State, converges, likelihood)
<1>1. /\ pc = "administered" /\ pc' = "administered" /\ Becomes(t)
      /\ UNCHANGED <<selector, fisher, kl, len>>
  BY DEF SearchOn, State
<1>2. State.search.mode # "none" /\ State.theta = theta
  BY DEF SearchOn, Searching, State, At
<1>3. Follows(t, theta) /\ (lost \/ Sound(t)) /\ lost \in BOOLEAN
  BY <1>1, <1>2, NextPatternSound DEF IInv, ThetaInv
<1> HIDE DEF t
<1>4. ThetaInv' /\ theta'.space = theta.space /\ (lost => lost')
  BY <1>1, <1>3, BecomesKeepsThetaInv
<1>5. Summed(fisher.base, fisher.base_num)' /\ Summed(kl.Inf, kl.base_num)'
  BY <1>1, <1>4, SummedStays DEF IInv, MatrixInv, Summed
<1>6. MatrixInv'
  BY <1>1, <1>4, <1>5 DEF IInv, MatrixInv, Evaluated
<1> QED BY <1>4, <1>6 DEF IInv

(* The search is over: unless no pattern was possible, the point is not    *)
(* where an iteration that failed has left it.                             *)
LEMMA StopcritStep ==
    ASSUME IInv, NEW stop \in BOOLEAN, Stopcrit(stop)
    PROVE  IInv'
<1>1. /\ pc = "administered" /\ pc' \in {"idle", "select"} /\ ~Searching(State)
      /\ UNCHANGED <<selector, fisher, kl, estimator, theta, len, lost>>
  BY DEF Stopcrit, State
<1>2. State.theta = theta /\ State.search = search
  BY DEF State, At
<1>3. lost \/ theta.cont # "far"
  BY <1>1, <1>2 DEF IInv, ThetaInv, GaveUp, Sound, FarOnlySearching
<1>4. ThetaInv'
  BY <1>1, <1>3 DEF IInv, ThetaInv
<1>5. MatrixInv'
  BY <1>1 DEF IInv, MatrixInv, Summed, Evaluated
<1> QED BY <1>4, <1>5 DEF IInv

(* Nothing happens.                                                        *)
LEMMA StutterStep ==
    ASSUME IInv, UNCHANGED vars
    PROVE  IInv'
  BY DEF vars, IInv, ThetaInv, MatrixInv, State, GaveUp, Summed, Evaluated

(* What the selections and the estimates rely on holds at all times.       *)
THEOREM Invariant == Spec => []IInv
<1>1. Init => IInv
  BY InitInv
<1>2. IInv /\ [Next]_vars => IInv'
  BY SetEstThetaStep, ResizeStep, StartStep, SelectStep, AdministerStep, SearchOnStep,
     StopcritStep, StutterStep DEF Next
<1> QED BY <1>1, <1>2, PTL DEF Spec

(* For all spaces, likelihoods and bounds: the information of MaxFisher    *)
(* and of MaxKl at every selection is that of the items recorded for this  *)
(* examinee, each once and in their order, computed at estimates that were *)
(* settled; MaxFisher and MaxKl (max_fisher.c, max_kl.c) sum on from what  *)
(* they kept at the selection before.                                      *)
THEOREM InformationExactAlways == Spec => []InformationExact
<1>1. IInv => InformationExact
  <2>1. SUFFICES ASSUME IInv, pc = "administer", NEW matrix, NEW num,
                        Summed(matrix, num), matrix # NoMatrix
                 PROVE  /\ num = len
                        /\ [i \in DOMAIN matrix |-> matrix[i].item] = [i \in 1 .. len |-> i]
                        /\ lost \/ \A i \in DOMAIN matrix : matrix[i].cont # "far"
    BY DEF InformationExact, IInv, MatrixInv
  <2>2. num = len /\ DOMAIN matrix = 1 .. len
    BY <2>1 DEF Summed, FirstItems
  <2> QED BY <2>1, <2>2 DEF Summed, FirstItems
<1> QED BY <1>1, Invariant, PTL

-----------------------------------------------------------------------------
(* What the search has found.                                              *)

Settled == {"ml", "eap", "none"}

(* A point without continuous dimensions has no coordinates of them, one   *)
(* with one attribute has no other.                                        *)
Clean(p) ==
    /\ ~ p.space.num_cont > 0 => p.cont = "none"
    /\ p.space.num_bin = 1 /\ p.space.max = <<>> => p.bin \subseteq {0}

(* The values of one attribute that the first n steps of a search meet.    *)
Met(n) == {S \in {{}, {0}} : n > (IF S = {} THEN 0 ELSE 1)}

(* The maximum is that of what was visited, and theta is where it was met. *)
Maximal(s) ==
    /\ \A w \in s.search.visited : w.likelihood \in 0 .. s.search.max
    /\ s.search.max > 0 =>
         \E v \in s.search.visited :
            v.likelihood = s.search.max /\ v.bin = s.theta.bin /\ v.cont = s.theta.cont

(* With one attribute both values are visited, one after the other.        *)
InTurn(s) ==
    s.theta.space.num_bin = 1 =>
       /\ s.search.n \in 0 .. 2
       /\ \A S : (\E v \in s.search.visited : v.bin = S) <=> S \in Met(s.search.n)

Found(s) ==
    /\ s.search.n \in Nat /\ s.search.max \in Nat
    /\ s.search.mode = "none" => s.search.visited = {} /\ s.theta.cont \in Settled
    /\ s.search.mode # "none" =>
         /\ ~EachTime(s.self, s.theta) => s.self.x.cont \in Settled
         /\ s.search.max > 0 => s.theta.cont \in Settled
         /\ s.theta.space.max = <<>> => Maximal(s) /\ InTurn(s)

(* A state of the handler whose points are clean.                          *)
CleanState(s) ==
    /\ Clean(s.theta)
    /\ s.self.x = NoX \/ Clean(s.self.x)

PointsInv ==
    /\ theta = NoTheta \/ (Clean(theta) /\ theta.space \in Spaces)
    /\ estimator.x = NoX \/ Clean(estimator.x)

EstimateInv ==
    /\ IInv /\ PointsInv
    /\ pc = "administered" => IF len > 0 THEN Found(State) ELSE search = NoSearch

(* A new point has no coordinates that its space has no dimension for.     *)
LEMMA NewPointIsClean == ASSUME NEW space PROVE Clean(NewPoint(space))
  BY DEF Clean, NewPoint

(* Setting the continuous coordinates leaves a clean point clean.          *)
LEMMA WithContIsClean ==
    ASSUME NEW p, IsPoint(p), Clean(p), NEW value
    PROVE  Clean(WithCont(p, value)) /\ WithCont(p, value).bin = p.bin
  BY DEF IsPoint, Clean, WithCont

(* A copy of clean points is clean.                                        *)
LEMMA CopyIsClean ==
    ASSUME NEW lhs, NEW rhs, IsPoint(lhs), IsPoint(rhs), Clean(lhs), Clean(rhs)
    PROVE  /\ Clean(CopyOf(lhs, rhs))
           /\ SpaceCompatible(lhs.space, rhs.space) => CopyOf(lhs, rhs).bin = rhs.bin
  BY DEF IsPoint, Clean, CopyOf, SpaceCompatible

(* One sequence of sequences is flat.                                      *)
LEMMA FlatOne == ASSUME NEW seqs, NEW S, seqs \in Seq(S), Len(seqs) = 1
                 PROVE  FlattenSeq(seqs) = seqs[1]
<1> DEFINE value(f, i) == IF i = 1 THEN seqs[i] ELSE f[i - 1] \o seqs[i]
           IsIt(f) == f = [i \in 1 .. 1 |-> value(f, i)]
           flat == CHOOSE f : IsIt(f)
           one == [i \in 1 .. 1 |-> seqs[1]]
<1>1. FlattenSeq(seqs) = flat[1]
  BY DEF FlattenSeq
<1>2. IsIt(one)
  OBVIOUS
<1>3. IsIt(flat)
  <2> HIDE DEF IsIt
  <2> QED BY <1>2
<1>4. flat[1] = seqs[1]
  <2> HIDE DEF flat
  <2>1. flat[1] = value(flat, 1)
    BY <1>3
  <2> QED BY <2>1
<1> QED BY <1>1, <1>4

(* Without natural dimensions the steps are the values of the binary ones. *)
LEMMA StepsAre ==
    ASSUME NEW space, space.max = <<>>, space.num_bin \in Nat
    PROVE  /\ Len(Steps(space)) \in Nat
           /\ \A k \in 1 .. Len(Steps(space)) : Steps(space)[k].nat = None
           /\ space.num_bin = 1 =>
                /\ Len(Steps(space)) = 2
                /\ Steps(space)[1].bin = [dim |-> 0, value |-> 0]
                /\ Steps(space)[2].bin = [dim |-> 0, value |-> 1]
<1> DEFINE values == BinValues(space)
           row == [b \in DOMAIN values |-> [nat |-> None, bin |-> values[b]]]
           seqs == [n \in DOMAIN NatValues(space) |->
                     [b \in DOMAIN values |->
                        [nat |-> NatValues(space)[n], bin |-> values[b]]]]
<1>1. NatValues(space) = <<None>>
  BY DEF NatValues
<1>2. seqs = [n \in 1 .. 1 |-> row]
  BY <1>1
<1>3. seqs \in Seq({row}) /\ Len(seqs) = 1 /\ seqs[1] = row
  <2> HIDE DEF row
  <2> QED BY <1>2
<1>4. Steps(space) = row
  <2> HIDE DEF row
  <2>1. Steps(space) = FlattenSeq(seqs)
    BY DEF Steps
  <2> HIDE DEF seqs
  <2> QED BY <2>1, <1>3, FlatOne
<1>5. CASE space.num_bin = 0
  <2>1. values = <<None>>
    BY <1>5 DEF BinValues
  <2> QED BY <1>4, <1>5, <2>1
<1>6. CASE space.num_bin # 0
  <2>1. values = [n \in 1 .. 2 * space.num_bin |-> [dim |-> (n - 1) \div 2, value |-> (n - 1) % 2]]
    BY <1>6 DEF BinValues
  <2>2. 2 * space.num_bin \in Nat /\ DOMAIN row = 1 .. 2 * space.num_bin
    BY <2>1
  <2>3. Len(row) = 2 * space.num_bin
    BY <2>2
  <2>4. \A k \in 1 .. Len(row) : row[k].nat = None /\ row[k].bin = values[k]
    BY <2>2, <2>3
  <2>5. ASSUME space.num_bin = 1
        PROVE  /\ Len(row) = 2
               /\ row[1].bin = [dim |-> 0, value |-> 0]
               /\ row[2].bin = [dim |-> 0, value |-> 1]
    <3>1. Len(row) = 2
      BY <2>3, <2>5
    <3>2. values[1] = [dim |-> 0, value |-> 0] /\ values[2] = [dim |-> 0, value |-> 1]
      BY <2>1, <2>5
    <3> QED BY <2>4, <3>1, <3>2
  <2> HIDE DEF row, values
  <2> QED BY <1>4, <2>2, <2>3, <2>4, <2>5
<1> QED BY <1>5, <1>6

-----------------------------------------------------------------------------
(* The steps of the estimator lead to states that are found.               *)

Estimable(space) == space.num_cont > 0 \/ haveDiscr(space)

(* The posterior estimate leaves a search that finds the likeliest.        *)
LEMMA BeginMAPFinds ==
    ASSUME NEW theta0, NEW self0, IsPoint(theta0), IsEstimator(self0), IsPoint(self0.x),
           SpaceCompatible(theta0.space, self0.x.space), Estimable(theta0.space),
           Clean(theta0), Clean(self0.x)
    PROVE  LET t == BeginMAP(theta0, self0) IN CleanState(t) /\ Found(t)
<1> DEFINE x == CopyOf(self0.x, theta0)
           y == IF Once(self0, theta0) THEN EAP(x) ELSE x
           t == BeginMAP(theta0, self0)
<1> SUFFICES CleanState(t) /\ Found(t)
  OBVIOUS
<1>1. IsPoint(x) /\ x.space = self0.x.space /\ x.cont = theta0.cont /\ Clean(x)
  BY CopyIsPoint, CopyIsClean, CompatibleSymmetric
<1>2. x.space.num_cont = theta0.space.num_cont
  BY <1>1 DEF SpaceCompatible
<1>3. IsPoint(y) /\ y.space = x.space /\ (Once(self0, theta0) => y.cont = "eap") /\ Clean(y)
  BY <1>1, <1>2, WithContSame, WithContIsClean DEF EAP, Conts, Once
<1>4. ~ theta0.space.num_cont > 0 => y.cont = "none"
  BY <1>2, <1>3 DEF Clean
<1>5. CASE haveDiscr(theta0.space)
  <2>1. t = At(theta0, [self0 EXCEPT !.x = y], Search("map"))
    BY <1>5 DEF BeginMAP
  <2>2. /\ t.theta = theta0 /\ t.self = [self0 EXCEPT !.x = y]
        /\ t.search = [mode |-> "map", n |-> 0, max |-> 0, visited |-> {}]
    BY <2>1 DEF At, Search
  <2> HIDE DEF y, t
  <2>3. t.self.x = y /\ t.self.independent = self0.independent
    BY <2>2 DEF IsEstimator
  <2>4. ~EachTime(t.self, t.theta) => y.cont \in Settled
    BY <1>3, <1>4, <1>5, <2>2, <2>3 DEF Once, EachTime, Settled
  <2>5. Maximal(t) /\ InTurn(t)
    BY <2>2 DEF Maximal, InTurn, Met
  <2> QED BY <1>3, <2>2, <2>3, <2>4, <2>5 DEF CleanState, Found
<1>6. CASE ~haveDiscr(theta0.space)
  <2>1. t = At(CopyOf(theta0, y), [self0 EXCEPT !.x = y], NoSearch)
    BY <1>6 DEF BeginMAP
  <2>2. /\ t.theta = CopyOf(theta0, y) /\ t.self = [self0 EXCEPT !.x = y]
        /\ t.search = [mode |-> "none", n |-> 0, max |-> 0, visited |-> {}]
    BY <2>1 DEF At, NoSearch
  <2> HIDE DEF y, t
  <2>3. t.self.x = y
    BY <2>2 DEF IsEstimator
  <2>4. SpaceCompatible(theta0.space, y.space)
    BY <1>1, <1>3
  <2>5. t.theta.cont = y.cont /\ Clean(t.theta)
    BY <1>3, <2>2, <2>4, CopyIsPoint, CopyIsClean
  <2>6. y.cont = "eap"
    BY <1>3, <1>6 DEF Once, Estimable
  <2> QED BY <1>3, <2>2, <2>3, <2>5, <2>6 DEF CleanState, Found, Settled
<1> QED BY <1>5, <1>6

(* The likelihood estimate leaves a search that finds the likeliest.       *)
LEMMA BeginMLEFinds ==
    ASSUME NEW theta0, NEW self0, NEW converges \in BOOLEAN,
           IsPoint(theta0), IsEstimator(self0), IsPoint(self0.x),
           SpaceCompatible(theta0.space, self0.x.space), Estimable(theta0.space),
           Clean(theta0), Clean(self0.x)
    PROVE  LET t == BeginMLE(theta0, self0, converges) IN CleanState(t) /\ Found(t)
<1> DEFINE first == IF Once(self0, theta0) THEN NR(theta0, converges) ELSE theta0
           x == CopyOf(self0.x, first)
           t == BeginMLE(theta0, self0, converges)
<1> SUFFICES CleanState(t) /\ Found(t)
  OBVIOUS
<1>1. IsPoint(first) /\ first.space = theta0.space /\ Clean(first)
  BY WithContSame, WithContIsClean DEF NR, Conts
<1>2. Once(self0, theta0) /\ converges => first.cont = "ml"
  BY WithContSame DEF NR, Conts, Once
<1>3. CASE Once(self0, theta0) /\ ~converges
  <2>1. t = BeginMAP(first, self0)
    BY <1>3 DEF BeginMLE
  <2> HIDE DEF first, t
  <2> QED BY <2>1, <1>1, BeginMAPFinds
<1>4. CASE Once(self0, theta0) /\ converges /\ ~haveDiscr(theta0.space)
  <2>1. t = At(first, self0, NoSearch)
    BY <1>4 DEF BeginMLE
  <2> HIDE DEF first, t
  <2>2. /\ t.theta = first /\ t.self = self0
        /\ t.search = [mode |-> "none", n |-> 0, max |-> 0, visited |-> {}]
    BY <2>1 DEF At, NoSearch
  <2> QED BY <2>2, <1>1, <1>2, <1>4 DEF CleanState, Found, Settled
<1>5. CASE /\ ~(Once(self0, theta0) /\ ~converges)
           /\ ~(Once(self0, theta0) /\ converges /\ ~haveDiscr(theta0.space))
  <2>1. t = At(first, [self0 EXCEPT !.x = x], Search("mle"))
    BY <1>5 DEF BeginMLE, IsEstimator
  <2>2. IsPoint(x) /\ x.space = self0.x.space /\ x.cont = first.cont /\ Clean(x)
    BY <1>1, CopyIsPoint, CopyIsClean, CompatibleSymmetric
  <2> HIDE DEF first, x, t
  <2>3. /\ t.theta = first /\ t.self = [self0 EXCEPT !.x = x]
        /\ t.search = [mode |-> "mle", n |-> 0, max |-> 0, visited |-> {}]
    BY <2>1 DEF At, Search
  <2>4. t.self.x = x /\ t.self.independent = self0.independent
    BY <2>3 DEF IsEstimator
  <2>5. haveDiscr(theta0.space)
    BY <1>5 DEF Once, Estimable
  <2>6. ~EachTime(t.self, t.theta) => x.cont \in Settled
    <3> SUFFICES ASSUME ~EachTime(t.self, t.theta) PROVE first.cont \in Settled
      BY <2>2
    <3>1. CASE theta0.space.num_cont > 0
      <4>1. Once(self0, theta0)
        BY <1>1, <2>3, <2>4, <3>1 DEF EachTime, Once
      <4> QED BY <1>2, <1>5, <4>1 DEF Settled
    <3>2. CASE ~ theta0.space.num_cont > 0
      BY <1>1, <3>2 DEF Clean, Settled
    <3> QED BY <3>1, <3>2
  <2>7. Maximal(t) /\ InTurn(t)
    BY <2>3 DEF Maximal, InTurn, Met
  <2> QED BY <1>1, <2>2, <2>3, <2>4, <2>6, <2>7 DEF CleanState, Found
<1> QED BY <1>3, <1>4, <1>5

(* The handler of ::administered, for an examinee with items.              *)
LEMMA AdministeredFinds ==
    ASSUME NEW theta0, NEW self0, NEW num \in Nat, NEW converges \in BOOLEAN,
           IsPoint(theta0), IsEstimator(self0), self0.x = NoX \/ IsPoint(self0.x),
           Estimable(theta0.space), Clean(theta0), self0.x = NoX \/ Clean(self0.x)
    PROVE  LET t == administered(theta0, self0, num, converges)
           IN  /\ CleanState(t)
               /\ IF num > 0 THEN Found(t) ELSE t.search = NoSearch
<1> DEFINE ready == Prepared(self0, theta0)
           t == administered(theta0, self0, num, converges)
<1> SUFFICES CleanState(t) /\ IF num > 0 THEN Found(t) ELSE t.search = NoSearch
  OBVIOUS
<1>1. IsEstimator(ready) /\ IsPoint(ready.x) /\ SpaceCompatible(theta0.space, ready.x.space)
  BY PreparedFits
<1>2. Clean(ready.x)
  <2>1. CASE self0.x # NoX /\ SpaceCompatible(theta0.space, self0.x.space)
    BY <2>1 DEF Prepared
  <2>2. CASE ~(self0.x # NoX /\ SpaceCompatible(theta0.space, self0.x.space))
    <3>1. ready = [self0 EXCEPT !.x = NewPoint(theta0.space)]
      BY <2>2 DEF Prepared
    <3> QED BY <3>1, NewPointIsClean DEF IsEstimator
  <2> QED BY <2>1, <2>2
<1>3. self0.eap \in BOOLEAN /\ self0.Nposterior \in Nat
  BY DEF IsEstimator
<1> HIDE DEF ready
<1>4. CASE num = 0
  <2>1. t = At(theta0, ready, NoSearch)
    BY <1>4 DEF administered, ready
  <2> QED BY <1>2, <1>4, <2>1 DEF At, CleanState
<1>5. CASE num > 0 /\ (self0.eap \/ num <= self0.Nposterior)
  <2>1. t = BeginMAP(theta0, ready)
    BY <1>3, <1>5 DEF administered, ready
  <2> QED BY <2>1, <1>1, <1>2, <1>5, BeginMAPFinds
<1>6. CASE num > 0 /\ ~(self0.eap \/ num <= self0.Nposterior)
  <2>1. t = BeginMLE(theta0, ready, converges)
    BY <1>3, <1>6 DEF administered, ready
  <2> QED BY <2>1, <1>1, <1>2, <1>6, BeginMLEFinds
<1> QED BY <1>4, <1>5, <1>6

(* A comparison adds what it evaluates to what was visited.                *)
LEMMA CompareFinds ==
    ASSUME NEW s, IsState(s), s.search.mode # "none", Found(s), Clean(s.theta),
           NEW theta0, NEW x, NEW likelihood \in Nat,
           IsPoint(theta0), theta0.cont = s.theta.cont, theta0.space = s.theta.space,
           Clean(theta0), IsPoint(x), Clean(x), SpaceCompatible(theta0.space, x.space),
           x.cont \in Settled,
           s.theta.space.max = <<>> =>
             /\ theta0 = s.theta
             /\ s.theta.space.num_bin = 1 =>
                  \/ s.search.n = 0 /\ x.bin = {}
                  \/ s.search.n = 1 /\ x.bin = {0}
    PROVE  LET t == Compare(s, theta0, x, likelihood) IN CleanState(t) /\ Found(t)
<1> DEFINE t == Compare(s, theta0, x, likelihood)
           new == [bin |-> x.bin, cont |-> x.cont, likelihood |-> likelihood]
           old == s.search
<1> SUFFICES CleanState(t) /\ Found(t)
  OBVIOUS
<1>1. /\ Clean(CopyOf(theta0, x)) /\ CopyOf(theta0, x).space = theta0.space
      /\ CopyOf(theta0, x).cont = x.cont /\ CopyOf(theta0, x).bin = x.bin
  BY CopyIsPoint, CopyIsClean
<1>2. /\ t.self = [s.self EXCEPT !.x = x]
      /\ t.search.mode = old.mode /\ t.search.n = old.n + 1
      /\ t.search.visited = old.visited \cup {new}
      /\ \/ likelihood > old.max /\ t.search.max = likelihood /\ t.theta = CopyOf(theta0, x)
         \/ ~ likelihood > old.max /\ t.search.max = old.max /\ t.theta = theta0
  BY DEF Compare, At, IsState, IsSearch
<1> HIDE DEF t
<1>3. t.self.x = x /\ t.self.independent = s.self.independent
  BY <1>2 DEF IsState, IsEstimator
<1>4. old.n \in Nat /\ old.max \in Nat /\ (old.max > 0 => s.theta.cont \in Settled)
  BY DEF Found
<1>5. t.theta.space = theta0.space /\ Clean(t.theta) /\ CleanState(t)
  BY <1>1, <1>2, <1>3 DEF CleanState
<1>6. t.search.n \in Nat /\ t.search.max \in Nat
  BY <1>2, <1>4
<1>7. t.search.max > 0 => t.theta.cont \in Settled
  BY <1>1, <1>2, <1>4
<1>8. ASSUME t.theta.space.max = <<>> PROVE Maximal(t) /\ InTurn(t)
  <2>1. Maximal(s) /\ InTurn(s) /\ theta0 = s.theta
    BY <1>5, <1>8 DEF Found
  <2>2. new.likelihood = likelihood /\ new.bin = x.bin /\ new.cont = x.cont
    OBVIOUS
  <2>3. \A w : w \in t.search.visited <=> w \in old.visited \/ w = new
    BY <1>2
  <2> HIDE DEF new
  <2>4. Maximal(t)
    <3>1. CASE likelihood > old.max
      <4>1. t.search.max = likelihood /\ t.theta.bin = x.bin /\ t.theta.cont = x.cont
        BY <1>1, <1>2, <3>1
      <4>2. \A w \in t.search.visited : w.likelihood \in 0 .. t.search.max
        BY <1>4, <2>1, <2>2, <2>3, <3>1, <4>1 DEF Maximal
      <4> QED BY <2>2, <2>3, <4>1, <4>2 DEF Maximal
    <3>2. CASE ~ likelihood > old.max
      <4>1. t.search.max = old.max /\ t.theta = s.theta
        BY <1>2, <2>1, <3>2
      <4>2. \A w \in t.search.visited : w.likelihood \in 0 .. t.search.max
        BY <1>4, <2>1, <2>2, <2>3, <3>2, <4>1 DEF Maximal
      <4> QED BY <2>1, <2>3, <4>1, <4>2 DEF Maximal
    <3> QED BY <3>1, <3>2
  <2>5. InTurn(t)
    <3> SUFFICES ASSUME s.theta.space.num_bin = 1
                 PROVE  /\ t.search.n \in 0 .. 2
                        /\ \A S : (\E v \in t.search.visited : v.bin = S)
                                  <=> S \in Met(t.search.n)
      BY <1>5, <2>1 DEF InTurn
    <3>1. \A S : (\E v \in t.search.visited : v.bin = S) <=> S \in Met(old.n) \/ S = x.bin
      BY <2>1, <2>2, <2>3 DEF InTurn
    <3>2. CASE old.n = 0 /\ x.bin = {}
      <4>1. \A S : S \in Met(0) \/ S = {} <=> S \in Met(1)
        BY DEF Met
      <4>2. t.search.n = 1 /\ Met(t.search.n) = Met(1) /\ Met(old.n) = Met(0)
        BY <1>2, <3>2
      <4>3. \A S : (\E v \in t.search.visited : v.bin = S) <=> S \in Met(1)
        BY <3>1, <3>2, <4>1, <4>2
      <4> QED BY <4>2, <4>3
    <3>3. CASE old.n = 1 /\ x.bin = {0}
      <4>1. \A S : S \in Met(1) \/ S = {0} <=> S \in Met(2)
        BY DEF Met
      <4>2. t.search.n = 2 /\ Met(t.search.n) = Met(2) /\ Met(old.n) = Met(1)
        BY <1>2, <3>3
      <4>3. \A S : (\E v \in t.search.visited : v.bin = S) <=> S \in Met(2)
        BY <3>1, <3>3, <4>1, <4>2
      <4> QED BY <4>2, <4>3
    <3> QED BY <1>5, <1>8, <3>2, <3>3
  <2> QED BY <2>4, <2>5
<1> QED BY <1>2, <1>3, <1>5, <1>6, <1>7, <1>8 DEF Found

(* A step of the search, while there are steps left.                       *)
LEMMA NextPatternFinds ==
    ASSUME NEW s, IsState(s), s.search.mode # "none", Found(s), CleanState(s), Searching(s),
           s.theta.space.num_bin \in Nat, Estimable(s.theta.space),
           NEW converges \in BOOLEAN, NEW likelihood \in Nat
    PROVE  LET t == NextPattern(s, converges, likelihood) IN CleanState(t) /\ Found(t)
<1> DEFINE step == Steps(s.theta.space)[s.search.n + 1]
           theta0 == WithNat(s.theta, step.nat)
           x == WithBin(s.self.x, step.bin)
           t == NextPattern(s, converges, likelihood)
           old == s.search
<1> SUFFICES CleanState(t) /\ Found(t)
  OBVIOUS
<1>0. /\ IsPoint(s.theta) /\ IsPoint(s.self.x) /\ SpaceCompatible(s.theta.space, s.self.x.space)
      /\ Clean(s.theta) /\ Clean(s.self.x)
  <2>1. s.self.x # NoX
    BY DEF IsState, SameGeometry, IsPoint, NoX
  <2> QED BY <2>1 DEF IsState, SameGeometry, CleanState
<1>1. /\ IsPoint(theta0) /\ theta0.space = s.theta.space /\ theta0.cont = s.theta.cont
      /\ Clean(theta0)
  <2>1. theta0.bin = s.theta.bin
    BY <1>0 DEF WithNat, IsPoint
  <2> QED BY <1>0, <2>1, WithDiscreteSame DEF Clean
<1>2. IsPoint(x) /\ x.space = s.self.x.space /\ x.cont = s.self.x.cont
  BY <1>0, WithDiscreteSame
<1>3. SpaceCompatible(theta0.space, x.space) /\ x.space.num_cont = theta0.space.num_cont
  BY <1>0, <1>1, <1>2 DEF SpaceCompatible
<1>4. EachTime(s.self, theta0) <=> EachTime(s.self, s.theta)
  BY <1>1 DEF EachTime
<1>5. s.theta.space.max = <<>> => theta0 = s.theta
  <2> SUFFICES ASSUME s.theta.space.max = <<>> PROVE step.nat = None
    BY DEF WithNat
  <2>1. Len(Steps(s.theta.space)) \in Nat /\ old.n \in Nat /\ old.n < Len(Steps(s.theta.space))
    BY StepsAre DEF Found, Searching
  <2>2. old.n + 1 \in 1 .. Len(Steps(s.theta.space))
    BY <2>1
  <2> QED BY <2>2, StepsAre
<1>6. ASSUME s.theta.space.max = <<>>, s.theta.space.num_bin = 1
      PROVE  \/ old.n = 0 /\ x.bin = {}
             \/ old.n = 1 /\ x.bin = {0}
  <2>1. old.n \in Nat /\ old.n < 2
    BY <1>6, StepsAre DEF Found, Searching
  <2>2. s.self.x.bin \subseteq {0}
    BY <1>0, <1>6 DEF Clean, SpaceCompatible
  <2>3. CASE old.n = 0
    <3>1. step.bin = [dim |-> 0, value |-> 0]
      BY <1>6, <2>3, StepsAre
    <3>2. x.bin = s.self.x.bin \ {0}
      BY <1>0, <3>1 DEF WithBin, None, IsPoint
    <3> QED BY <2>2, <2>3, <3>2
  <2>4. CASE old.n = 1
    <3>1. step.bin = [dim |-> 0, value |-> 1]
      BY <1>6, <2>4, StepsAre
    <3>2. x.bin = s.self.x.bin \cup {0}
      BY <1>0, <3>1 DEF WithBin, None, IsPoint
    <3> QED BY <2>2, <2>4, <3>2
  <2> QED BY <2>1, <2>3, <2>4
<1>7. Clean(x)
  <2>1. ~ x.space.num_cont > 0 => x.cont = "none"
    BY <1>0, <1>2 DEF Clean
  <2>2. x.space.num_bin = 1 /\ x.space.max = <<>> => x.bin \subseteq {0}
    BY <1>1, <1>3, <1>6 DEF SpaceCompatible
  <2> QED BY <2>1, <2>2 DEF Clean
<1>8. t = CASE ~EachTime(s.self, theta0) -> Compare(s, theta0, x, likelihood)
            [] EachTime(s.self, theta0) /\ s.search.mode = "map" ->
                  Compare(s, theta0, EAP(x), likelihood)
            [] EachTime(s.self, theta0) /\ s.search.mode = "mle" /\ converges ->
                  Compare(s, theta0, NR(x, TRUE), likelihood)
            [] EachTime(s.self, theta0) /\ s.search.mode = "mle" /\ ~converges ->
                  BeginMAP(theta0, [s.self EXCEPT !.x = NR(x, FALSE)])
  BY DEF NextPattern
<1> HIDE DEF step, theta0, x, t, old
<1>9. CASE ~EachTime(s.self, theta0)
  <2>1. t = Compare(s, theta0, x, likelihood)
    BY <1>8, <1>9
  <2>2. x.cont \in Settled
    BY <1>2, <1>4, <1>9 DEF Found
  <2> QED BY <2>1, <2>2, <1>0, <1>1, <1>2, <1>3, <1>5, <1>6, <1>7, CompareFinds DEF old
<1>10. CASE EachTime(s.self, theta0) /\ s.search.mode = "map"
  <2> DEFINE y == EAP(x)
  <2>1. t = Compare(s, theta0, y, likelihood)
    BY <1>8, <1>10
  <2>2. /\ IsPoint(y) /\ y.space = x.space /\ y.cont \in Settled
        /\ Clean(y) /\ y.bin = x.bin
    BY <1>2, <1>3, <1>7, <1>10, WithContSame, WithContIsClean DEF EAP, EachTime, Conts, Settled
  <2> HIDE DEF y
  <2> QED BY <2>1, <2>2, <1>0, <1>1, <1>3, <1>5, <1>6, CompareFinds DEF old
<1>11. CASE EachTime(s.self, theta0) /\ s.search.mode = "mle" /\ converges
  <2> DEFINE y == NR(x, TRUE)
  <2>1. t = Compare(s, theta0, y, likelihood)
    BY <1>8, <1>11
  <2>2. /\ IsPoint(y) /\ y.space = x.space /\ y.cont \in Settled
        /\ Clean(y) /\ y.bin = x.bin
    BY <1>2, <1>3, <1>7, <1>11, WithContSame, WithContIsClean DEF NR, EachTime, Conts, Settled
  <2> HIDE DEF y
  <2> QED BY <2>1, <2>2, <1>0, <1>1, <1>3, <1>5, <1>6, CompareFinds DEF old
<1>12. CASE EachTime(s.self, theta0) /\ s.search.mode = "mle" /\ ~converges
  <2> DEFINE y == NR(x, FALSE)
             self0 == [s.self EXCEPT !.x = y]
  <2>1. t = BeginMAP(theta0, self0)
    BY <1>8, <1>12
  <2>2. IsPoint(y) /\ y.space = x.space /\ Clean(y)
    BY <1>2, <1>7, WithContSame, WithContIsClean DEF NR, Conts
  <2> HIDE DEF y
  <2>3. IsEstimator(self0) /\ self0.x = y
    BY DEF IsState, IsEstimator
  <2> HIDE DEF self0
  <2> QED BY <2>1, <2>2, <2>3, <1>1, <1>3, BeginMAPFinds
<1> QED BY <1>9, <1>10, <1>11, <1>12 DEF IsState, IsSearch


-----------------------------------------------------------------------------
(* The estimate is found.                                                  *)

(* No search is under way at first.                                        *)
LEMMA InitEstimate == Init => EstimateInv
<1> SUFFICES ASSUME Init PROVE EstimateInv
  OBVIOUS
<1>1. estimator.x = NoX
  <2>1. PICK eap \in BOOLEAN, independent \in BOOLEAN, N \in Nposteriors :
          estimator = NewEstimator(eap, independent, N)
    BY DEF Init
  <2> QED BY <2>1 DEF NewEstimator
<1>2. theta = NoTheta /\ pc # "administered"
  BY DEF Init
<1> QED BY <1>1, <1>2, InitInv DEF EstimateInv, PointsInv

(* An estimate that the program gives is not of a search.                  *)
LEMMA SetEstThetaEstimate ==
    ASSUME EstimateInv, NEW space \in Spaces, NEW bin \in SUBSET (0 .. space.num_bin - 1),
           SetEstTheta(space, bin)
    PROVE  PointsInv' /\ pc' # "administered"
<1> DEFINE p == WithCont(NewPoint(space), "start")
<1>1. IsPoint(p) /\ p.space = space /\ Clean(p)
  BY NewPointIsPoint, NewPointIsClean, WithContSame, WithContIsClean DEF Conts
<1>2. theta' = [p EXCEPT !.bin = bin] /\ UNCHANGED <<pc, estimator>> /\ pc = "idle"
  BY DEF SetEstTheta
<1> HIDE DEF p
<1>3. theta'.space = space /\ theta'.cont = p.cont /\ theta'.bin = bin
  BY <1>1, <1>2 DEF IsPoint
<1>4. space.num_bin = 1 => bin \subseteq {0}
  OBVIOUS
<1>5. Clean(theta')
  BY <1>1, <1>3, <1>4 DEF Clean
<1> QED BY <1>2, <1>3, <1>5 DEF EstimateInv, PointsInv

(* The examinee's point and the estimator, as the handler leaves them.     *)
LEMMA BecomesKeepsPoints ==
    ASSUME NEW t, Becomes(t), Follows(t, theta), CleanState(t), theta.space \in Spaces
    PROVE  PointsInv' /\ State' = t /\ search' = t.search
<1>1. theta' = t.theta /\ estimator' = t.self /\ search' = t.search
  BY DEF Becomes
<1>2. State' = t
  BY <1>1 DEF State, At, Follows, IsState
<1> QED BY <1>1, <1>2 DEF PointsInv, CleanState, Follows

(* A point that the program gives.                                         *)
LEMMA PointGiven ==
    ASSUME EstimateInv, pc # "idle"
    PROVE  /\ IsPoint(theta) /\ Clean(theta) /\ theta.space \in Spaces
           /\ theta.space.num_bin \in Nat /\ Estimable(theta.space)
           /\ IsEstimator(estimator)
           /\ estimator.x = NoX \/ IsPoint(estimator.x)
           /\ estimator.x = NoX \/ Clean(estimator.x)
<1>1. IsPoint(theta) /\ Clean(theta) /\ theta.space \in Spaces
  BY DEF EstimateInv, PointsInv, IInv, ThetaInv
<1>2. theta.space.num_bin \in Nat /\ Estimable(theta.space)
  BY <1>1, AdaptiveAssumption DEF Estimable
<1> QED BY <1>1, <1>2 DEF EstimateInv, PointsInv, IInv, ThetaInv

(* An estimate that an item begins.                                        *)
LEMMA AdministerEstimate ==
    ASSUME EstimateInv, NEW recorded \in BOOLEAN, NEW converges \in BOOLEAN,
           Administer(recorded, converges)
    PROVE  PointsInv' /\ IF len' > 0 THEN Found(State)' ELSE search' = NoSearch
<1> DEFINE t == administered(theta, estimator, len', converges)
<1>1. pc = "administer" /\ Becomes(t)
  BY DEF Administer
<1>2. len' \in Nat
  BY DEF Administer, EstimateInv, IInv, MatrixInv
<1>3. Follows(t, theta) /\ theta.space \in Spaces
  BY <1>1, <1>2, PointGiven, AdministeredSound
<1>4. CleanState(t) /\ IF len' > 0 THEN Found(t) ELSE t.search = NoSearch
  BY <1>1, <1>2, PointGiven, AdministeredFinds
<1> HIDE DEF t
<1>5. PointsInv' /\ State' = t /\ search' = t.search
  BY <1>1, <1>3, <1>4, BecomesKeepsPoints
<1>6. Found(State') <=> Found(State)'
  BY DEF Found, Maximal, InTurn, Met, EachTime, Settled
<1> QED BY <1>4, <1>5, <1>6

(* A step of the search.                                                   *)
LEMMA SearchOnEstimate ==
    ASSUME EstimateInv, NEW converges \in BOOLEAN, NEW likelihood \in Likelihoods,
           SearchOn(converges, likelihood)
    PROVE  PointsInv' /\ len' > 0 /\ Found(State)'
<1> DEFINE t == NextPattern(State, converges, likelihood)
<1>1. pc = "administered" /\ Becomes(t) /\ len' = len /\ Searching(State)
  BY DEF SearchOn, State
<1>2. State.theta = theta /\ State.self = estimator /\ State.search = search
  BY DEF State, At
<1>3. search.mode # "none"
  BY <1>1, <1>2 DEF Searching
<1>4. len > 0 /\ Found(State)
  <2>1. search # NoSearch
    BY <1>3 DEF NoSearch
  <2>2. len \in Nat
    BY DEF EstimateInv, IInv, MatrixInv
  <2> QED BY <1>1, <2>1, <2>2 DEF EstimateInv
<1>5. likelihood \in Nat
  BY AdaptiveAssumption
<1>6. IsState(State)
  BY <1>1 DEF EstimateInv, IInv, ThetaInv
<1>7. CleanState(State)
  BY <1>1, <1>2, PointGiven DEF CleanState
<1>8. Follows(t, theta) /\ theta.space \in Spaces
  BY <1>1, <1>2, <1>3, <1>6, PointGiven, NextPatternSound
<1>9. CleanState(t) /\ Found(t)
  BY <1>1, <1>2, <1>3, <1>4, <1>5, <1>6, <1>7, PointGiven, NextPatternFinds
<1> HIDE DEF t
<1>10. PointsInv' /\ State' = t
  BY <1>1, <1>8, <1>9, BecomesKeepsPoints
<1>11. Found(State') <=> Found(State)'
  BY DEF Found, Maximal, InTurn, Met, EachTime, Settled
<1> QED BY <1>1, <1>4, <1>9, <1>10, <1>11

(* The other steps leave the estimate alone.                               *)
LEMMA OthersEstimate ==
    ASSUME EstimateInv,
           \/ \E space \in Spaces : Resize(space)
           \/ Start
           \/ \E eligible, approved \in BOOLEAN : Select(eligible, approved)
           \/ \E stop \in BOOLEAN : Stopcrit(stop)
    PROVE  PointsInv' /\ pc' # "administered"
<1>1. UNCHANGED <<theta, estimator>>
  BY DEF Resize, Start, Select, Stopcrit
<1>2. pc' # "administered"
  BY DEF Resize, Start, Select, Stopcrit
<1> QED BY <1>1, <1>2 DEF EstimateInv, PointsInv

(* Every step keeps the estimate on its way to the likeliest.              *)
LEMMA EstimateStep == EstimateInv /\ [Next]_vars => EstimateInv'
<1> SUFFICES ASSUME EstimateInv, [Next]_vars PROVE EstimateInv'
  OBVIOUS
<1>1. IInv'
  BY SetEstThetaStep, ResizeStep, StartStep, SelectStep, AdministerStep, SearchOnStep,
     StopcritStep, StutterStep DEF Next, EstimateInv
<1>2. CASE \E space \in Spaces : \E bin \in SUBSET (0 .. space.num_bin - 1) :
             SetEstTheta(space, bin)
  BY <1>1, <1>2, SetEstThetaEstimate DEF EstimateInv
<1>3. CASE \/ \E space \in Spaces : Resize(space)
           \/ Start
           \/ \E eligible, approved \in BOOLEAN : Select(eligible, approved)
           \/ \E stop \in BOOLEAN : Stopcrit(stop)
  BY <1>1, <1>3, OthersEstimate DEF EstimateInv
<1>4. CASE \E recorded, converges \in BOOLEAN : Administer(recorded, converges)
  BY <1>1, <1>4, AdministerEstimate DEF EstimateInv
<1>5. CASE \E converges \in BOOLEAN, likelihood \in Likelihoods : SearchOn(converges, likelihood)
  BY <1>1, <1>5, SearchOnEstimate DEF EstimateInv
<1>6. CASE UNCHANGED vars
  BY <1>1, <1>6 DEF vars, EstimateInv, PointsInv, State
<1> QED BY <1>2, <1>3, <1>4, <1>5, <1>6 DEF Next

(* For all spaces, likelihoods and bounds: after the handler of            *)
(* ::administered (estimate.c) the examinee's estimate is a point that was *)
(* evaluated in the search that decided it, none of those evaluated is     *)
(* likelier, and with one attribute both of its values were.               *)
THEOREM EstimateIsLikeliestAlways == Spec => []EstimateIsLikeliest
<1>1. EstimateInv => EstimateIsLikeliest
  <2> SUFFICES ASSUME EstimateInv, Estimated
               PROVE  /\ lost \/ theta.cont \in {"ml", "eap", "none"}
                      /\ theta.space.max = <<>> /\ search.visited # {} =>
                           /\ \/ \E v \in search.visited :
                                   /\ v.likelihood > 0
                                   /\ \A w \in search.visited : w.likelihood <= v.likelihood
                                   /\ v.bin = theta.bin /\ v.cont = theta.cont
                              \/ \A v \in search.visited : v.likelihood = 0
                           /\ theta.space.num_bin = 1 => {v.bin : v \in search.visited} = {{}, {0}}
    BY DEF EstimateIsLikeliest
  <2>1. Found(State) /\ ~Searching(State) /\ pc = "administered"
    BY DEF EstimateInv, Estimated, State
  <2>2. State.theta = theta /\ State.self = estimator /\ State.search = search
    BY DEF State, At
  <2>3. search.n \in Nat /\ search.max \in Nat
    BY <2>1, <2>2 DEF Found
  <2>4. lost \/ theta.cont \in {"ml", "eap", "none"}
    <3>1. search.mode # "none" /\ search.max = 0 => lost
      BY <2>1 DEF EstimateInv, IInv, ThetaInv, GaveUp
    <3> QED BY <2>1, <2>2, <2>3, <3>1 DEF Found, Settled
  <2>5. ASSUME theta.space.max = <<>>, search.visited # {}
        PROVE  /\ \/ \E v \in search.visited :
                       /\ v.likelihood > 0
                       /\ \A w \in search.visited : w.likelihood <= v.likelihood
                       /\ v.bin = theta.bin /\ v.cont = theta.cont
                  \/ \A v \in search.visited : v.likelihood = 0
               /\ theta.space.num_bin = 1 => {v.bin : v \in search.visited} = {{}, {0}}
    <3>1. search.mode # "none" /\ Maximal(State) /\ InTurn(State)
      BY <2>1, <2>2, <2>5 DEF Found
    <3>2. \/ \E v \in search.visited :
               /\ v.likelihood > 0
               /\ \A w \in search.visited : w.likelihood <= v.likelihood
               /\ v.bin = theta.bin /\ v.cont = theta.cont
          \/ \A v \in search.visited : v.likelihood = 0
      <4>1. CASE search.max = 0
        BY <2>2, <3>1, <4>1 DEF Maximal
      <4>2. CASE search.max > 0
        <5>1. PICK v \in search.visited :
                v.likelihood = search.max /\ v.bin = theta.bin /\ v.cont = theta.cont
          BY <2>2, <3>1, <4>2 DEF Maximal
        <5>2. \A w \in search.visited : w.likelihood <= v.likelihood
          BY <2>2, <2>3, <3>1, <5>1 DEF Maximal
        <5> QED BY <4>2, <5>1, <5>2
      <4> QED BY <2>3, <4>1, <4>2
    <3>3. ASSUME theta.space.num_bin = 1
          PROVE  {v.bin : v \in search.visited} = {{}, {0}}
      <4>1. search.n = 2
        <5>1. ~ search.n < 2
          BY <2>1, <2>2, <2>5, <3>1, <3>3, StepsAre DEF Searching
        <5>2. search.n \in 0 .. 2
          BY <2>2, <3>1, <3>3 DEF InTurn
        <5> QED BY <5>1, <5>2
      <4>2. \A S : (\E v \in search.visited : v.bin = S) <=> S \in Met(2)
        BY <2>2, <3>1, <3>3, <4>1 DEF InTurn
      <4>3. \A S : S \in Met(2) <=> S \in {{}, {0}}
        BY DEF Met
      <4>4. \A S : S \in {v.bin : v \in search.visited} <=> \E v \in search.visited : v.bin = S
        OBVIOUS
      <4>5. \A S : S \in {v.bin : v \in search.visited} <=> S \in {{}, {0}}
        BY <4>2, <4>3, <4>4
      <4> QED BY <4>5
    <3> QED BY <3>2, <3>3
  <2> QED BY <2>4, <2>5
<1> QED BY <1>1, InitEstimate, EstimateStep, PTL DEF Spec

-----------------------------------------------------------------------------
(* Sequences of sequences, flattened.                                      *)

(* A set of numbers that has 0, and with every number the next, has all.   *)
LEMMA Counting ==
    ASSUME NEW S, 0 \in S, \A n \in Nat : n \in S => n + 1 \in S
    PROVE  \A n \in Nat : n \in S
<1> DEFINE missing == Nat \ S
           less == OpToRel(<, Nat)
<1>1. SUFFICES ASSUME missing # {} PROVE FALSE
  OBVIOUS
<1>2. PICK x \in missing : \A y \in missing : <<y, x>> \notin less
  <2>1. IsWellFoundedOn(less, Nat) /\ missing \subseteq Nat
    BY NatLessThanWellFounded
  <2> HIDE DEF less, missing
  <2> QED BY <1>1, <2>1, WFMin
<1>3. x - 1 \in Nat
  OBVIOUS
<1>4. <<x - 1, x>> \in less
  BY <1>3 DEF OpToRel
<1>5. x - 1 \in S
  <2> HIDE DEF less
  <2> QED BY <1>2, <1>3, <1>4
<1> QED BY <1>3, <1>5

(* F joins the sequences of seqs from the left.                            *)
Joins(F, seqs, S) ==
    /\ F \in [1 .. Len(seqs) -> Seq(S)]
    /\ \A i \in 1 .. Len(seqs) : F[i] = IF i = 1 THEN seqs[i] ELSE F[i - 1] \o seqs[i]

JoinsExist(n, seqs, S) ==
    \E F \in [1 .. n -> Seq(S)] :
       \A i \in 1 .. n : F[i] = IF i = 1 THEN seqs[i] ELSE F[i - 1] \o seqs[i]

(* Joining one more sequence.                                              *)
LEMMA JoinedLonger ==
    ASSUME NEW S, NEW seqs \in Seq(Seq(S)), NEW n \in Nat, n < Len(seqs), JoinsExist(n, seqs, S)
    PROVE  JoinsExist(n + 1, seqs, S)
<1>1. PICK F \in [1 .. n -> Seq(S)] :
         \A i \in 1 .. n : F[i] = IF i = 1 THEN seqs[i] ELSE F[i - 1] \o seqs[i]
  BY DEF JoinsExist
<1> DEFINE last == IF n = 0 THEN seqs[n + 1] ELSE F[n] \o seqs[n + 1]
           G == [i \in 1 .. n + 1 |-> IF i = n + 1 THEN last ELSE F[i]]
<1>2. last \in Seq(S)
  <2>1. seqs[n + 1] \in Seq(S)
    OBVIOUS
  <2>2. CASE n = 0
    BY <2>1, <2>2
  <2>3. CASE n # 0
    <3>1. F[n] \in Seq(S)
      BY <2>3
    <3> QED BY <2>1, <2>3, <3>1
  <2> QED BY <2>2, <2>3
<1>3. G \in [1 .. n + 1 -> Seq(S)]
  <2> HIDE DEF last
  <2> QED BY <1>2
<1>4. ASSUME NEW i \in 1 .. n + 1
      PROVE  G[i] = IF i = 1 THEN seqs[i] ELSE G[i - 1] \o seqs[i]
  <2>1. CASE i = n + 1
    <3>1. CASE n = 0
      BY <2>1, <3>1
    <3>2. CASE n # 0
      <4>1. G[n] = F[n]
        BY <3>2
      <4>2. G[i] = last /\ last = F[n] \o seqs[n + 1]
        BY <2>1, <3>2
      <4>3. i # 1 /\ i - 1 = n
        BY <2>1, <3>2
      <4> HIDE DEF G, last
      <4> QED BY <2>1, <4>1, <4>2, <4>3
    <3> QED BY <3>1, <3>2
  <2>2. CASE i # n + 1
    <3>1. i \in 1 .. n
      BY <2>2
    <3>2. G[i] = F[i]
      BY <2>2
    <3>3. i # 1 => G[i - 1] = F[i - 1]
      BY <3>1
    <3> HIDE DEF G
    <3> QED BY <1>1, <3>1, <3>2, <3>3
  <2> QED BY <2>1, <2>2
<1> HIDE DEF G
<1> QED BY <1>3, <1>4 DEF JoinsExist

(* The definition of a flattened sequence has a solution, and it is one    *)
(* that joins the sequences.                                               *)
LEMMA FlatJoins ==
    ASSUME NEW S, NEW seqs \in Seq(Seq(S)), Len(seqs) > 0
    PROVE  \E F : Joins(F, seqs, S) /\ FlattenSeq(seqs) = F[Len(seqs)]
<1> DEFINE N == Len(seqs)
           value(f, i) == IF i = 1 THEN seqs[i] ELSE f[i - 1] \o seqs[i]
           IsIt(f) == f = [i \in 1 .. N |-> value(f, i)]
           flat == CHOOSE f : IsIt(f)
<1>0. N \in Nat
  OBVIOUS
<1>1. FlattenSeq(seqs) = flat[N]
  BY DEF FlattenSeq
<1>2. JoinsExist(N, seqs, S)
  <2> DEFINE T == {n \in Nat : n <= N => JoinsExist(n, seqs, S)}
  <2>1. 0 \in T
    <3>1. [i \in 1 .. 0 |-> <<>>] \in [1 .. 0 -> Seq(S)]
      OBVIOUS
    <3>2. ~ \E i : i \in 1 .. 0
      OBVIOUS
    <3>3. JoinsExist(0, seqs, S)
      BY <3>1, <3>2, Zenon DEF JoinsExist
    <3> QED BY <3>3
  <2>2. ASSUME NEW n \in Nat, n \in T PROVE n + 1 \in T
    <3> SUFFICES ASSUME n + 1 <= N PROVE JoinsExist(n + 1, seqs, S)
      OBVIOUS
    <3>1. n < Len(seqs) /\ JoinsExist(n, seqs, S)
      BY <2>2
    <3> QED BY <3>1, JoinedLonger
  <2>3. N \in T
    <3> HIDE DEF T, N
    <3> QED BY <1>0, <2>1, <2>2, Counting
  <2> QED BY <2>3
<1>3. PICK F \in [1 .. N -> Seq(S)] : \A i \in 1 .. N : F[i] = value(F, i)
  BY <1>2 DEF JoinsExist
<1>4. IsIt(F)
  <2> HIDE DEF N, value
  <2> QED BY <1>3
<1>5. IsIt(flat)
  <2> HIDE DEF IsIt
  <2> QED BY <1>4
<1> HIDE DEF flat
<1>6. \A i \in 1 .. N : flat[i] = value(flat, i)
  <2> HIDE DEF N, value
  <2> QED BY <1>5
<1>7. \A i \in 1 .. N : flat[i] = F[i]
  <2> DEFINE T == {n \in Nat : n \in 1 .. N => flat[n] = F[n]}
  <2>1. 0 \in T
    OBVIOUS
  <2>2. ASSUME NEW n \in Nat, n \in T PROVE n + 1 \in T
    <3> SUFFICES ASSUME n + 1 \in 1 .. N PROVE flat[n + 1] = F[n + 1]
      OBVIOUS
    <3>1. flat[n + 1] = value(flat, n + 1) /\ F[n + 1] = value(F, n + 1)
      BY <1>3, <1>6
    <3>2. n # 0 => flat[n] = F[n]
      BY <2>2
    <3> QED BY <3>1, <3>2
  <2>3. \A n \in Nat : n \in T
    <3> HIDE DEF T
    <3> QED BY <2>1, <2>2, Counting
  <2> QED BY <2>3, <1>0
<1>8. Joins(F, seqs, S)
  BY <1>3 DEF Joins
<1>9. FlattenSeq(seqs) = F[N]
  <2>1. N \in 1 .. N
    BY <1>0
  <2> QED BY <1>1, <1>7, <2>1
<1> QED BY <1>8, <1>9

(* The elements of two sequences joined are those of both.                 *)
LEMMA JoinElements ==
    ASSUME NEW S, NEW a \in Seq(S), NEW b \in Seq(S)
    PROVE  ToSet(a \o b) = ToSet(a) \cup ToSet(b)
<1>1. \A k \in 1 .. Len(a) : (a \o b)[k] = a[k]
  OBVIOUS
<1>2. \A k \in 1 .. Len(b) : (a \o b)[Len(a) + k] = b[k] /\ Len(a) + k \in 1 .. Len(a \o b)
  OBVIOUS
<1>3. \A k \in 1 .. Len(a \o b) : k \in 1 .. Len(a) \/ k - Len(a) \in 1 .. Len(b)
  OBVIOUS
<1>4. \A k \in 1 .. Len(a \o b) : k - Len(a) \in 1 .. Len(b) => (a \o b)[k] = b[k - Len(a)]
  OBVIOUS
<1>5. Len(a) \in Nat /\ Len(b) \in Nat /\ \A k \in 1 .. Len(a) : k \in 1 .. Len(a \o b)
  OBVIOUS
<1>6. DOMAIN a = 1 .. Len(a) /\ DOMAIN b = 1 .. Len(b) /\ DOMAIN (a \o b) = 1 .. Len(a \o b)
  OBVIOUS
<1> DEFINE c == a \o b
<1> HIDE DEF c
<1>7. ToSet(c) \subseteq ToSet(a) \cup ToSet(b)
  BY <1>1, <1>3, <1>4, <1>6 DEF ToSet, c
<1>8. ToSet(a) \cup ToSet(b) \subseteq ToSet(c)
  BY <1>1, <1>2, <1>5, <1>6 DEF ToSet, c
<1> QED BY <1>7, <1>8 DEF c

(* One more sequence is joined.                                            *)
LEMMA JoinStep ==
    ASSUME NEW S, NEW seqs \in Seq(Seq(S)), NEW F, Joins(F, seqs, S),
           NEW n \in Nat, n + 1 \in 1 .. Len(seqs)
    PROVE  /\ seqs[n + 1] \in Seq(S) /\ F[n + 1] \in Seq(S)
           /\ F[1] = seqs[1]
           /\ n # 0 => F[n] \in Seq(S) /\ F[n + 1] = F[n] \o seqs[n + 1]
<1>1. seqs[n + 1] \in Seq(S)
  OBVIOUS
<1>2. \A i \in 1 .. Len(seqs) : F[i] \in Seq(S)
  BY DEF Joins
<1>3. ASSUME NEW k \in 1 .. Len(seqs)
      PROVE  /\ k = 1 => F[k] = seqs[k]
             /\ k # 1 => F[k] = F[k - 1] \o seqs[k]
  BY DEF Joins
<1>4. F[1] = seqs[1]
  <2>1. 1 \in 1 .. Len(seqs)
    OBVIOUS
  <2> QED BY <1>3, <2>1
<1>5. ASSUME n # 0 PROVE F[n] \in Seq(S) /\ F[n + 1] = F[n] \o seqs[n + 1]
  <2>1. n + 1 # 1 /\ (n + 1) - 1 = n /\ n \in 1 .. Len(seqs)
    BY <1>5
  <2>2. F[n + 1] = F[(n + 1) - 1] \o seqs[n + 1]
    BY <1>3, <2>1
  <2> QED BY <1>2, <2>1, <2>2
<1>6. F[n + 1] \in Seq(S)
  BY <1>2
<1> QED BY <1>1, <1>4, <1>5, <1>6

(* The elements of a flattened sequence are those of the sequences.        *)
LEMMA FlatElements ==
    ASSUME NEW S, NEW seqs \in Seq(Seq(S)), Len(seqs) > 0
    PROVE  /\ FlattenSeq(seqs) \in Seq(S)
           /\ ToSet(FlattenSeq(seqs)) = UNION {ToSet(seqs[i]) : i \in 1 .. Len(seqs)}
<1> DEFINE N == Len(seqs)
<1>0. N \in Nat /\ N \in 1 .. N
  OBVIOUS
<1>1. PICK F : Joins(F, seqs, S) /\ FlattenSeq(seqs) = F[Len(seqs)]
  BY FlatJoins
<1> DEFINE T == {n \in Nat : n \in 1 .. N => ToSet(F[n]) = UNION {ToSet(seqs[i]) : i \in 1 .. n}}
<1>2. 0 \in T
  OBVIOUS
<1>3. ASSUME NEW n \in Nat, n \in T PROVE n + 1 \in T
  <2> SUFFICES ASSUME n + 1 \in 1 .. N
               PROVE  ToSet(F[n + 1]) = UNION {ToSet(seqs[i]) : i \in 1 .. n + 1}
    OBVIOUS
  <2>1. CASE n = 0
    <3>1. F[1] = seqs[1]
      BY <1>1, JoinStep
    <3>2. 1 .. n + 1 = {1}
      BY <2>1
    <3> HIDE DEF N, T
    <3> QED BY <2>1, <3>1, <3>2
  <2>2. CASE n # 0
    <3>1. F[n] \in Seq(S) /\ seqs[n + 1] \in Seq(S) /\ F[n + 1] = F[n] \o seqs[n + 1]
      BY <1>1, <2>2, JoinStep
    <3>2. ToSet(F[n] \o seqs[n + 1]) = ToSet(F[n]) \cup ToSet(seqs[n + 1])
      BY <3>1, JoinElements
    <3>3. ToSet(F[n]) = UNION {ToSet(seqs[i]) : i \in 1 .. n}
      BY <1>3, <2>2
    <3>4. 1 .. n + 1 = (1 .. n) \cup {n + 1}
      OBVIOUS
    <3> HIDE DEF N, T
    <3> QED BY <3>1, <3>2, <3>3, <3>4
  <2> QED BY <2>1, <2>2
<1>4. \A n \in Nat : n \in T
  <2> HIDE DEF T
  <2> QED BY <1>2, <1>3, Counting
<1>5. ToSet(F[N]) = UNION {ToSet(seqs[i]) : i \in 1 .. N}
  BY <1>0, <1>4
<1>6. F[N] \in Seq(S)
  BY <1>0, <1>1 DEF Joins
<1> QED BY <1>1, <1>5, <1>6

(* A flattened sequence of n rows of the same length.                      *)
LEMMA FlatRows ==
    ASSUME NEW S, NEW seqs \in Seq(Seq(S)), Len(seqs) > 0,
           NEW m \in Nat, \A i \in 1 .. Len(seqs) : Len(seqs[i]) = m
    PROVE  Len(FlattenSeq(seqs)) = Len(seqs) * m
<1> DEFINE N == Len(seqs)
<1>0. N \in Nat /\ N \in 1 .. N
  OBVIOUS
<1>1. PICK F : Joins(F, seqs, S) /\ FlattenSeq(seqs) = F[Len(seqs)]
  BY FlatJoins
<1> DEFINE T == {n \in Nat : n \in 1 .. N => Len(F[n]) = n * m}
<1>2. 0 \in T
  OBVIOUS
<1>3. ASSUME NEW n \in Nat, n \in T PROVE n + 1 \in T
  <2> SUFFICES ASSUME n + 1 \in 1 .. N PROVE Len(F[n + 1]) = (n + 1) * m
    OBVIOUS
  <2>0. Len(seqs[n + 1]) = m
    OBVIOUS
  <2>1. CASE n = 0
    <3>1. F[1] = seqs[1]
      BY <1>1, JoinStep
    <3> QED BY <2>0, <2>1, <3>1
  <2>2. CASE n # 0
    <3>1. F[n] \in Seq(S) /\ seqs[n + 1] \in Seq(S) /\ F[n + 1] = F[n] \o seqs[n + 1]
      BY <1>1, <2>2, JoinStep
    <3>2. Len(F[n] \o seqs[n + 1]) = Len(F[n]) + Len(seqs[n + 1])
      BY <3>1
    <3>3. Len(F[n]) = n * m
      BY <1>3, <2>2
    <3>4. n * m + m = (n + 1) * m
      OBVIOUS
    <3> QED BY <2>0, <3>1, <3>2, <3>3, <3>4
  <2> QED BY <2>1, <2>2
<1>4. \A n \in Nat : n \in T
  <2> HIDE DEF T
  <2> QED BY <1>2, <1>3, Counting
<1> QED BY <1>0, <1>1, <1>4

-----------------------------------------------------------------------------
(* The trail of the points that a sum evaluates.                           *)

(* One step of the sum, and the trail that it makes longer.                *)
Moved(p, step) == WithBin(WithNat(p, step.nat), step.bin)
Longer(trail, step) == Append(trail, Moved(trail[Len(trail)], step))

(* g has the trails of the steps of Q at the places of each set.           *)
IsTrails(g, base, Q, n) ==
    g = [s \in SUBSET (1 .. n) |->
           IF s = {} THEN base ELSE Longer(g[s \ {Max(s)}], Q[Max(s)])]

(* The last place of a set that has it.                                    *)
LEMMA LastPlace == ASSUME NEW n \in Nat, NEW s \in SUBSET (1 .. n + 1), n + 1 \in s
                   PROVE  Max(s) = n + 1
<1>1. \A y \in s : n + 1 >= y
  OBVIOUS
<1>2. \A x \in s : (\A y \in s : x >= y) => x = n + 1
  OBVIOUS
<1>3. Max(s) \in s /\ \A y \in s : Max(s) >= y
  BY <1>1 DEF Max
<1> QED BY <1>2, <1>3

(* The definition by recursion has a solution.                             *)
LEMMA TrailsExist == ASSUME NEW base, NEW Q, NEW n \in Nat
                     PROVE  \E g : IsTrails(g, base, Q, n)
<1> DEFINE T == {m \in Nat : \E g : IsTrails(g, base, Q, m)}
           value(f, s) == IF s = {} THEN base ELSE Longer(f[s \ {Max(s)}], Q[Max(s)])
<1>1. 0 \in T
  <2> DEFINE g == [s \in SUBSET (1 .. 0) |-> base]
  <2>1. \A s \in SUBSET (1 .. 0) : s = {}
    OBVIOUS
  <2>2. g = [s \in SUBSET (1 .. 0) |-> value(g, s)]
    BY <2>1
  <2>3. IsTrails(g, base, Q, 0)
    <3> HIDE DEF g
    <3> QED BY <2>2 DEF IsTrails
  <2> QED BY <2>3
<1>2. ASSUME NEW m \in Nat, m \in T PROVE m + 1 \in T
  <2>1. PICK f : IsTrails(f, base, Q, m)
    BY <1>2
  <2> DEFINE g == [s \in SUBSET (1 .. m + 1) |->
                     IF m + 1 \in s THEN Longer(f[s \ {m + 1}], Q[m + 1]) ELSE f[s]]
  <2>2. ASSUME NEW s \in SUBSET (1 .. m) PROVE f[s] = value(f, s) /\ g[s] = f[s]
    <3>1. s \in SUBSET (1 .. m + 1) /\ m + 1 \notin s
      OBVIOUS
    <3>2. f[s] = value(f, s)
      <4> HIDE DEF g
      <4> QED BY <2>1 DEF IsTrails
    <3> QED BY <3>1, <3>2
  <2>3. ASSUME NEW s \in SUBSET (1 .. m + 1) PROVE g[s] = value(g, s)
    <3>1. CASE m + 1 \in s
      <4>1. Max(s) = m + 1
        BY <3>1, LastPlace
      <4>2. s \ {m + 1} \in SUBSET (1 .. m)
        OBVIOUS
      <4>3. g[s \ {m + 1}] = f[s \ {m + 1}]
        BY <2>2, <4>2
      <4>4. g[s] = Longer(f[s \ {m + 1}], Q[m + 1])
        BY <3>1
      <4> HIDE DEF g
      <4> QED BY <3>1, <4>1, <4>3, <4>4
    <3>2. CASE m + 1 \notin s
      <4>0. \A x \in 1 .. m + 1 : x # m + 1 => x \in 1 .. m
        OBVIOUS
      <4>1. s \in SUBSET (1 .. m) /\ s \ {Max(s)} \in SUBSET (1 .. m)
        BY <3>2, <4>0
      <4>2. g[s] = f[s] /\ f[s] = value(f, s)
        BY <2>2, <4>1
      <4>3. g[s \ {Max(s)}] = f[s \ {Max(s)}]
        BY <2>2, <4>1
      <4> HIDE DEF g
      <4> QED BY <4>2, <4>3
    <3> QED BY <3>1, <3>2
  <2>4. g = [s \in SUBSET (1 .. m + 1) |-> g[s]]
    OBVIOUS
  <2>5. IsTrails(g, base, Q, m + 1)
    <3> HIDE DEF g
    <3> QED BY <2>3, <2>4 DEF IsTrails
  <2> HIDE DEF g
  <2> QED BY <2>5
<1> HIDE DEF T
<1>3. n \in T
  BY <1>1, <1>2, Counting
<1> QED BY <1>3 DEF T

(* What the sum evaluates is a trail of all of its steps.                  *)
LEMMA SummedTable == ASSUME NEW p, NEW Q, NEW n \in Nat, Steps(p.space) = Q, DOMAIN Q = 1 .. n
                     PROVE  \E g : IsTrails(g, <<p>>, Q, n) /\ SummedFrom(p) = Tail(g[1 .. n])
<1> DEFINE g == CHOOSE f : IsTrails(f, <<p>>, Q, n)
<1>1. IsTrails(g, <<p>>, Q, n)
  BY TrailsExist
<1>2. SummedFrom(p) = Tail(g[1 .. n])
  BY DEF SummedFrom, FoldLeft, MapThenFoldSet, IsTrails, Longer, Moved
<1> QED BY <1>1, <1>2

(* R is the trail from p, moved by the steps of Q.                         *)
IsTrail(R, p, Q, n) ==
    /\ Len(R) = n + 1
    /\ R[1] = p
    /\ \A j \in 1 .. n : R[j + 1] = Moved(R[j], Q[j])

(* A trail moved by one more step.                                         *)
LEMMA TrailLonger ==
    ASSUME NEW P, NEW Q, NEW p, NEW n \in Nat, NEW R \in Seq(P), IsTrail(R, p, Q, n),
           Moved(R[n + 1], Q[n + 1]) \in P
    PROVE  Longer(R, Q[n + 1]) \in Seq(P) /\ IsTrail(Longer(R, Q[n + 1]), p, Q, n + 1)
<1> DEFINE x == Moved(R[n + 1], Q[n + 1])
           L == Append(R, x)
<1>1. Len(R) = n + 1
  BY DEF IsTrail
<1>2. Longer(R, Q[n + 1]) = L
  BY <1>1 DEF Longer
<1>3. x \in P
  OBVIOUS
<1> HIDE DEF x
<1>4. L \in Seq(P) /\ Len(L) = n + 2 /\ L[n + 2] = x /\ \A j \in 1 .. n + 1 : L[j] = R[j]
  BY <1>1, <1>3
<1> HIDE DEF L
<1>5. L[1] = p
  <2>1. 1 \in 1 .. n + 1
    OBVIOUS
  <2> QED BY <1>4, <2>1 DEF IsTrail
<1>6. ASSUME NEW j \in 1 .. n + 1 PROVE L[j + 1] = Moved(L[j], Q[j])
  <2>1. CASE j = n + 1
    <3>1. L[j] = R[n + 1] /\ Q[j] = Q[n + 1] /\ j + 1 = n + 2
      BY <1>4, <2>1
    <3> QED BY <1>4, <3>1 DEF x
  <2>2. CASE j # n + 1
    <3>1. j \in 1 .. n /\ j + 1 \in 1 .. n + 1
      BY <2>2
    <3>2. L[j] = R[j] /\ L[j + 1] = R[j + 1]
      BY <1>4, <3>1
    <3> QED BY <3>1, <3>2 DEF IsTrail
  <2> QED BY <2>1, <2>2
<1>7. Len(L) = (n + 1) + 1
  BY <1>4
<1> QED BY <1>2, <1>4, <1>5, <1>6, <1>7 DEF IsTrail

(* From a point of P, which the steps do not leave, the sum evaluates as   *)
(* many points of P as there are steps, each moved from the one before.    *)
LEMMA SummedIs ==
    ASSUME NEW P, NEW D, NEW p \in P, NEW Q \in Seq(D), Steps(p.space) = Q,
           \A x \in P, step \in D : Moved(x, step) \in P
    PROVE  \E R \in Seq(P) : IsTrail(R, p, Q, Len(Q)) /\ SummedFrom(p) = Tail(R)
<1> DEFINE N == Len(Q)
<1>0. N \in Nat /\ DOMAIN Q = 1 .. N
  OBVIOUS
<1>1. PICK g : IsTrails(g, <<p>>, Q, N) /\ SummedFrom(p) = Tail(g[1 .. N])
  BY <1>0, SummedTable
<1> DEFINE T == {n \in Nat : n <= N => g[1 .. n] \in Seq(P) /\ IsTrail(g[1 .. n], p, Q, n)}
<1>2. 0 \in T
  <2>1. 1 .. 0 = {}
    OBVIOUS
  <2>2. g[1 .. 0] = <<p>>
    BY <1>1, <2>1 DEF IsTrails
  <2> DEFINE one == <<p>>
  <2>3. one \in Seq(P) /\ Len(one) = 0 + 1 /\ one[1] = p
    OBVIOUS
  <2> HIDE DEF one
  <2>4. \A j : j \notin 1 .. 0
    OBVIOUS
  <2>5. IsTrail(one, p, Q, 0)
    BY <2>3, <2>4 DEF IsTrail
  <2> QED BY <2>2, <2>3, <2>5 DEF one
<1>3. ASSUME NEW n \in Nat, n \in T PROVE n + 1 \in T
  <2> SUFFICES ASSUME n + 1 <= N
               PROVE  g[1 .. n + 1] \in Seq(P) /\ IsTrail(g[1 .. n + 1], p, Q, n + 1)
    OBVIOUS
  <2> DEFINE s == 1 .. n + 1
             R == g[1 .. n]
  <2>1. s \in SUBSET (1 .. N) /\ s \in SUBSET (1 .. n + 1) /\ n + 1 \in s /\ s # {}
        /\ s \ {n + 1} = 1 .. n
    <3>1. \A x \in 1 .. n + 1 : x \in 1 .. N /\ (x # n + 1 <=> x \in 1 .. n)
      BY <1>0
    <3>2. n + 1 \in 1 .. n + 1 /\ \A x \in 1 .. n : x \in 1 .. n + 1 /\ x # n + 1
      OBVIOUS
    <3> HIDE DEF N
    <3> QED BY <3>1, <3>2
  <2>2. Max(s) = n + 1
    <3> HIDE DEF s
    <3> QED BY <2>1, LastPlace
  <2>3. g[s] = Longer(g[s \ {Max(s)}], Q[Max(s)])
    <3> HIDE DEF s, N
    <3> QED BY <1>1, <2>1 DEF IsTrails
  <2>4. g[s] = Longer(R, Q[n + 1])
    BY <2>1, <2>2, <2>3
  <2>5. R \in Seq(P) /\ IsTrail(R, p, Q, n)
    BY <1>3
  <2>6. Moved(R[n + 1], Q[n + 1]) \in P
    <3>1. Len(R) = n + 1
      BY <2>5 DEF IsTrail
    <3> HIDE DEF R
    <3>2. R[n + 1] \in P
      BY <2>5, <3>1
    <3>3. Q[n + 1] \in D
      BY <1>0
    <3> QED BY <3>2, <3>3
  <2> HIDE DEF R
  <2>7. Longer(R, Q[n + 1]) \in Seq(P) /\ IsTrail(Longer(R, Q[n + 1]), p, Q, n + 1)
    BY <2>5, <2>6, TrailLonger
  <2> QED BY <2>4, <2>7
<1>4. N \in T
  <2> HIDE DEF T, N
  <2> QED BY <1>0, <1>2, <1>3, Counting
<1>5. g[1 .. N] \in Seq(P) /\ IsTrail(g[1 .. N], p, Q, N)
  BY <1>0, <1>4
<1> QED BY <1>1, <1>5

(* The points that it evaluates are those after the first.                 *)
LEMMA TrailTail ==
    ASSUME NEW P, NEW Q, NEW p, NEW n \in Nat, NEW R \in Seq(P), IsTrail(R, p, Q, n)
    PROVE  /\ Tail(R) \in Seq(P) /\ Len(Tail(R)) = n
           /\ \A j \in 1 .. n : Tail(R)[j] = Moved(R[j], Q[j]) /\ R[j] \in P
<1>1. Len(R) = n + 1
  BY DEF IsTrail
<1>2. Tail(R) \in Seq(P) /\ Len(Tail(R)) = n
  BY <1>1
<1>3. \A j \in 1 .. n : Tail(R)[j] = R[j + 1] /\ R[j] \in P
  BY <1>1
<1> QED BY <1>2, <1>3 DEF IsTrail

-----------------------------------------------------------------------------
(* The steps of the loops.                                                 *)

(* The values that the loops go through.                                   *)
NatSet(space) ==
    IF space.max = <<>> THEN {None}
    ELSE {d \in [dim : DOMAIN space.max, value : Nat] : d.value <= space.max[d.dim]}
BinSet(space) ==
    IF space.num_bin = 0 THEN {None} ELSE [dim : 0 .. space.num_bin - 1, value : {0, 1}]
StepSet(space) == [nat : NatSet(space), bin : BinSet(space)]

NumBin(space) == IF space.num_bin = 0 THEN 1 ELSE 2 * space.num_bin

IsSpace(space) == space.num_bin \in Nat /\ space.max \in Seq(Nat)

(* The values of the binary dimensions.                                    *)
LEMMA BinValuesAre ==
    ASSUME NEW space, IsSpace(space)
    PROVE  /\ BinValues(space) \in Seq(BinSet(space))
           /\ Len(BinValues(space)) = NumBin(space)
           /\ ToSet(BinValues(space)) = BinSet(space)
<1> DEFINE B == space.num_bin
<1>0. B \in Nat
  BY DEF IsSpace
<1>1. CASE B = 0
  <2> DEFINE one == <<None>>
  <2>1. one \in Seq({None}) /\ Len(one) = 1 /\ DOMAIN one = {1} /\ one[1] = None
    OBVIOUS
  <2>2. BinValues(space) = one /\ BinSet(space) = {None} /\ NumBin(space) = 1
    BY <1>1 DEF BinValues, BinSet, NumBin
  <2> HIDE DEF one
  <2>3. ToSet(one) = {None}
    BY <2>1 DEF ToSet
  <2> QED BY <2>1, <2>2, <2>3
<1>2. CASE B # 0
  <2> DEFINE D == [dim : 0 .. B - 1, value : {0, 1}]
             at(n) == [dim |-> (n - 1) \div 2, value |-> (n - 1) % 2]
             seq == [n \in 1 .. 2 * B |-> at(n)]
  <2>1. BinValues(space) = seq /\ BinSet(space) = D /\ NumBin(space) = 2 * B
    BY <1>2 DEF BinValues, BinSet, NumBin
  <2>2. ASSUME NEW n \in 1 .. 2 * B PROVE at(n) \in D
    <3>1. (n - 1) \div 2 \in 0 .. B - 1 /\ (n - 1) % 2 \in {0, 1}
      BY <1>0
    <3> QED BY <3>1
  <2>3. ASSUME NEW d \in D PROVE \E n \in 1 .. 2 * B : at(n) = d
    <3> DEFINE n == 2 * d.dim + d.value + 1
    <3>1. d.dim \in 0 .. B - 1 /\ d.value \in {0, 1} /\ d = [dim |-> d.dim, value |-> d.value]
      OBVIOUS
    <3>2. n \in 1 .. 2 * B /\ (n - 1) \div 2 = d.dim /\ (n - 1) % 2 = d.value
      <4> DEFINE x == d.dim
                 v == d.value
      <4>1. x \in 0 .. B - 1 /\ v \in {0, 1} /\ n = 2 * x + v + 1
        BY <3>1
      <4> HIDE DEF x, v, n
      <4>2. n \in 1 .. 2 * B
        BY <1>0, <4>1
      <4>3. (n - 1) \div 2 = x /\ (n - 1) % 2 = v
        BY <1>0, <4>1
      <4> QED BY <4>2, <4>3 DEF x, v
    <3>3. at(n) = d
      BY <3>1, <3>2
    <3> QED BY <3>2, <3>3
  <2>4. 2 * B \in Nat
    BY <1>0
  <2> HIDE DEF at, D
  <2>5. seq \in Seq(D) /\ Len(seq) = 2 * B /\ DOMAIN seq = 1 .. 2 * B
    BY <2>2, <2>4
  <2>6. \A n \in 1 .. 2 * B : seq[n] = at(n)
    OBVIOUS
  <2> HIDE DEF seq
  <2>7. ToSet(seq) = D
    BY <2>2, <2>3, <2>5, <2>6 DEF ToSet
  <2> QED BY <2>1, <2>5, <2>7
<1> QED BY <1>1, <1>2

(* The values of one natural dimension.                                    *)
LEMMA NatRow ==
    ASSUME NEW I, NEW m \in Nat
    PROVE  LET row == [v \in 1 .. m + 1 |-> [dim |-> I, value |-> v - 1]]
           IN  /\ Len(row) = m + 1
               /\ row \in Seq([dim : {I}, value : 0 .. m])
               /\ ToSet(row) = [dim : {I}, value : 0 .. m]
<1> DEFINE row == [v \in 1 .. m + 1 |-> [dim |-> I, value |-> v - 1]]
           D == [dim : {I}, value : 0 .. m]
<1>1. \A v \in 1 .. m + 1 : [dim |-> I, value |-> v - 1] \in D
  OBVIOUS
<1>2. ASSUME NEW d \in D PROVE \E v \in 1 .. m + 1 : row[v] = d
  <2>1. d.dim = I /\ d.value \in 0 .. m /\ d = [dim |-> d.dim, value |-> d.value]
    OBVIOUS
  <2>2. d.value + 1 \in 1 .. m + 1 /\ (d.value + 1) - 1 = d.value
    BY <2>1
  <2>3. row[d.value + 1] = d
    BY <2>1, <2>2
  <2> QED BY <2>2, <2>3
<1>3. row \in [1 .. m + 1 -> D] /\ DOMAIN row = 1 .. m + 1 /\ m + 1 \in Nat
  BY <1>1
<1> HIDE DEF row, D
<1>4. row \in Seq(D) /\ Len(row) = m + 1
  BY <1>3
<1>5. ToSet(row) = D
  BY <1>2, <1>3 DEF ToSet
<1> QED BY <1>4, <1>5 DEF row, D

NatRows(space) ==
    [I \in DOMAIN space.max |-> [v \in 1 .. space.max[I] + 1 |-> [dim |-> I, value |-> v - 1]]]

(* The values of the natural dimensions, one sequence for each.            *)
LEMMA NatRowsAre ==
    ASSUME NEW space, IsSpace(space), space.max # <<>>
    PROVE  /\ NatRows(space) \in Seq(Seq(NatSet(space)))
           /\ Len(NatRows(space)) = Len(space.max)
           /\ Len(space.max) > 0
           /\ \A I \in DOMAIN space.max :
                /\ Len(NatRows(space)[I]) = space.max[I] + 1
                /\ ToSet(NatRows(space)[I]) = [dim : {I}, value : 0 .. space.max[I]]
<1> DEFINE M == space.max
           N == Len(M)
           rows == NatRows(space)
           D == NatSet(space)
<1>1. M \in Seq(Nat) /\ N \in Nat /\ DOMAIN M = 1 .. N /\ N > 0
  BY DEF IsSpace
<1>2. D = {d \in [dim : DOMAIN M, value : Nat] : d.value <= M[d.dim]}
  BY DEF NatSet
<1>3. ASSUME NEW I \in DOMAIN M
      PROVE  /\ Len(rows[I]) = M[I] + 1
             /\ ToSet(rows[I]) = [dim : {I}, value : 0 .. M[I]]
             /\ rows[I] \in Seq(D)
  <2> DEFINE m == M[I]
             row == [v \in 1 .. m + 1 |-> [dim |-> I, value |-> v - 1]]
             E == [dim : {I}, value : 0 .. m]
  <2>1. rows[I] = row
    BY DEF NatRows
  <2>2. m \in Nat
    BY <1>1
  <2>3. E \subseteq D
    BY <1>2, <2>2
  <2> HIDE DEF m
  <2>4. Len(row) = m + 1 /\ row \in Seq(E) /\ ToSet(row) = E
    BY <2>2, NatRow
  <2> HIDE DEF row, D, E
  <2>5. row \in Seq(D)
    BY <2>3, <2>4
  <2> QED BY <2>1, <2>4, <2>5 DEF m, E
<1>4. rows = [I \in 1 .. N |-> rows[I]]
  BY <1>1 DEF NatRows
<1> HIDE DEF rows, D, N, M
<1>5. rows \in Seq(Seq(D)) /\ Len(rows) = N
  <2>1. \A I \in 1 .. N : rows[I] \in Seq(D)
    BY <1>1, <1>3
  <2> QED BY <1>1, <1>4, <2>1
<1> QED BY <1>1, <1>3, <1>5 DEF rows, D, N, M

(* The values of all natural dimensions.                                   *)
LEMMA NatValuesAre ==
    ASSUME NEW space, IsSpace(space)
    PROVE  /\ NatValues(space) \in Seq(NatSet(space))
           /\ ToSet(NatValues(space)) = NatSet(space)
           /\ Len(NatValues(space)) > 0
<1>1. CASE space.max = <<>>
  <2> DEFINE one == <<None>>
  <2>1. one \in Seq({None}) /\ Len(one) = 1 /\ DOMAIN one = {1} /\ one[1] = None
    OBVIOUS
  <2>2. NatValues(space) = one /\ NatSet(space) = {None}
    BY <1>1 DEF NatValues, NatSet
  <2> HIDE DEF one
  <2>3. ToSet(one) = {None}
    BY <2>1 DEF ToSet
  <2> QED BY <2>1, <2>2, <2>3
<1>2. CASE space.max # <<>>
  <2> DEFINE M == space.max
             rows == NatRows(space)
             D == NatSet(space)
  <2>1. NatValues(space) = FlattenSeq(rows)
    BY <1>2 DEF NatValues, NatRows
  <2>2. /\ rows \in Seq(Seq(D)) /\ Len(rows) = Len(M) /\ Len(M) > 0
        /\ \A I \in DOMAIN M : ToSet(rows[I]) = [dim : {I}, value : 0 .. M[I]]
    BY <1>2, NatRowsAre
  <2>3. M \in Seq(Nat) /\ Len(M) \in Nat /\ DOMAIN M = 1 .. Len(M)
    BY DEF IsSpace
  <2>4. D = {d \in [dim : DOMAIN M, value : Nat] : d.value <= M[d.dim]}
    BY <1>2 DEF NatSet
  <2> HIDE DEF rows, D
  <2>5. FlattenSeq(rows) \in Seq(D)
        /\ ToSet(FlattenSeq(rows)) = UNION {ToSet(rows[i]) : i \in 1 .. Len(rows)}
    BY <2>2, FlatElements
  <2>6. UNION {ToSet(rows[i]) : i \in 1 .. Len(rows)} = D
    <3>1. ASSUME NEW d \in D PROVE \E i \in 1 .. Len(rows) : d \in ToSet(rows[i])
      <4>1. d \in [dim : DOMAIN M, value : Nat] /\ d.value <= M[d.dim]
        BY <2>4
      <4>2. d.dim \in DOMAIN M /\ d.value \in 0 .. M[d.dim]
            /\ d = [dim |-> d.dim, value |-> d.value]
        BY <2>3, <4>1
      <4>3. d \in [dim : {d.dim}, value : 0 .. M[d.dim]]
        BY <4>2
      <4> QED BY <2>2, <2>3, <4>2, <4>3
    <3>2. ASSUME NEW i \in 1 .. Len(rows), NEW d \in ToSet(rows[i]) PROVE d \in D
      <4>1. i \in DOMAIN M /\ d \in [dim : {i}, value : 0 .. M[i]]
        BY <2>2, <2>3
      <4>2. M[i] \in Nat
        BY <2>3, <4>1
      <4>3. d.dim = i /\ d.value \in 0 .. M[i] /\ d \in [dim : DOMAIN M, value : Nat]
        BY <4>1, <4>2
      <4> QED BY <2>4, <4>2, <4>3
    <3> QED BY <3>1, <3>2
  <2>7. Len(FlattenSeq(rows)) > 0
    <3> DEFINE f == FlattenSeq(rows)
    <3>1. [dim |-> 1, value |-> 0] \in D
      <4>1. 1 \in DOMAIN M /\ M[1] \in Nat
        BY <2>2, <2>3
      <4> QED BY <2>4, <4>1
    <3> HIDE DEF f
    <3>2. f \in Seq(D) /\ [dim |-> 1, value |-> 0] \in ToSet(f)
      BY <2>5, <2>6, <3>1 DEF f
    <3>3. Len(f) \in Nat /\ DOMAIN f = 1 .. Len(f) /\ DOMAIN f # {}
      BY <3>2 DEF ToSet
    <3>4. Len(f) # 0
      BY <3>3
    <3> QED BY <3>3, <3>4 DEF f
  <2> QED BY <2>1, <2>5, <2>6, <2>7 DEF D
<1> QED BY <1>1, <1>2

(* The steps are all pairs of the values, as many as there are pairs.      *)
LEMMA StepsAll ==
    ASSUME NEW space, IsSpace(space)
    PROVE  /\ Steps(space) \in Seq(StepSet(space))
           /\ ToSet(Steps(space)) = StepSet(space)
           /\ Len(Steps(space)) = Len(NatValues(space)) * NumBin(space)
<1> DEFINE nat == NatValues(space)
           bin == BinValues(space)
           D == StepSet(space)
           row(n) == [b \in DOMAIN bin |-> [nat |-> nat[n], bin |-> bin[b]]]
           rows == [n \in DOMAIN nat |-> row(n)]
           N == Len(nat)
<1>1. /\ nat \in Seq(NatSet(space)) /\ ToSet(nat) = NatSet(space)
      /\ N > 0 /\ N \in Nat /\ DOMAIN nat = 1 .. N
  BY NatValuesAre
<1>2. /\ bin \in Seq(BinSet(space)) /\ ToSet(bin) = BinSet(space)
      /\ Len(bin) = NumBin(space) /\ Len(bin) \in Nat /\ DOMAIN bin = 1 .. Len(bin)
  BY BinValuesAre
<1>3. Steps(space) = FlattenSeq(rows)
  BY DEF Steps
<1>4. D = [nat : NatSet(space), bin : BinSet(space)]
  BY DEF StepSet
<1> HIDE DEF nat, bin, D
<1>5. ASSUME NEW n \in 1 .. N
      PROVE  /\ row(n) \in Seq(D) /\ Len(row(n)) = NumBin(space)
             /\ ToSet(row(n)) = [nat : {nat[n]}, bin : BinSet(space)]
  <2> DEFINE r == row(n)
  <2>1. nat[n] \in NatSet(space)
    BY <1>1
  <2>2. \A b \in 1 .. Len(bin) : bin[b] \in BinSet(space)
    BY <1>2
  <2>3. \A b \in 1 .. Len(bin) : r[b] = [nat |-> nat[n], bin |-> bin[b]] /\ r[b] \in D
    BY <1>2, <1>4, <2>1, <2>2
  <2>4. DOMAIN r = 1 .. Len(bin) /\ r = [b \in 1 .. Len(bin) |-> r[b]]
    BY <1>2
  <2> HIDE DEF r
  <2>5. r \in Seq(D) /\ Len(r) = Len(bin)
    BY <1>2, <2>3, <2>4
  <2>6. ToSet(r) = [nat : {nat[n]}, bin : BinSet(space)]
    <3>1. ASSUME NEW x \in ToSet(r) PROVE x \in [nat : {nat[n]}, bin : BinSet(space)]
      BY <2>2, <2>3, <2>4 DEF ToSet
    <3>2. ASSUME NEW x \in [nat : {nat[n]}, bin : BinSet(space)] PROVE x \in ToSet(r)
      <4>1. x = [nat |-> nat[n], bin |-> x.bin] /\ x.bin \in ToSet(bin)
        BY <1>2
      <4>2. PICK b \in 1 .. Len(bin) : x.bin = bin[b]
        BY <1>2, <4>1 DEF ToSet
      <4> QED BY <2>3, <2>4, <4>1, <4>2 DEF ToSet
    <3> QED BY <3>1, <3>2
  <2> QED BY <1>2, <2>5, <2>6 DEF r
<1>6. rows \in Seq(Seq(D)) /\ Len(rows) = N /\ \A n \in 1 .. N : rows[n] = row(n)
  <2>1. DOMAIN rows = 1 .. N /\ \A n \in 1 .. N : rows[n] = row(n)
    BY <1>1
  <2>2. rows = [n \in 1 .. N |-> rows[n]]
    BY <1>1
  <2> HIDE DEF rows, row, N
  <2>3. \A n \in 1 .. N : rows[n] \in Seq(D)
    BY <1>5, <2>1
  <2> QED BY <1>1, <2>1, <2>2, <2>3
<1> HIDE DEF rows, row
<1>7. FlattenSeq(rows) \in Seq(D)
      /\ ToSet(FlattenSeq(rows)) = UNION {ToSet(rows[n]) : n \in 1 .. Len(rows)}
  BY <1>1, <1>6, FlatElements
<1>8. UNION {ToSet(rows[n]) : n \in 1 .. Len(rows)} = D
  <2>1. ASSUME NEW x \in D PROVE \E n \in 1 .. N : x \in ToSet(row(n))
    <3>1. x = [nat |-> x.nat, bin |-> x.bin] /\ x.nat \in ToSet(nat) /\ x.bin \in BinSet(space)
      BY <1>1, <1>4
    <3>2. PICK n \in 1 .. N : x.nat = nat[n]
      BY <1>1, <3>1 DEF ToSet
    <3> QED BY <1>5, <3>1, <3>2
  <2>2. ASSUME NEW n \in 1 .. N, NEW x \in ToSet(row(n)) PROVE x \in D
    <3>1. nat[n] \in NatSet(space)
      BY <1>1
    <3>2. x \in [nat : {nat[n]}, bin : BinSet(space)]
      BY <1>5
    <3>3. x = [nat |-> nat[n], bin |-> x.bin] /\ x.bin \in BinSet(space)
      BY <3>2
    <3> QED BY <1>4, <3>1, <3>3
  <2> QED BY <1>6, <2>1, <2>2
<1>9. NumBin(space) \in Nat
  BY <1>2
<1>10. \A n \in 1 .. Len(rows) : Len(rows[n]) = NumBin(space)
  BY <1>5, <1>6
<1>11. Len(FlattenSeq(rows)) = Len(rows) * NumBin(space)
  BY <1>1, <1>6, <1>9, <1>10, FlatRows
<1> QED BY <1>3, <1>6, <1>7, <1>8, <1>11 DEF D, nat

-----------------------------------------------------------------------------
(* Weights of the natural dimensions, and products over them.              *)

(* W weighs sets of places by the sum of what a has at them.               *)
Weighs(W, a, n) ==
    /\ W \in [SUBSET (1 .. n) -> Nat]
    /\ W[{}] = 0
    /\ \A s \in SUBSET (1 .. n) : \A x \in s : W[s] = W[s \ {x}] + a[x]

(* Places other than the last.                                             *)
LEMMA PlacesBelow ==
    ASSUME NEW n \in Nat, NEW s \in SUBSET (1 .. n + 1)
    PROVE  /\ s \ {n + 1} \in SUBSET (1 .. n)
           /\ s \in SUBSET (1 .. n) <=> n + 1 \notin s
<1>1. \A x \in 1 .. n + 1 : x # n + 1 <=> x \in 1 .. n
  OBVIOUS
<1> QED BY <1>1

(* There are weights, whatever order they are summed in.                   *)
LEMMA WeightsExist ==
    ASSUME NEW N \in Nat, NEW a, \A i \in 1 .. N : a[i] \in Nat
    PROVE  \E W : Weighs(W, a, N)
<1> DEFINE T == {n \in Nat : n <= N => \E W : Weighs(W, a, n)}
<1>1. 0 \in T
  <2> DEFINE W == [s \in SUBSET (1 .. 0) |-> 0]
  <2>1. 1 .. 0 = {}
    OBVIOUS
  <2>2. W \in [SUBSET (1 .. 0) -> Nat] /\ W[{}] = 0
    OBVIOUS
  <2> HIDE DEF W
  <2>3. Weighs(W, a, 0)
    BY <2>1, <2>2 DEF Weighs
  <2> QED BY <2>3
<1>2. ASSUME NEW n \in Nat, n \in T PROVE n + 1 \in T
  <2> SUFFICES ASSUME n + 1 <= N PROVE \E W : Weighs(W, a, n + 1)
    OBVIOUS
  <2>1. PICK V : Weighs(V, a, n)
    BY <1>2
  <2> DEFINE b == a[n + 1]
             W == [s \in SUBSET (1 .. n + 1) |-> V[s \ {n + 1}] + (IF n + 1 \in s THEN b ELSE 0)]
  <2>2. b \in Nat
    OBVIOUS
  <2>3. ASSUME NEW s \in SUBSET (1 .. n + 1)
        PROVE  s \ {n + 1} \in SUBSET (1 .. n) /\ V[s \ {n + 1}] \in Nat
    BY <2>1, PlacesBelow DEF Weighs
  <2> HIDE DEF b
  <2>4. W \in [SUBSET (1 .. n + 1) -> Nat]
    <3>1. ASSUME NEW s \in SUBSET (1 .. n + 1)
          PROVE  V[s \ {n + 1}] + (IF n + 1 \in s THEN b ELSE 0) \in Nat
      BY <2>2, <2>3
    <3> QED BY <3>1
  <2>5. W[{}] = 0
    <3>1. {} \ {n + 1} = {} /\ {} \in SUBSET (1 .. n + 1)
      OBVIOUS
    <3>2. V[{}] = 0
      BY <2>1 DEF Weighs
    <3> QED BY <3>1, <3>2
  <2>6. ASSUME NEW s \in SUBSET (1 .. n + 1), NEW x \in s PROVE W[s] = W[s \ {x}] + a[x]
    <3>0. s \ {x} \in SUBSET (1 .. n + 1)
      OBVIOUS
    <3>1. CASE x = n + 1
      <4>1. W[s] = V[s \ {x}] + b
        BY <3>1
      <4>2. (s \ {x}) \ {n + 1} = s \ {x} /\ n + 1 \notin s \ {x}
        BY <3>1
      <4>3. W[s \ {x}] = V[s \ {x}] + 0
        BY <3>0, <4>2
      <4>4. V[s \ {x}] \in Nat
        BY <2>3, <3>1
      <4> HIDE DEF W
      <4> QED BY <2>2, <3>1, <4>1, <4>3, <4>4 DEF b
    <3>2. CASE x # n + 1
      <4> DEFINE c == IF n + 1 \in s THEN b ELSE 0
                 t == s \ {n + 1}
      <4>1. W[s] = V[t] + c
        OBVIOUS
      <4>2. (s \ {x}) \ {n + 1} = t \ {x} /\ (n + 1 \in s \ {x} <=> n + 1 \in s)
        BY <3>2
      <4>3. W[s \ {x}] = V[t \ {x}] + c
        BY <3>0, <4>2
      <4>4. V[t] = V[t \ {x}] + a[x]
        <5>1. t \in SUBSET (1 .. n) /\ x \in t
          BY <2>3, <3>2
        <5> HIDE DEF t
        <5> QED BY <2>1, <5>1 DEF Weighs
      <4>5. V[t \ {x}] \in Nat /\ a[x] \in Nat /\ c \in Nat
        <5>1. t \ {x} = (s \ {x}) \ {n + 1}
          OBVIOUS
        <5>2. x \in 1 .. N
          OBVIOUS
        <5> QED BY <2>2, <2>3, <3>0, <5>1, <5>2
      <4> HIDE DEF W, c, t
      <4> QED BY <4>1, <4>3, <4>4, <4>5
    <3> QED BY <3>1, <3>2
  <2> HIDE DEF W
  <2>7. Weighs(W, a, n + 1)
    BY <2>4, <2>5, <2>6 DEF Weighs
  <2> QED BY <2>7
<1>3. N \in T
  <2> HIDE DEF T
  <2> QED BY <1>1, <1>2, Counting
<1> QED BY <1>3

(* A flattened sequence is as long as its parts weigh.                     *)
LEMMA FlatWeighs ==
    ASSUME NEW S, NEW seqs \in Seq(Seq(S)), Len(seqs) > 0, NEW a, NEW W,
           \A i \in 1 .. Len(seqs) : a[i] = Len(seqs[i]),
           Weighs(W, a, Len(seqs))
    PROVE  Len(FlattenSeq(seqs)) = W[1 .. Len(seqs)]
<1> DEFINE N == Len(seqs)
<1>0. N \in Nat /\ N \in 1 .. N
  OBVIOUS
<1>1. PICK F : Joins(F, seqs, S) /\ FlattenSeq(seqs) = F[Len(seqs)]
  BY FlatJoins
<1> DEFINE T == {n \in Nat : n \in 1 .. N => Len(F[n]) = W[1 .. n]}
<1>2. 0 \in T
  OBVIOUS
<1>3. ASSUME NEW n \in Nat, n \in T PROVE n + 1 \in T
  <2> SUFFICES ASSUME n + 1 \in 1 .. N PROVE Len(F[n + 1]) = W[1 .. n + 1]
    OBVIOUS
  <2> DEFINE s == 1 .. n + 1
  <2>1. s \in SUBSET (1 .. N) /\ n + 1 \in s
    OBVIOUS
  <2>2. s \ {n + 1} = 1 .. n
    OBVIOUS
  <2>3. W[s] = W[s \ {n + 1}] + a[n + 1]
    <3> HIDE DEF s
    <3> QED BY <2>1 DEF Weighs
  <2>4. a[n + 1] = Len(seqs[n + 1])
    OBVIOUS
  <2>5. W[s] = W[1 .. n] + Len(seqs[n + 1])
    BY <2>2, <2>3, <2>4
  <2> HIDE DEF s
  <2>6. CASE n = 0
    <3>0. 1 \in 1 .. Len(seqs)
      OBVIOUS
    <3>1. F[1] = seqs[1]
      BY <1>1, <3>0 DEF Joins
    <3>2. 1 .. n = {} /\ W[{}] = 0
      BY <2>6 DEF Weighs
    <3>3. seqs[n + 1] \in Seq(S)
      OBVIOUS
    <3>4. Len(seqs[n + 1]) \in Nat /\ n + 1 = 1
      BY <2>6, <3>3
    <3> QED BY <2>5, <3>1, <3>2, <3>4 DEF s
  <2>7. CASE n # 0
    <3>1. F[n] \in Seq(S) /\ seqs[n + 1] \in Seq(S) /\ F[n + 1] = F[n] \o seqs[n + 1]
      BY <1>1, <2>7, JoinStep
    <3>2. Len(F[n] \o seqs[n + 1]) = Len(F[n]) + Len(seqs[n + 1])
      BY <3>1
    <3>3. Len(F[n]) = W[1 .. n]
      BY <1>3, <2>7
    <3> QED BY <2>5, <3>1, <3>2, <3>3 DEF s
  <2> QED BY <2>6, <2>7
<1>4. \A n \in Nat : n \in T
  <2> HIDE DEF T
  <2> QED BY <1>2, <1>3, Counting
<1> QED BY <1>0, <1>1, <1>4

(* g has the products of M, each plus one, over the subsets of S.          *)
AnyOf(s) == CHOOSE y \in s : TRUE
ProductAt(g, base, M, s) == IF s = {} THEN base ELSE (M[AnyOf(s)] + 1) * g[s \ {AnyOf(s)}]
IsProducts(g, base, M, S) == g = [s \in SUBSET S |-> ProductAt(g, base, M, s)]

(* A set without one of its elements.                                      *)
LEMMA Fewer ==
    ASSUME NEW S, IsFiniteSet(S), NEW s \in SUBSET S, s # {}
    PROVE  /\ AnyOf(s) \in s
           /\ Cardinality(s) \in Nat
           /\ Cardinality(s \ {AnyOf(s)}) \in Nat
           /\ Cardinality(s) = Cardinality(s \ {AnyOf(s)}) + 1
<1>1. AnyOf(s) \in s
  BY DEF AnyOf
<1>2. IsFiniteSet(s)
  BY FS_Subset
<1>3. Cardinality(s) \in Nat /\ IsFiniteSet(s \ {AnyOf(s)})
      /\ Cardinality(s \ {AnyOf(s)}) = Cardinality(s) - 1
  BY <1>1, <1>2, FS_CardinalityType, FS_RemoveElement
<1>4. Cardinality(s \ {AnyOf(s)}) \in Nat
  BY <1>3, FS_CardinalityType
<1> QED BY <1>1, <1>3, <1>4

(* The definition by recursion has a solution.                             *)
LEMMA ProductsExist ==
    ASSUME NEW S, IsFiniteSet(S), NEW base, NEW M
    PROVE  \E g : IsProducts(g, base, M, S)
<1> DEFINE Small(n) == {s \in SUBSET S : Cardinality(s) <= n}
           Right(g, n) == /\ g = [s \in SUBSET S |-> g[s]]
                          /\ \A s \in Small(n) : g[s] = ProductAt(g, base, M, s)
           T == {n \in Nat : \E g : Right(g, n)}
<1>0. \A s \in SUBSET S : Cardinality(s) \in Nat /\ (Cardinality(s) = 0 => s = {})
  BY FS_Subset, FS_CardinalityType, FS_EmptySet
<1>1. 0 \in T
  <2> DEFINE g == [s \in SUBSET S |-> base]
  <2>1. \A s \in Small(0) : s = {}
    BY <1>0
  <2>2. g = [s \in SUBSET S |-> g[s]]
    OBVIOUS
  <2>3. \A s \in Small(0) : g[s] = ProductAt(g, base, M, s)
    BY <2>1 DEF ProductAt
  <2> HIDE DEF g
  <2>4. Right(g, 0)
    BY <2>2, <2>3
  <2> HIDE DEF Right
  <2> QED BY <2>4
<1>2. ASSUME NEW n \in Nat, n \in T PROVE n + 1 \in T
  <2>1. PICK f : Right(f, n)
    BY <1>2
  <2> DEFINE g == [s \in SUBSET S |-> ProductAt(f, base, M, s)]
  <2>2. ASSUME NEW s \in Small(n + 1) PROVE g[s] = ProductAt(g, base, M, s)
    <3>1. CASE s = {}
      BY <3>1 DEF ProductAt
    <3>2. CASE s # {}
      <4> DEFINE t == s \ {AnyOf(s)}
      <4>1. t \in SUBSET S /\ Cardinality(t) \in Nat /\ Cardinality(t) <= n
        BY <2>2, <3>2, Fewer
      <4>2. f[t] = ProductAt(f, base, M, t)
        <5> HIDE DEF t, g
        <5> QED BY <2>1, <4>1
      <4>3. g[t] = f[t]
        BY <4>1, <4>2
      <4>4. g[s] = ProductAt(f, base, M, s)
        BY <2>2
      <4> HIDE DEF g
      <4> QED BY <3>2, <4>3, <4>4 DEF ProductAt
    <3> QED BY <3>1, <3>2
  <2>3. g = [s \in SUBSET S |-> g[s]]
    OBVIOUS
  <2> HIDE DEF g
  <2>4. Right(g, n + 1)
    BY <2>2, <2>3
  <2> HIDE DEF Right
  <2> QED BY <2>4
<1>3. Cardinality(S) \in T
  <2> HIDE DEF T
  <2>1. Cardinality(S) \in Nat
    BY FS_CardinalityType
  <2> QED BY <1>1, <1>2, <2>1, Counting
<1>4. PICK g : Right(g, Cardinality(S))
  BY <1>3
<1>5. \A s \in SUBSET S : Cardinality(s) <= Cardinality(S)
  BY FS_Subset
<1>6. \A s \in SUBSET S : g[s] = ProductAt(g, base, M, s)
  BY <1>4, <1>5
<1>7. g = [s \in SUBSET S |-> ProductAt(g, base, M, s)]
  BY <1>4, <1>6
<1> QED BY <1>7 DEF IsProducts

(* The number of patterns is the product at all dimensions.                *)
LEMMA PatternsProduct ==
    ASSUME NEW space, IsSpace(space)
    PROVE  \E g : /\ IsProducts(g, 2 ^ space.num_bin, space.max, DOMAIN space.max)
                  /\ numPatterns(space) = g[DOMAIN space.max]
<1> DEFINE S == DOMAIN space.max
           base == 2 ^ space.num_bin
           g == CHOOSE f : IsProducts(f, base, space.max, S)
<1>1. IsFiniteSet(S)
  <2>1. S = 1 .. Len(space.max) /\ Len(space.max) \in Nat
    BY DEF IsSpace
  <2> QED BY <2>1, FS_Interval
<1>2. IsProducts(g, base, space.max, S)
  <2> HIDE DEF S, base
  <2> QED BY <1>1, ProductsExist
<1>3. numPatterns(space) = g[S]
  BY DEF numPatterns, FoldSeq, FoldFunction, FoldFunctionOnSet, MapThenFoldSet, IsProducts,
         ProductAt, AnyOf
<1> QED BY <1>2, <1>3

-----------------------------------------------------------------------------
(* Products and powers.                                                    *)

(* A product of numbers above one is not below their sum.                  *)
LEMMA ProductOverSum ==
    ASSUME NEW w \in Nat, w >= 2, NEW x \in Nat, x >= 2, NEW b \in Nat, NEW g \in Nat, b * w <= g
    PROVE  b * (w + x) <= x * g
<1>1. w + x <= w * x
  <2>1. PICK u \in Nat : w = u + 2
    <3>1. w - 2 \in Nat /\ w = (w - 2) + 2
      OBVIOUS
    <3> QED BY <3>1
  <2>2. PICK v \in Nat : x = v + 2
    <3>1. x - 2 \in Nat /\ x = (x - 2) + 2
      OBVIOUS
    <3> QED BY <3>1
  <2>3. w * x = u * v + 2 * u + 2 * v + 4
    BY <2>1, <2>2
  <2>4. u * v \in Nat
    OBVIOUS
  <2> QED BY <2>1, <2>2, <2>3, <2>4
<1>2. b * (w + x) <= b * (w * x)
  <2> DEFINE p == w + x
             q == w * x
  <2>1. p \in Nat /\ q \in Nat /\ p <= q
    BY <1>1
  <2> HIDE DEF p, q
  <2>2. b * p <= b * q
    BY <2>1
  <2> QED BY <2>2 DEF p, q
<1>3. b * (w * x) = x * (b * w)
  OBVIOUS
<1>4. x * (b * w) <= x * g
  <2> DEFINE p == b * w
  <2>1. p \in Nat /\ p <= g
    OBVIOUS
  <2> HIDE DEF p
  <2>2. x * p <= x * g
    BY <2>1
  <2> QED BY <2>2 DEF p
<1>5. b * (w + x) \in Nat /\ b * (w * x) \in Nat /\ x * (b * w) \in Nat /\ x * g \in Nat
  OBVIOUS
<1> QED BY <1>2, <1>3, <1>4, <1>5

(* The product over a set is no less than what the set weighs.             *)
LEMMA ProductsBound ==
    ASSUME NEW n \in Nat, NEW M, \A i \in 1 .. n : M[i] \in Nat \ {0},
           NEW base \in Nat, NEW g, IsProducts(g, base, M, 1 .. n),
           NEW W, NEW a, \A i \in 1 .. n : a[i] = M[i] + 1, Weighs(W, a, n)
    PROVE  \A s \in SUBSET (1 .. n) : g[s] \in Nat /\ base * W[s] <= g[s]
<1> DEFINE S == 1 .. n
           Good(s) == g[s] \in Nat /\ base * W[s] <= g[s]
           T == {m \in Nat : \A s \in SUBSET S : Cardinality(s) = m => Good(s)}
<1>0. IsFiniteSet(S)
  BY FS_Interval
<1>1. \A s \in SUBSET S : Cardinality(s) \in Nat /\ (Cardinality(s) = 0 => s = {})
  BY <1>0, FS_Subset, FS_CardinalityType, FS_EmptySet
<1>2. \A s \in SUBSET S : g[s] = ProductAt(g, base, M, s)
  BY DEF IsProducts
<1>3. Good({})
  <2>1. g[{}] = base
    BY <1>2 DEF ProductAt
  <2>2. W[{}] = 0
    BY DEF Weighs
  <2> QED BY <2>1, <2>2
<1>4. 0 \in T
  BY <1>1, <1>3
<1>5. ASSUME NEW m \in Nat, m \in T PROVE m + 1 \in T
  <2> SUFFICES ASSUME NEW s \in SUBSET S, Cardinality(s) = m + 1 PROVE Good(s)
    OBVIOUS
  <2> DEFINE x == AnyOf(s)
             t == s \ {x}
  <2>1. s # {}
    <3>1. Cardinality({}) = 0
      BY FS_EmptySet
    <3>2. m + 1 # 0
      OBVIOUS
    <3> QED BY <3>1, <3>2
  <2>2. x \in s /\ Cardinality(t) = m /\ t \in SUBSET S
    <3> HIDE DEF S, T
    <3>1. x \in s /\ Cardinality(t) \in Nat /\ Cardinality(s) = Cardinality(t) + 1
      BY <1>0, <2>1, Fewer
    <3> QED BY <3>1
  <2>3. Good(t)
    BY <1>5, <2>2
  <2>4. g[s] = (M[x] + 1) * g[t]
    BY <1>2, <2>1 DEF ProductAt
  <2>5. a[x] = M[x] + 1 /\ a[x] \in Nat /\ a[x] >= 2
    <3>1. x \in 1 .. n
      BY <2>2
    <3> HIDE DEF x
    <3>2. a[x] = M[x] + 1 /\ M[x] \in Nat \ {0}
      BY <3>1
    <3> QED BY <3>2
  <2>6. W[s] = W[t] + a[x]
    BY <2>2 DEF Weighs
  <2>7. W[t] \in Nat
    BY <2>2 DEF Weighs
  <2>8. t = {} \/ W[t] >= 2
    <3> SUFFICES ASSUME t # {} PROVE W[t] >= 2
      OBVIOUS
    <3>1. PICK y : y \in t
      OBVIOUS
    <3>2. y \in S /\ t \ {y} \in SUBSET S
      BY <2>2, <3>1
    <3>3. W[t] = W[t \ {y}] + a[y] /\ W[t \ {y}] \in Nat
      BY <2>2, <3>1, <3>2 DEF Weighs
    <3>4. a[y] \in Nat /\ a[y] >= 2
      BY <3>2
    <3> QED BY <3>3, <3>4
  <2> HIDE DEF x, t, S
  <2>9. g[s] = a[x] * g[t] /\ g[t] \in Nat /\ base * W[t] <= g[t]
    BY <2>3, <2>4, <2>5
  <2>10. CASE t = {}
    <3>1. W[t] = 0 /\ g[t] = base
      <4>1. {} \in SUBSET S
        OBVIOUS
      <4> QED BY <1>2, <2>10, <4>1 DEF Weighs, ProductAt
    <3>2. W[s] = a[x] /\ g[s] = a[x] * base
      BY <2>5, <2>6, <2>9, <3>1
    <3>3. a[x] * base \in Nat /\ base * a[x] = a[x] * base
      BY <2>5
    <3> QED BY <3>2, <3>3
  <2>11. CASE t # {}
    <3>1. base * (W[t] + a[x]) <= a[x] * g[t]
      BY <2>5, <2>7, <2>8, <2>9, <2>11, ProductOverSum
    <3>2. a[x] * g[t] \in Nat
      BY <2>5, <2>9
    <3> QED BY <2>6, <2>9, <3>1, <3>2
  <2> QED BY <2>10, <2>11
<1>6. \A m \in Nat : m \in T
  <2> HIDE DEF T
  <2> QED BY <1>4, <1>5, Counting
<1> QED BY <1>1, <1>6

(* A power of two is the number of subsets.                                *)
LEMMA PowerCounts ==
    ASSUME NEW n \in Nat
    PROVE  /\ 2 ^ n \in Nat
           /\ IsFiniteSet(SUBSET (1 .. n))
           /\ Cardinality(SUBSET (1 .. n)) = 2 ^ n
<1>1. IsFiniteSet(1 .. n) /\ Cardinality(1 .. n) = n
  <2>1. IsFiniteSet(1 .. n)
        /\ Cardinality(1 .. n) = IF 1 > n THEN 0 ELSE n - 1 + 1
    BY FS_Interval
  <2> QED BY <2>1
<1>2. IsFiniteSet(SUBSET (1 .. n)) /\ Cardinality(SUBSET (1 .. n)) = 2 ^ Cardinality(1 .. n)
  BY <1>1, FS_SUBSET
<1>3. Cardinality(SUBSET (1 .. n)) \in Nat
  BY <1>2, FS_CardinalityType
<1> QED BY <1>1, <1>2, <1>3

(* The next power has room for two more, or one more after the first.      *)
LEMMA PowerGrows ==
    ASSUME NEW n \in Nat
    PROVE  /\ 2 ^ (n + 1) >= 2 ^ n + 1
           /\ n > 0 => 2 ^ (n + 1) >= 2 ^ n + 2
<1> DEFINE A == SUBSET (1 .. n)
           D == SUBSET (1 .. n + 1)
           x == {n + 1}
           y == {1, n + 1}
           A1 == A \cup {x}
           A2 == A1 \cup {y}
<1>1. /\ 2 ^ n \in Nat /\ IsFiniteSet(A) /\ Cardinality(A) = 2 ^ n
      /\ 2 ^ (n + 1) \in Nat /\ IsFiniteSet(D) /\ Cardinality(D) = 2 ^ (n + 1)
  <2>1. /\ 2 ^ n \in Nat /\ IsFiniteSet(A) /\ Cardinality(A) = 2 ^ n
    BY PowerCounts
  <2> DEFINE k == n + 1
  <2>2. k \in Nat
    OBVIOUS
  <2> HIDE DEF k
  <2>3. 2 ^ k \in Nat /\ IsFiniteSet(SUBSET (1 .. k)) /\ Cardinality(SUBSET (1 .. k)) = 2 ^ k
    BY <2>2, PowerCounts
  <2> QED BY <2>1, <2>3 DEF k
<1>2. x \notin A /\ y \notin A
  <2>1. n + 1 \notin 1 .. n
    OBVIOUS
  <2> QED BY <2>1
<1>3. A \subseteq D /\ x \in D /\ y \in D
  <2>1. \A k \in 1 .. n : k \in 1 .. n + 1
    OBVIOUS
  <2>2. n + 1 \in 1 .. n + 1 /\ 1 \in 1 .. n + 1
    OBVIOUS
  <2> QED BY <2>1, <2>2
<1>4. n > 0 => y # x
  <2>1. n > 0 => 1 # n + 1
    OBVIOUS
  <2> QED BY <2>1
<1> HIDE DEF A, D, x, y
<1>5. IsFiniteSet(A1) /\ Cardinality(A1) = Cardinality(A) + 1
  BY <1>1, <1>2, FS_AddElement
<1>6. y \notin A1 => IsFiniteSet(A2) /\ Cardinality(A2) = Cardinality(A1) + 1
  BY <1>5, FS_AddElement
<1>7. n > 0 => y \notin A1
  BY <1>2, <1>4
<1>8. A1 \subseteq D /\ A2 \subseteq D
  BY <1>3
<1> HIDE DEF A1, A2
<1>9. Cardinality(A1) <= Cardinality(D) /\ Cardinality(A2) <= Cardinality(D)
  BY <1>1, <1>8, FS_Subset
<1>10. 2 ^ n + 1 <= 2 ^ (n + 1)
  BY <1>1, <1>5, <1>9
<1>11. n > 0 => (2 ^ n + 1) + 1 <= 2 ^ (n + 1)
  BY <1>1, <1>5, <1>6, <1>7, <1>9
<1> QED BY <1>1, <1>10, <1>11

(* A power of two is no less than twice its exponent.                      *)
LEMMA PowerOfTwo ==
    ASSUME NEW n \in Nat
    PROVE  2 ^ n \in Nat /\ (n = 0 => 2 ^ n = 1) /\ (n = 1 => 2 ^ n = 2) /\ 2 * n <= 2 ^ n
<1>0. 2 ^ 0 = 1 /\ 2 ^ 1 = 2
  OBVIOUS
<1>1. 2 ^ n \in Nat
  BY PowerCounts
<1> DEFINE T == {m \in Nat : 2 * (m + 1) <= 2 ^ (m + 1)}
<1>2. 0 \in T
  <2>1. 0 + 1 = 1
    OBVIOUS
  <2> QED BY <1>0, <2>1
<1>3. ASSUME NEW m \in Nat, m \in T PROVE m + 1 \in T
  <2> DEFINE k == m + 1
  <2>1. k \in Nat /\ k > 0
    OBVIOUS
  <2>2. 2 * k <= 2 ^ k
    BY <1>3
  <2> HIDE DEF k
  <2>3. 2 ^ (k + 1) >= 2 ^ k + 2 /\ 2 ^ k \in Nat /\ 2 ^ (k + 1) \in Nat
    <3>1. k + 1 \in Nat
      BY <2>1
    <3> QED BY <2>1, <3>1, PowerGrows, PowerCounts
  <2>4. 2 * (k + 1) <= 2 ^ (k + 1)
    BY <2>1, <2>2, <2>3
  <2> QED BY <2>1, <2>4 DEF k
<1>4. \A m \in Nat : m \in T
  <2> HIDE DEF T
  <2> QED BY <1>2, <1>3, Counting
<1>5. 2 * n <= 2 ^ n
  <2>1. CASE n = 0
    BY <1>0, <2>1
  <2>2. CASE n # 0
    <3>1. n - 1 \in Nat /\ (n - 1) + 1 = n
      BY <2>2
    <3>2. 2 * ((n - 1) + 1) <= 2 ^ ((n - 1) + 1)
      BY <1>4, <3>1
    <3> QED BY <3>1, <3>2
  <2> QED BY <2>1, <2>2
<1> QED BY <1>0, <1>1, <1>5

-----------------------------------------------------------------------------
(* The points of a space, and the coordinates that a step sets.            *)

Dimensioned(space) == space.num_bin \in Nat /\ space.max \in Seq(Nat \ {0})

PointsOf(space) ==
    [space : {space}, cont : {"zero", "none"}, bin : SUBSET (0 .. space.num_bin - 1),
     nat : [DOMAIN space.max -> Nat]]

(* Maxima above zero are maxima.                                           *)
LEMMA DimensionedIsSpace == ASSUME NEW space, Dimensioned(space) PROVE IsSpace(space)
<1>1. space.max \in Seq(Nat)
  BY DEF Dimensioned
<1> QED BY <1>1 DEF Dimensioned, IsSpace

(* A new point is one of its space.                                        *)
LEMMA NewPointThere == ASSUME NEW space PROVE NewPoint(space) \in PointsOf(space)
<1> DEFINE c == IF space.num_cont > 0 THEN "zero" ELSE "none"
           f == [I \in DOMAIN space.max |-> 0]
<1>1. c \in {"zero", "none"} /\ f \in [DOMAIN space.max -> Nat]
  OBVIOUS
<1>2. {} \in SUBSET (0 .. space.num_bin - 1)
  OBVIOUS
<1>3. NewPoint(space) = [space |-> space, cont |-> c, bin |-> {}, nat |-> f]
  BY DEF NewPoint
<1> HIDE DEF c, f
<1> QED BY <1>1, <1>2, <1>3 DEF PointsOf

(* A step keeps a point in its space, and sets one coordinate of each      *)
(* kind.                                                                   *)
LEMMA NatStays ==
    ASSUME NEW space, IsSpace(space), NEW p \in PointsOf(space), NEW d \in NatSet(space)
    PROVE  /\ WithNat(p, d) \in PointsOf(space)
           /\ WithNat(p, d).bin = p.bin
           /\ space.max # <<>> => WithNat(p, d).nat = [p.nat EXCEPT ![d.dim] = d.value]
<1>1. /\ p = [space |-> space, cont |-> p.cont, bin |-> p.bin, nat |-> p.nat]
      /\ p.cont \in {"zero", "none"} /\ p.bin \in SUBSET (0 .. space.num_bin - 1)
      /\ p.nat \in [DOMAIN space.max -> Nat]
  BY DEF PointsOf
<1>2. CASE space.max = <<>>
  <2>1. WithNat(p, d) = p
    BY <1>2 DEF WithNat, NatSet
  <2> QED BY <1>2, <2>1
<1>3. CASE space.max # <<>>
  <2>1. d.dim \in DOMAIN space.max /\ d.value \in Nat
    BY <1>3 DEF NatSet
  <2>2. d # None
    <3>1. DOMAIN space.max = 1 .. Len(space.max) /\ Len(space.max) \in Nat
      BY DEF IsSpace
    <3>2. d.dim # -1
      BY <2>1, <3>1
    <3> QED BY <3>2 DEF None
  <2> DEFINE f == [p.nat EXCEPT ![d.dim] = d.value]
  <2>3. WithNat(p, d) = [p EXCEPT !.nat = f]
    BY <1>1, <2>2 DEF WithNat
  <2>4. f \in [DOMAIN space.max -> Nat]
    BY <1>1, <2>1
  <2> HIDE DEF f
  <2>5. [p EXCEPT !.nat = f] = [space |-> space, cont |-> p.cont, bin |-> p.bin, nat |-> f]
    BY <1>1
  <2>6. WithNat(p, d) \in PointsOf(space)
    BY <1>1, <2>3, <2>4, <2>5 DEF PointsOf
  <2> QED BY <2>3, <2>5, <2>6 DEF f
<1> QED BY <1>2, <1>3

SetOrNot(bin, d) == IF d.value = 0 THEN bin \ {d.dim} ELSE bin \cup {d.dim}

(* The same of a binary dimension.                                         *)
LEMMA BinStays ==
    ASSUME NEW space, IsSpace(space), NEW p \in PointsOf(space), NEW d \in BinSet(space)
    PROVE  /\ WithBin(p, d) \in PointsOf(space)
           /\ WithBin(p, d).nat = p.nat
           /\ space.num_bin # 0 => WithBin(p, d).bin = SetOrNot(p.bin, d)
<1>1. /\ p = [space |-> space, cont |-> p.cont, bin |-> p.bin, nat |-> p.nat]
      /\ p.cont \in {"zero", "none"} /\ p.bin \in SUBSET (0 .. space.num_bin - 1)
      /\ p.nat \in [DOMAIN space.max -> Nat]
  BY DEF PointsOf
<1>2. CASE space.num_bin = 0
  <2>1. WithBin(p, d) = p
    BY <1>2 DEF WithBin, BinSet
  <2> QED BY <1>2, <2>1
<1>3. CASE space.num_bin # 0
  <2>1. d.dim \in 0 .. space.num_bin - 1
    BY <1>3 DEF BinSet
  <2>2. d # None
    <3>1. d.dim # -1
      BY <2>1
    <3> QED BY <3>1 DEF None
  <2> DEFINE b == SetOrNot(p.bin, d)
  <2>3. WithBin(p, d) = [p EXCEPT !.bin = b]
    BY <1>1, <2>2 DEF WithBin, SetOrNot
  <2>4. b \in SUBSET (0 .. space.num_bin - 1)
    BY <1>1, <2>1 DEF SetOrNot
  <2> HIDE DEF b
  <2>5. [p EXCEPT !.bin = b] = [space |-> space, cont |-> p.cont, bin |-> b, nat |-> p.nat]
    BY <1>1
  <2>6. WithBin(p, d) \in PointsOf(space)
    BY <1>1, <2>3, <2>4, <2>5 DEF PointsOf
  <2> QED BY <2>3, <2>5, <2>6 DEF b
<1> QED BY <1>2, <1>3

(* A step keeps a point in its space.                                      *)
LEMMA MovedStays ==
    ASSUME NEW space, IsSpace(space), NEW p \in PointsOf(space), NEW step \in StepSet(space)
    PROVE  Moved(p, step) \in PointsOf(space)
<1>1. step.nat \in NatSet(space) /\ step.bin \in BinSet(space)
  BY DEF StepSet
<1>2. WithNat(p, step.nat) \in PointsOf(space)
  BY <1>1, NatStays
<1> QED BY <1>1, <1>2, BinStays DEF Moved

(* With at most one dimension of each kind a step sets all coordinates.    *)
Simple(space) == space.num_bin \in {0, 1} /\ Len(space.max) <= 1

CoordsOf(space, step) ==
    [bin |-> IF step.bin.value = 0 THEN {} ELSE {0},
     nat |-> [I \in DOMAIN space.max |-> step.nat.value]]

(* A sequence of one number.                                               *)
LEMMA OneLong ==
    ASSUME NEW M \in Seq(Nat), Len(M) = 1
    PROVE  DOMAIN M = {1} /\ M[1] \in Nat
<1>1. DOMAIN M = 1 .. Len(M)
  OBVIOUS
<1>2. 1 .. 1 = {1}
  OBVIOUS
<1>3. DOMAIN M = {1}
  BY <1>1, <1>2
<1>4. M \in [1 .. Len(M) -> Nat]
  OBVIOUS
<1>5. M[1] \in Nat
  BY <1>2, <1>4
<1> QED BY <1>3, <1>5

(* The maximum of the one natural dimension.                               *)
LEMMA OneNatural ==
    ASSUME NEW space, IsSpace(space), Simple(space), space.max # <<>>
    PROVE  Len(space.max) = 1 /\ DOMAIN space.max = {1} /\ space.max[1] \in Nat
<1> DEFINE M == space.max
<1>1. M \in Seq(Nat) /\ Len(M) \in Nat /\ Len(M) <= 1 /\ M # <<>>
  BY DEF IsSpace, Simple
<1> HIDE DEF M
<1>2. Len(M) # 0
  BY <1>1
<1>3. Len(M) = 1
  <2> DEFINE n == Len(M)
  <2>1. n \in Nat /\ n <= 1 /\ n # 0
    BY <1>1, <1>2
  <2> HIDE DEF n
  <2>2. n = 1
    BY <2>1
  <2> QED BY <2>2 DEF n
<1>4. DOMAIN M = {1} /\ M[1] \in Nat
  BY <1>1, <1>3, OneLong
<1> QED BY <1>3, <1>4 DEF M

(* The coordinates after a step are those of the step.                     *)
LEMMA StepSetsAll ==
    ASSUME NEW space, IsSpace(space), Simple(space), NEW p \in PointsOf(space),
           NEW step \in StepSet(space)
    PROVE  [bin |-> Moved(p, step).bin, nat |-> Moved(p, step).nat] = CoordsOf(space, step)
<1> DEFINE q == WithNat(p, step.nat)
           n == step.nat
           b == step.bin
           M == space.max
<1>1. n \in NatSet(space) /\ b \in BinSet(space)
  BY DEF StepSet
<1>2. q \in PointsOf(space) /\ (M # <<>> => q.nat = [p.nat EXCEPT ![n.dim] = n.value])
  BY <1>1, NatStays
<1>3. Moved(p, step) = WithBin(q, b)
  BY DEF Moved
<1>4. p.nat \in [DOMAIN M -> Nat] /\ q.nat \in [DOMAIN M -> Nat]
  BY <1>2 DEF PointsOf
<1> HIDE DEF q, n, b
<1>5. /\ Moved(p, step).nat = q.nat
      /\ space.num_bin # 0 => Moved(p, step).bin = SetOrNot(q.bin, b)
      /\ Moved(p, step) \in PointsOf(space)
  <2>1. WithBin(q, b) \in PointsOf(space) /\ WithBin(q, b).nat = q.nat
    BY <1>1, <1>2, BinStays
  <2>2. space.num_bin # 0 => WithBin(q, b).bin = SetOrNot(q.bin, b)
    BY <1>1, <1>2, BinStays
  <2> QED BY <1>3, <2>1, <2>2
<1>6. Moved(p, step).bin = IF b.value = 0 THEN {} ELSE {0}
  <2>1. CASE space.num_bin = 0
    <3>1. b = None
      BY <1>1, <2>1 DEF BinSet
    <3>2. Moved(p, step).bin \in SUBSET (0 .. 0 - 1)
      BY <1>5, <2>1 DEF PointsOf
    <3>3. 0 .. 0 - 1 = {}
      OBVIOUS
    <3> QED BY <3>1, <3>2, <3>3 DEF None
  <2>2. CASE space.num_bin = 1
    <3>1. 0 .. 1 - 1 = {0}
      OBVIOUS
    <3>2. b.dim \in 0 .. 1 - 1 /\ q.bin \in SUBSET (0 .. 1 - 1)
      BY <1>1, <1>2, <2>2 DEF BinSet, PointsOf
    <3>3. b.dim = 0 /\ q.bin \subseteq {0}
      BY <3>1, <3>2
    <3>4. Moved(p, step).bin = IF b.value = 0 THEN q.bin \ {b.dim} ELSE q.bin \cup {b.dim}
      BY <1>5, <2>2 DEF SetOrNot
    <3> QED BY <3>3, <3>4
  <2> QED BY <2>1, <2>2 DEF Simple
<1>7. q.nat = [I \in DOMAIN M |-> n.value]
  <2>0. M \in Seq(Nat) /\ Len(M) \in Nat /\ DOMAIN M = 1 .. Len(M)
    BY DEF IsSpace
  <2>1. CASE M = <<>>
    <3>1. DOMAIN M = {}
      BY <2>1
    <3> QED BY <1>4, <3>1
  <2>2. CASE M # <<>>
    <3>2. DOMAIN M = {1}
      BY <2>2, OneNatural
    <3>3. n.dim \in DOMAIN M
      BY <1>1, <2>2 DEF NatSet
    <3>4. q.nat = [p.nat EXCEPT ![1] = n.value]
      BY <1>2, <2>2, <3>2, <3>3
    <3> QED BY <1>4, <3>2, <3>4
  <2> QED BY <2>1, <2>2
<1> QED BY <1>5, <1>6, <1>7 DEF CoordsOf, n, b

(* The bound of the natural coordinates in Patterns.                       *)
LEMMA OneSum ==
    ASSUME NEW M \in Seq(Nat), Len(M) = 1
    PROVE  FoldSeq(LAMBDA a, b : a + b, 0, M) = M[1]
<1> DEFINE value(g, s) == IF s = {} THEN 0 ELSE M[AnyOf(s)] + g[s \ {AnyOf(s)}]
           IsIt(g) == g = [s \in SUBSET DOMAIN M |-> value(g, s)]
           sum == CHOOSE g : IsIt(g)
           one == [s \in SUBSET {1} |-> IF s = {} THEN 0 ELSE M[1]]
<1>1. DOMAIN M = {1} /\ M[1] \in Nat
  BY OneLong
<1>2. FoldSeq(LAMBDA a, b : a + b, 0, M) = sum[DOMAIN M]
  BY DEF FoldSeq, FoldFunction, FoldFunctionOnSet, MapThenFoldSet, AnyOf
<1>3. ASSUME NEW s \in SUBSET {1}, s # {}
      PROVE  AnyOf(s) = 1 /\ s \ {AnyOf(s)} = {} /\ s = {1}
  <2>1. AnyOf(s) \in s
    BY <1>3 DEF AnyOf
  <2> QED BY <2>1
<1>4. ASSUME NEW s \in SUBSET {1} PROVE one[s] = value(one, s)
  <2>1. CASE s = {}
    BY <2>1
  <2>2. CASE s # {}
    <3>1. one[{}] = 0 /\ one[s] = M[1]
      BY <2>2
    <3> HIDE DEF one
    <3>2. value(one, s) = M[1] + 0
      BY <1>3, <2>2, <3>1
    <3> QED BY <1>1, <3>1, <3>2
  <2> QED BY <2>1, <2>2
<1>5. IsIt(one)
  <2>1. one = [s \in SUBSET DOMAIN M |-> one[s]]
    BY <1>1
  <2> HIDE DEF one, value
  <2> QED BY <1>1, <1>4, <2>1
<1>6. IsIt(sum)
  <2> HIDE DEF IsIt
  <2> QED BY <1>5
<1>7. sum[{1}] = M[1]
  <2> HIDE DEF sum
  <2>1. ASSUME NEW s \in SUBSET {1} PROVE sum[s] = value(sum, s)
    <3> HIDE DEF value
    <3> QED BY <1>1, <1>6
  <2>2. sum[{}] = 0
    BY <2>1
  <2>3. sum[{1}] = M[1] + sum[{}]
    BY <1>3, <2>1
  <2> QED BY <1>1, <2>2, <2>3
<1> QED BY <1>1, <1>2, <1>7

(* With at most one dimension of each kind the steps set every pattern.    *)
LEMMA PatternsAre ==
    ASSUME NEW space, IsSpace(space), Simple(space)
    PROVE  Patterns(space) = {CoordsOf(space, step) : step \in StepSet(space)}
<1> DEFINE M == space.max
           top == FoldSeq(LAMBDA a, b : a + b, 0, M)
           bins == SUBSET (0 .. space.num_bin - 1)
           nats == {f \in [DOMAIN M -> 0 .. top] : \A I \in DOMAIN f : f[I] <= M[I]}
           bin(d) == IF d.value = 0 THEN {} ELSE {0}
           nat(d) == [I \in DOMAIN M |-> d.value]
<1>0. M \in Seq(Nat) /\ Len(M) \in Nat /\ DOMAIN M = 1 .. Len(M)
  BY DEF IsSpace
<1>1. Patterns(space) = [bin : bins, nat : nats]
  BY DEF Patterns
<1>2. bins = {bin(d) : d \in BinSet(space)}
  <2>1. CASE space.num_bin = 0
    <3>1. bins = {{}}
      BY <2>1
    <3>2. BinSet(space) = {None} /\ bin(None) = {}
      BY <2>1 DEF BinSet, None
    <3> QED BY <3>1, <3>2
  <2>2. CASE space.num_bin = 1
    <3>1. bins = {{}, {0}}
      <4>1. 0 .. 1 - 1 = {0}
        OBVIOUS
      <4> QED BY <2>2, <4>1
    <3> DEFINE zero == [dim |-> 0, value |-> 0]
               one == [dim |-> 0, value |-> 1]
    <3>2. zero \in BinSet(space) /\ one \in BinSet(space)
      BY <2>2 DEF BinSet
    <3>3. bin(zero) = {} /\ bin(one) = {0}
      OBVIOUS
    <3> HIDE DEF zero, one
    <3>4. \A d \in BinSet(space) : bin(d) \in {{}, {0}}
      OBVIOUS
    <3> HIDE DEF bin, bins
    <3> QED BY <3>1, <3>2, <3>3, <3>4
  <2> QED BY <2>1, <2>2 DEF Simple
<1>3. nats = {nat(d) : d \in NatSet(space)}
  <2>1. CASE M = <<>>
    <3>1. DOMAIN M = {} /\ NatSet(space) = {None}
      BY <2>1 DEF NatSet
    <3> DEFINE none == [I \in {} |-> 0]
    <3>2. nats = {none}
      BY <3>1
    <3>3. nat(None) = none
      BY <3>1
    <3> HIDE DEF none, nat, nats
    <3> QED BY <3>1, <3>2, <3>3
  <2>2. CASE M # <<>>
    <3>1. Len(M) = 1 /\ DOMAIN M = {1} /\ M[1] \in Nat
      BY <2>2, OneNatural
    <3>2. top = M[1]
      BY <1>0, <3>1, OneSum
    <3> HIDE DEF top
    <3>3. ASSUME NEW f \in nats PROVE \E d \in NatSet(space) : f = nat(d)
      <4> DEFINE d == [dim |-> 1, value |-> f[1]]
      <4>1. f \in [{1} -> 0 .. M[1]]
        BY <3>1, <3>2
      <4>2. d \in NatSet(space)
        BY <2>2, <3>1, <4>1 DEF NatSet
      <4>3. f = [I \in {1} |-> f[1]] /\ d.value = f[1]
        BY <4>1
      <4>4. f = nat(d)
        BY <3>1, <4>3
      <4> QED BY <4>2, <4>4
    <3>4. ASSUME NEW d \in NatSet(space) PROVE nat(d) \in nats
      <4>1. d.dim = 1 /\ d.value \in Nat /\ d.value <= M[1]
        BY <2>2, <3>1 DEF NatSet
      <4>2. d.value \in 0 .. M[1]
        BY <3>1, <4>1
      <4>3. nat(d) \in [DOMAIN M -> 0 .. top]
        BY <3>2, <4>2
      <4>4. DOMAIN nat(d) = {1} /\ nat(d)[1] = d.value
        BY <3>1
      <4> HIDE DEF nat
      <4> QED BY <4>1, <4>3, <4>4
    <3> HIDE DEF nats, nat
    <3> QED BY <3>3, <3>4
  <2> QED BY <2>1, <2>2
<1>4. \A step \in StepSet(space) :
        CoordsOf(space, step) = [bin |-> bin(step.bin), nat |-> nat(step.nat)]
  BY DEF CoordsOf
<1> HIDE DEF bin, nat, bins, nats
<1>5. ASSUME NEW x \in [bin : bins, nat : nats]
      PROVE  \E step \in StepSet(space) : x = CoordsOf(space, step)
  <2>1. x = [bin |-> x.bin, nat |-> x.nat] /\ x.bin \in bins /\ x.nat \in nats
    OBVIOUS
  <2>2. PICK b \in BinSet(space) : x.bin = bin(b)
    BY <1>2, <2>1
  <2>3. PICK n \in NatSet(space) : x.nat = nat(n)
    BY <1>3, <2>1
  <2> DEFINE step == [nat |-> n, bin |-> b]
  <2>4. step \in StepSet(space) /\ step.bin = b /\ step.nat = n
    BY DEF StepSet
  <2> HIDE DEF step
  <2>5. x = CoordsOf(space, step)
    BY <1>4, <2>1, <2>2, <2>3, <2>4
  <2> QED BY <2>4, <2>5
<1>6. ASSUME NEW step \in StepSet(space) PROVE CoordsOf(space, step) \in [bin : bins, nat : nats]
  <2>1. step.bin \in BinSet(space) /\ step.nat \in NatSet(space)
    BY DEF StepSet
  <2>2. bin(step.bin) \in bins /\ nat(step.nat) \in nats
    BY <1>2, <1>3, <2>1
  <2> QED BY <1>4, <2>2
<1> QED BY <1>1, <1>5, <1>6

-----------------------------------------------------------------------------
(* What MaxKl sums.                                                        *)

(* The loop over the natural dimensions is as long as they weigh, and the  *)
(* prior has an entry for each combination.                                *)
LEMMA StepsFit ==
    ASSUME NEW space, Dimensioned(space)
    PROVE  /\ Len(Steps(space)) \in Nat /\ Len(Steps(space)) > 0
           /\ Len(Steps(space)) <= numPatterns(space)
           /\ Simple(space) => Len(Steps(space)) = numPatterns(space)
<1> DEFINE M == space.max
           N == Len(M)
           B == space.num_bin
           L == Len(NatValues(space))
           base == 2 ^ B
<1>0. IsSpace(space) /\ B \in Nat /\ M \in Seq(Nat \ {0}) /\ M \in Seq(Nat)
  BY DimensionedIsSpace DEF Dimensioned, IsSpace
<1>1. N \in Nat /\ DOMAIN M = 1 .. N /\ \A i \in 1 .. N : M[i] \in Nat \ {0}
  BY <1>0
<1>2. Len(Steps(space)) = L * NumBin(space) /\ L \in Nat /\ L > 0
  BY <1>0, StepsAll, NatValuesAre
<1>3. base \in Nat /\ NumBin(space) \in Nat /\ NumBin(space) > 0 /\ NumBin(space) <= base
      /\ (B \in {0, 1} => base = NumBin(space))
  <2> HIDE DEF M, N, L
  <2>1. base \in Nat /\ (B = 0 => base = 1) /\ (B = 1 => base = 2) /\ 2 * B <= base
    BY <1>0, PowerOfTwo
  <2> HIDE DEF base
  <2>2. NumBin(space) = IF B = 0 THEN 1 ELSE 2 * B
    BY DEF NumBin
  <2> HIDE DEF B
  <2> QED BY <1>0, <2>1, <2>2
<1>4. PICK g : IsProducts(g, base, M, DOMAIN M) /\ numPatterns(space) = g[DOMAIN M]
  BY <1>0, PatternsProduct
<1>5. g[{}] = base
  <2>1. {} \in SUBSET DOMAIN M
    OBVIOUS
  <2> HIDE DEF base, M
  <2> QED BY <1>4, <2>1 DEF IsProducts, ProductAt
<1>6. base * L <= numPatterns(space) /\ numPatterns(space) \in Nat
      /\ (Simple(space) => base * L = numPatterns(space))
  <2>1. CASE M = <<>>
    <3>1. DOMAIN M = {}
      BY <2>1
    <3>2. L = 1
      BY <2>1 DEF NatValues
    <3> HIDE DEF base, M, L
    <3> QED BY <1>3, <1>4, <1>5, <3>1, <3>2
  <2>2. CASE M # <<>>
    <3> DEFINE a == [i \in 1 .. N |-> M[i] + 1]
               rows == NatRows(space)
    <3>1. \A i \in 1 .. N : a[i] = M[i] + 1 /\ a[i] \in Nat
      BY <1>1
    <3>2. PICK W : Weighs(W, a, N)
      <4> HIDE DEF a, M, N
      <4> QED BY <1>1, <3>1, WeightsExist
    <3>3. /\ rows \in Seq(Seq(NatSet(space))) /\ Len(rows) = N /\ N > 0
          /\ \A i \in 1 .. N : Len(rows[i]) = M[i] + 1
      BY <1>0, <1>1, <2>2, NatRowsAre
    <3>4. L = Len(FlattenSeq(rows))
      BY <2>2 DEF NatValues, NatRows
    <3> HIDE DEF a, M, N, rows, L, base, B
    <3>5. L = W[1 .. N]
      BY <3>1, <3>2, <3>3, <3>4, FlatWeighs
    <3>6. \A s \in SUBSET (1 .. N) : g[s] \in Nat /\ base * W[s] <= g[s]
      BY <1>1, <1>3, <1>4, <3>1, <3>2, ProductsBound
    <3>7. base * L <= numPatterns(space) /\ numPatterns(space) \in Nat
      BY <1>1, <1>4, <3>5, <3>6
    <3>8. ASSUME Simple(space) PROVE base * L = numPatterns(space)
      <4>1. N = 1 /\ DOMAIN M = {1} /\ M[1] \in Nat
        BY <1>0, <2>2, <3>8, OneNatural DEF M, N
      <4>2. AnyOf({1}) = 1 /\ {1} \ {1} = {}
        BY DEF AnyOf
      <4>3. g[{1}] = (M[1] + 1) * g[{}]
        <5>1. g[{1}] = ProductAt(g, base, M, {1})
          BY <1>4, <4>1 DEF IsProducts
        <5> QED BY <4>2, <5>1 DEF ProductAt
      <4>4. W[{1}] = W[{}] + a[1] /\ W[{}] = 0
        <5>1. 1 .. N = {1} /\ 1 \in {1} /\ {1} \in SUBSET (1 .. N)
          BY <4>1
        <5>2. W[{1}] = W[{1} \ {1}] + a[1] /\ W[{}] = 0
          BY <3>2, <5>1 DEF Weighs
        <5> QED BY <4>2, <5>2
      <4>5. L = M[1] + 1
        <5>1. 1 .. N = {1} /\ 1 \in 1 .. N
          BY <4>1
        <5> QED BY <3>1, <3>5, <4>1, <4>4, <5>1
      <4>6. numPatterns(space) = (M[1] + 1) * base
        BY <1>4, <1>5, <4>1, <4>3
      <4> QED BY <1>3, <4>1, <4>5, <4>6
    <3> QED BY <3>7, <3>8
  <2> QED BY <2>1, <2>2
<1> HIDE DEF L, base, B
<1>7. L * NumBin(space) <= base * L /\ L * NumBin(space) \in Nat /\ base * L \in Nat
      /\ L * NumBin(space) > 0
  <2> DEFINE n == NumBin(space)
  <2>1. n \in Nat /\ n > 0 /\ n <= base /\ base \in Nat /\ L \in Nat /\ L > 0
    BY <1>2, <1>3
  <2> HIDE DEF n
  <2>2. n * L <= base * L
    BY <2>1
  <2>3. L * n = n * L /\ L * n > 0
    BY <2>1
  <2> QED BY <2>1, <2>2, <2>3 DEF n
<1>8. Simple(space) => L * NumBin(space) = base * L
  BY <1>2, <1>3 DEF Simple, B
<1> QED BY <1>2, <1>6, <1>7, <1>8

(* A sum that begins from any point of the space.                          *)
LEMMA SumOfPatterns ==
    ASSUME NEW space, Dimensioned(space), NEW p \in PointsOf(space)
    PROVE  LET summed == SummedFrom(p)
           IN  /\ summed[Len(summed)] \in PointsOf(space)
               /\ Len(summed) <= numPatterns(space)
               /\ Simple(space) =>
                    /\ Len(summed) = numPatterns(space)
                    /\ {[bin |-> x.bin, nat |-> x.nat] : x \in ToSet(summed)} = Patterns(space)
<1> DEFINE Q == Steps(space)
           D == StepSet(space)
           P == PointsOf(space)
           summed == SummedFrom(p)
           N == Len(Q)
<1>0. IsSpace(space)
  BY DimensionedIsSpace
<1>1. Q \in Seq(D) /\ ToSet(Q) = D
  BY <1>0, StepsAll
<1>2. \A x \in P, step \in D : Moved(x, step) \in P
  BY <1>0, MovedStays
<1>3. Steps(p.space) = Q
  BY DEF PointsOf
<1>4. N \in Nat /\ N > 0 /\ N <= numPatterns(space)
      /\ (Simple(space) => N = numPatterns(space))
  BY StepsFit
<1> SUFFICES /\ summed[Len(summed)] \in P
             /\ Len(summed) <= numPatterns(space)
             /\ Simple(space) =>
                  /\ Len(summed) = numPatterns(space)
                  /\ {[bin |-> x.bin, nat |-> x.nat] : x \in ToSet(summed)} = Patterns(space)
  OBVIOUS
<1> HIDE DEF Q, D, P, summed
<1>5. p \in P
  BY DEF P
<1>6. PICK R \in Seq(P) : IsTrail(R, p, Q, N) /\ summed = Tail(R)
  BY <1>1, <1>2, <1>3, <1>5, SummedIs DEF summed
<1>7. /\ summed \in Seq(P) /\ Len(summed) = N
      /\ \A j \in 1 .. N : summed[j] = Moved(R[j], Q[j]) /\ R[j] \in P
  <2>1. N \in Nat /\ R \in Seq(P) /\ IsTrail(R, p, Q, N)
    BY <1>4, <1>6
  <2> HIDE DEF N
  <2>2. Tail(R) \in Seq(P) /\ Len(Tail(R)) = N
    BY <2>1, TrailTail
  <2>3. \A j \in 1 .. N : Tail(R)[j] = Moved(R[j], Q[j]) /\ R[j] \in P
    BY <2>1, TrailTail
  <2> QED BY <1>6, <2>2, <2>3
<1>8. summed[N] \in P
  BY <1>4, <1>7
<1>9. ASSUME Simple(space)
      PROVE  {[bin |-> x.bin, nat |-> x.nat] : x \in ToSet(summed)} = Patterns(space)
  <2>1. DOMAIN summed = 1 .. N /\ DOMAIN Q = 1 .. N
    BY <1>1, <1>7
  <2>2. ASSUME NEW j \in 1 .. N
        PROVE  [bin |-> summed[j].bin, nat |-> summed[j].nat] = CoordsOf(space, Q[j])
    <3>1. Q[j] \in D /\ R[j] \in P /\ summed[j] = Moved(R[j], Q[j])
      BY <1>1, <1>7
    <3> QED BY <1>0, <1>9, <3>1, StepSetsAll DEF D, P
  <2> HIDE DEF N
  <2>3. {[bin |-> x.bin, nat |-> x.nat] : x \in ToSet(summed)}
          = {CoordsOf(space, step) : step \in ToSet(Q)}
    BY <2>1, <2>2 DEF ToSet
  <2>4. Patterns(space) = {CoordsOf(space, step) : step \in D}
    BY <1>0, <1>9, PatternsAre DEF D
  <2> QED BY <1>1, <2>3, <2>4
<1> QED BY <1>4, <1>7, <1>8, <1>9

(* The scratch point of MaxKl is one of the space it was allocated for.    *)
ScratchFits(k) == Dimensioned(k.space) /\ k.theta \in PointsOf(k.space)

KlInv == EstimateInv /\ ScratchFits(kl)

(* The spaces of the tests.                                                *)
LEMMA SpacesDimensioned == ASSUME NEW space \in Spaces PROVE Dimensioned(space)
  BY AdaptiveAssumption, SpacesAssumption DEF Dimensioned

(* A new OscatsAlgMaxKl has a point of no dimensions.                      *)
LEMMA NewKlFits == ASSUME NEW posterior, NEW bounds PROVE ScratchFits(NewKl(posterior, bounds))
<1>1. NewKl(posterior, bounds).space = NoSpace
      /\ NewKl(posterior, bounds).theta = NewPoint(NoSpace)
  BY DEF NewKl
<1>2. Dimensioned(NoSpace)
  <2>1. NoSpace.num_bin = 0 /\ NoSpace.max = <<>>
    BY DEF NoSpace
  <2>2. <<>> \in Seq(Nat \ {0})
    OBVIOUS
  <2> QED BY <2>1, <2>2 DEF Dimensioned
<1> QED BY <1>1, <1>2, NewPointThere DEF ScratchFits

(* The allocated scratch point is one of the space.                        *)
LEMMA KlAllocFits ==
    ASSUME NEW k, IsKl(k), NEW space, Dimensioned(space)
    PROVE  ScratchFits(KlAlloc(k, space)) /\ IsKl(KlAlloc(k, space))
<1>1. KlAlloc(k, space).space = space /\ KlAlloc(k, space).theta = NewPoint(space)
      /\ IsKl(KlAlloc(k, space))
  <2> DEFINE Inf == IF space.num_cont > 0 /\ ~k.posterior /\ k.inf_bounds THEN <<>> ELSE NoMatrix
             point == NewPoint(space)
  <2>1. KlAlloc(k, space) = [k EXCEPT !.space = space, !.theta = point, !.Inf = Inf]
    BY DEF KlAlloc
  <2> HIDE DEF Inf, point
  <2>2. PICK p0, b0, s0, t0, i0, n0 :
          k = [posterior |-> p0, inf_bounds |-> b0, space |-> s0, theta |-> t0, Inf |-> i0,
               base_num |-> n0]
    BY DEF IsKl
  <2>3. KlAlloc(k, space)
          = [posterior |-> p0, inf_bounds |-> b0, space |-> space, theta |-> point, Inf |-> Inf,
             base_num |-> n0]
    BY <2>1, <2>2
  <2> QED BY <2>3 DEF IsKl, point
<1> QED BY <1>1, NewPointThere DEF ScratchFits

(* Resizing allocates.                                                     *)
LEMMA KlResizeFits ==
    ASSUME NEW k, IsKl(k), NEW space, Dimensioned(space)
    PROVE  ScratchFits(KlResize(k, space))
<1> DEFINE r == [k EXCEPT !.base_num = 0]
<1>1. IsKl(r) /\ KlResize(k, space) = KlAlloc(r, space)
  BY DEF IsKl, KlResize
<1> HIDE DEF r
<1> QED BY <1>1, KlAllocFits

(* Starting a test and summing the information leave the scratch point.    *)
LEMMA SumsFit ==
    ASSUME NEW k, IsKl(k), ScratchFits(k), NEW len0, NEW point
    PROVE  /\ ScratchFits(KlInitialize(k))
           /\ ScratchFits(KlAccumulate(k, point, len0)) /\ IsKl(KlAccumulate(k, point, len0))
<1>1. KlInitialize(k).space = k.space /\ KlInitialize(k).theta = k.theta
  BY DEF KlInitialize, IsKl
<1>2. /\ KlAccumulate(k, point, len0).space = k.space
      /\ KlAccumulate(k, point, len0).theta = k.theta
      /\ IsKl(KlAccumulate(k, point, len0))
  BY DEF KlAccumulate, IsKl
<1> QED BY <1>1, <1>2 DEF ScratchFits

(* A criterion leaves it where its sum ended.                              *)
LEMMA KlCriterionFits ==
    ASSUME NEW k, IsKl(k), ScratchFits(k), NEW space, Dimensioned(space)
    PROVE  ScratchFits(KlCriterion(k, space))
<1> DEFINE ready == IF SpaceCompatible(k.space, space) THEN k ELSE KlAlloc(k, space)
           summed == SummedFrom(ready.theta)
<1>1. IsKl(ready) /\ ScratchFits(ready)
  BY KlAllocFits
<1>2. KlCriterion(k, space) = [ready EXCEPT !.theta = summed[Len(summed)]]
  BY DEF KlCriterion
<1> HIDE DEF ready
<1>3. summed[Len(summed)] \in PointsOf(ready.space)
  BY <1>1, SumOfPatterns DEF ScratchFits
<1> HIDE DEF summed
<1>4. KlCriterion(k, space).space = ready.space
      /\ KlCriterion(k, space).theta = summed[Len(summed)]
  BY <1>1, <1>2 DEF IsKl
<1> QED BY <1>1, <1>3, <1>4 DEF ScratchFits

(* Every step keeps the scratch point in its space.                        *)
LEMMA KlStep == KlInv /\ [Next]_vars => KlInv'
<1> SUFFICES ASSUME KlInv, [Next]_vars PROVE KlInv'
  OBVIOUS
<1>1. EstimateInv'
  BY EstimateStep DEF KlInv
<1>2. IsKl(kl) /\ ScratchFits(kl)
  BY DEF KlInv, EstimateInv, IInv, MatrixInv
<1>3. kl' = kl => ScratchFits(kl')
  BY <1>2
<1>4. CASE \E space \in Spaces : \E bin \in SUBSET (0 .. space.num_bin - 1) :
             SetEstTheta(space, bin)
  BY <1>1, <1>3, <1>4 DEF SetEstTheta, KlInv, ScratchFits
<1>5. CASE \E space \in Spaces : Resize(space)
  <2>1. PICK space \in Spaces : Resize(space)
    BY <1>5
  <2>2. kl' = IF selector = "kl" THEN KlResize(kl, space) ELSE kl
    BY <2>1 DEF Resize
  <2>3. ScratchFits(KlResize(kl, space))
    BY <1>2, KlResizeFits, SpacesDimensioned
  <2>4. ScratchFits(kl')
    BY <1>2, <2>2, <2>3
  <2> QED BY <1>1, <2>4 DEF KlInv, ScratchFits
<1>6. CASE Start
  <2>1. kl' = IF selector = "kl" THEN KlInitialize(kl) ELSE kl
    BY <1>6 DEF Start
  <2>2. ScratchFits(kl')
    BY <1>2, <2>1, SumsFit
  <2> QED BY <1>1, <2>2 DEF KlInv, ScratchFits
<1>7. CASE \E eligible, approved \in BOOLEAN : Select(eligible, approved)
  <2>1. PICK eligible \in BOOLEAN, approved \in BOOLEAN : Select(eligible, approved)
    BY <1>7
  <2> DEFINE k == KlAccumulate(kl, theta, len)
             c == KlCriterion(k, theta.space)
  <2>2. kl' \in {kl, k, c} /\ pc # "idle"
    BY <2>1 DEF Select
  <2>3. Dimensioned(theta.space)
    <3>1. theta.space \in Spaces
      BY <2>2, PointGiven DEF KlInv
    <3> QED BY <3>1, SpacesDimensioned
  <2>4. ScratchFits(k) /\ IsKl(k)
    BY <1>2, SumsFit
  <2> HIDE DEF k
  <2>5. ScratchFits(c)
    BY <2>3, <2>4, KlCriterionFits
  <2> HIDE DEF c
  <2>6. ScratchFits(kl')
    BY <1>2, <2>2, <2>4, <2>5
  <2> QED BY <1>1, <2>6 DEF KlInv, ScratchFits
<1>8. CASE \/ \E recorded, converges \in BOOLEAN : Administer(recorded, converges)
           \/ \E converges \in BOOLEAN, likelihood \in Likelihoods : SearchOn(converges, likelihood)
           \/ \E stop \in BOOLEAN : Stopcrit(stop)
  BY <1>1, <1>3, <1>8 DEF Administer, SearchOn, Stopcrit, KlInv, ScratchFits
<1>9. CASE UNCHANGED vars
  BY <1>1, <1>3, <1>9 DEF vars, KlInv, ScratchFits
<1> QED BY <1>4, <1>5, <1>6, <1>7, <1>8, <1>9 DEF Next

(* For all spaces: wherever the scratch point of MaxKl was left, its sum   *)
(* (max_kl.c) is over no more patterns than the prior has entries, and     *)
(* with at most one binary and one natural dimension over each pattern     *)
(* once.                                                                   *)
THEOREM EveryPatternSummedOnceAlways == Spec => []EveryPatternSummedOnce
<1>1. Init => KlInv
  <2> SUFFICES ASSUME Init PROVE KlInv
    OBVIOUS
  <2>1. ScratchFits(kl)
    BY NewKlFits DEF Init
  <2> QED BY <2>1, InitEstimate DEF KlInv
<1>2. KlInv => EveryPatternSummedOnce
  <2> SUFFICES ASSUME KlInv PROVE EveryPatternSummedOnce
    OBVIOUS
  <2> DEFINE space == kl.space
             summed == SummedFrom(kl.theta)
  <2>1. Dimensioned(space) /\ kl.theta \in PointsOf(space)
    BY DEF KlInv, ScratchFits
  <2>2. /\ Len(summed) <= numPatterns(space)
        /\ Simple(space) =>
             /\ Len(summed) = numPatterns(space)
             /\ {[bin |-> p.bin, nat |-> p.nat] : p \in ToSet(summed)} = Patterns(space)
    <3> HIDE DEF space
    <3> QED BY <2>1, SumOfPatterns
  <2>3. space.num_bin <= 1 /\ Len(space.max) <= 1 => Simple(space)
    <3>1. space.num_bin \in Nat
      BY <2>1 DEF Dimensioned
    <3> HIDE DEF space
    <3> QED BY <3>1 DEF Simple
  <2> HIDE DEF space, summed
  <2> QED BY <2>2, <2>3 DEF EveryPatternSummedOnce, space, summed
<1> QED BY <1>1, <1>2, KlStep, PTL DEF Spec
=============================================================================
