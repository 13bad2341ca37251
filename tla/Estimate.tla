------------------------------ MODULE Estimate ------------------------------
(***************************************************************************)
(* OscatsAlgEstimate (estimate.c): the handler of ::administered brings    *)
(* the examinee's point up to date, by maximum likelihood (MLE) or, for    *)
(* short tests, on request, or where that fails, a posteriori (MAP).       *)
(*                                                                         *)
(* Both search the discrete coordinates.  The handler is modelled step by  *)
(* step, a step per pattern; a search is a record of its mode, the number  *)
(* of steps done, the largest likelihood met and, for the properties, what *)
(* was visited.  Whether Newton's iteration converges and how likely a     *)
(* pattern is are parameters of a step.  Likelihoods are levels above 0,   *)
(* which stands for -G_MAXDOUBLE; one that is not above it is Impossible.  *)
(*                                                                         *)
(* The natural coordinate of the loop is written to theta, not to the      *)
(* point x that is evaluated, so that x keeps the one it started with.     *)
(***************************************************************************)
EXTENDS Points

Impossible == 0
NoSearch == [mode |-> "none", n |-> 0, max |-> 0, visited |-> {}]
Search(mode) == [mode |-> mode, n |-> 0, max |-> 0, visited |-> {}]
NoX == [space |-> "none"]

(* An estimator: its properties and the point x that it works on.          *)
NewEstimator(eap, independent, Nposterior) ==
    [eap |-> eap, independent |-> independent, Nposterior |-> Nposterior, x |-> NoX]

(* The state of the handler: the examinee's point theta, the estimator and *)
(* the search.                                                             *)
At(theta, self, search) == [theta |-> theta, self |-> self, search |-> search]

\* x is allocated for the space of theta when it has another geometry.
Prepared(self, theta) ==
    IF self.x # NoX /\ SpaceCompatible(theta.space, self.x.space) THEN self
    ELSE [self EXCEPT !.x = NewPoint(theta.space)]

\* The continuous coordinates are estimated once, before the search, or
\* for each pattern.
Once(self, theta) ==
    theta.space.num_cont > 0 /\ (self.independent \/ ~haveDiscr(theta.space))
EachTime(self, theta) == theta.space.num_cont > 0 /\ ~self.independent

\* NR: an iteration that fails leaves the point where it got to.
NR(point, converges) == WithCont(point, IF converges THEN "ml" ELSE "far")

EAP(point) == WithCont(point, "eap")

BeginMAP(theta, self) ==
    LET x == CopyOf(self.x, theta)
        y == IF Once(self, theta) THEN EAP(x) ELSE x
    IN  IF haveDiscr(theta.space) THEN At(theta, [self EXCEPT !.x = y], Search("map"))
        ELSE At(CopyOf(theta, y), [self EXCEPT !.x = y], NoSearch)

\* Broken: a failure before the search is not noticed.
BeginMLEUnchecked(theta, self, converges) ==
    LET first == IF Once(self, theta) THEN NR(theta, converges) ELSE theta
    IN  IF haveDiscr(theta.space)
        THEN At(first, [self EXCEPT !.x = CopyOf(@, first)], Search("mle"))
        ELSE At(first, self, NoSearch)

BeginMLE(theta, self, converges) ==
    LET first == IF Once(self, theta) THEN NR(theta, converges) ELSE theta
    IN  CASE Once(self, theta) /\ ~converges -> BeginMAP(first, self)
          [] Once(self, theta) /\ converges /\ ~haveDiscr(theta.space) ->
                At(first, self, NoSearch)
          [] OTHER -> At(first, [self EXCEPT !.x = CopyOf(@, first)], Search("mle"))

\* administered, for an examinee with num recorded items
administered(theta, self, num, converges) ==
    LET ready == Prepared(self, theta)
    IN  CASE num = 0 -> At(theta, ready, NoSearch)
          [] num > 0 /\ (self.eap \/ num <= self.Nposterior) -> BeginMAP(theta, ready)
          [] num > 0 /\ ~self.eap /\ num > self.Nposterior ->
                BeginMLE(theta, ready, converges)

\* Broken: max is not updated.
CompareForgetful(s, theta, x, likelihood) ==
    LET visited == s.search.visited \cup
                     {[bin |-> x.bin, cont |-> x.cont, likelihood |-> likelihood]}
        search == [s.search EXCEPT !.n = @ + 1, !.visited = visited]
    IN  IF likelihood > s.search.max
        THEN At(CopyOf(theta, x), [s.self EXCEPT !.x = x], search)
        ELSE At(theta, [s.self EXCEPT !.x = x], search)

\* L = logLik(x); if (L > max) theta becomes x
Compare(s, theta, x, likelihood) ==
    LET visited == s.search.visited \cup
                     {[bin |-> x.bin, cont |-> x.cont, likelihood |-> likelihood]}
        search == [s.search EXCEPT !.n = @ + 1, !.visited = visited]
    IN  IF likelihood > s.search.max
        THEN At(CopyOf(theta, x), [s.self EXCEPT !.x = x], [search EXCEPT !.max = likelihood])
        ELSE At(theta, [s.self EXCEPT !.x = x], search)

\* One pattern of the search; an MLE that fails is given up for a MAP.
NextPattern(s, converges, likelihood) ==
    LET step == Steps(s.theta.space)[s.search.n + 1]
        theta == WithNat(s.theta, step.nat)
        x == WithBin(s.self.x, step.bin)
    IN  CASE ~EachTime(s.self, theta) -> Compare(s, theta, x, likelihood)
          [] EachTime(s.self, theta) /\ s.search.mode = "map" ->
                Compare(s, theta, EAP(x), likelihood)
          [] EachTime(s.self, theta) /\ s.search.mode = "mle" /\ converges ->
                Compare(s, theta, NR(x, TRUE), likelihood)
          [] EachTime(s.self, theta) /\ s.search.mode = "mle" /\ ~converges ->
                BeginMAP(theta, [s.self EXCEPT !.x = NR(x, FALSE)])

Searching(s) == s.search.mode # "none" /\ s.search.n < Len(Steps(s.theta.space))
=============================================================================
