----------------------------- MODULE Arithmetic -----------------------------
(***************************************************************************)
(* The arithmetic of the item response models.  The C code computes with   *)
(* gdouble; what the properties of the models are about is which rational  *)
(* function of exponentials a formula is, not how it is rounded.  Numbers  *)
(* are therefore abstracted to the integers modulo a prime, where the four *)
(* operations are exact, and the exponential to a homomorphism from the    *)
(* integers (the linear predictors, whose coefficients are small integers) *)
(* to the powers of a primitive root.  An identity between the formulas of *)
(* the code holds in every field, so also here; a formula that differs is  *)
(* told apart unless the difference happens to vanish modulo the prime.    *)
(***************************************************************************)
EXTENDS Integers, Sequences, FiniteSets, FiniteSetsExt

CONSTANTS Prime, \* the number of elements of the field
          Root   \* a primitive root modulo Prime, the value of exp(1)

NonZero == 1 .. Prime - 1

Power[n \in Nat] ==
    IF n = 0 THEN 1
    ELSE LET half == Power[n \div 2]
         IN  (half * half * (IF n % 2 = 1 THEN Root ELSE 1)) % Prime

\* <<1, Root, Root^2, ...>> and <<1, 1/2, 1/3, ...>>
Powers == <<>> \o [n \in NonZero |-> Power[n - 1]]
Reciprocals ==
    <<>> \o [x \in NonZero |-> CHOOSE y \in NonZero : (x * y) % Prime = 1]

ASSUME PrimeAssumption == Prime \in Nat /\ Prime > 1
ASSUME PrimitiveRoot == {Powers[n] : n \in NonZero} = NonZero
ASSUME Inverses == \A x \in NonZero : \E y \in NonZero : (x * y) % Prime = 1

\* exp(z), for an integer z
Exp(z) == Powers[(z % (Prime - 1)) + 1]

\* 1/x; an x that is 0 modulo Prime has no inverse, and 0 stands for it
Reciprocal(x) == IF x % Prime = 0 THEN 0 ELSE Reciprocals[x % Prime]

Neg(x) == (-x) % Prime
a \oplus b == (a + b) % Prime
a \ominus b == (a - b) % Prime
a \otimes b == ((a % Prime) * (b % Prime)) % Prime
a \oslash b == a \otimes Reciprocal(b)
Square(x) == x \otimes x

\* exp turns sums into products
ASSUME Exponential ==
    \A y, z \in 0 .. Prime - 2 : Exp(y + z) = Exp(y) \otimes Exp(z)

\* the sum of the values of a function
Total(f) == SumFunction(f) % Prime

\* 1 where a condition holds, as in (k==i ? 1 : 0)
Indicator(b) == IF b THEN 1 ELSE 0
-----------------------------------------------------------------------------
(***************************************************************************)
(* Numbers with their first and second derivatives with respect to a set   *)
(* of variables.  A formula of the code evaluated over jets yields its     *)
(* gradient and its Hessian, against which the derivatives the code        *)
(* computes by hand are compared.  Sums and products of jets are exact;    *)
(* ExpJet and ReciprocalJet take a jet to one reduced modulo Prime.        *)
(***************************************************************************)

\* The constant c and the variable i at the value c, over the variables V.
ConstJet(V, c) == [v |-> c, g |-> [i \in V |-> 0], h |-> [i, j \in V |-> 0]]
VarJet(V, i, c) == [ConstJet(V, c) EXCEPT !.g[i] = 1]

Variables(a) == DOMAIN a.g

\* k a + l b
Combined(k, a, l, b) ==
    [v |-> k * a.v + l * b.v,
     g |-> [i \in Variables(a) |-> k * a.g[i] + l * b.g[i]],
     h |-> [i, j \in Variables(a) |-> k * a.h[i, j] + l * b.h[i, j]]]

Plus(a, b) == Combined(1, a, 1, b)
Minus(a, b) == Combined(1, a, -1, b)
Scale(k, a) == Combined(k, a, 0, a)
OneMinus(a) == Minus(ConstJet(Variables(a), 1), a)

Times(a, b) ==
    [v |-> a.v * b.v,
     g |-> [i \in Variables(a) |-> a.g[i] * b.v + a.v * b.g[i]],
     h |-> [i, j \in Variables(a) |->
              a.h[i, j] * b.v + a.g[i] * b.g[j] + a.g[j] * b.g[i] + a.v * b.h[i, j]]]

\* f(a), from the values f0, f1 and f2 of f and its first two derivatives
Chain(a, f0, f1, f2) ==
    [v |-> f0,
     g |-> [i \in Variables(a) |-> f1 \otimes a.g[i]],
     h |-> [i, j \in Variables(a) |->
              (f1 \otimes a.h[i, j]) \oplus (f2 \otimes (a.g[i] \otimes a.g[j]))]]

ExpJet(a) == LET e == Exp(a.v) IN Chain(a, e, e, e)

ReciprocalJet(a) ==
    LET r == Reciprocal(a.v)
    IN  Chain(a, r, Neg(Square(r)), 2 * (Square(r) \otimes r))

\* base plus the sum of the jets f
SumFrom(base, f) ==
    [v |-> base.v + SumFunction([x \in DOMAIN f |-> f[x].v]),
     g |-> [i \in Variables(base) |-> base.g[i] + SumFunction([x \in DOMAIN f |-> f[x].g[i]])],
     h |-> [i, j \in Variables(base) |->
              base.h[i, j] + SumFunction([x \in DOMAIN f |-> f[x].h[i, j]])]]

\* Gradient and Hessian of the logarithm of a jet.
LogGradient(a) == [i \in Variables(a) |-> a.g[i] \oslash a.v]
LogHessian(a) ==
    [i, j \in Variables(a) |->
       (a.h[i, j] \oslash a.v) \ominus ((a.g[i] \otimes a.g[j]) \oslash Square(a.v))]
=============================================================================
