------------------------------ MODULE MCModels ------------------------------
(* The models on a space of two continuous and two binary dimensions. *)
EXTENDS Models, TLC

c0 == <<"cont", 0>>
c1 == <<"cont", 1>>
c2 == <<"cont", 2>>
b0 == <<"bin", 0>>
b1 == <<"bin", 1>>

MCSpace == {c0, c1, b0, b1}

\* None, two out of order, one of them twice, an invalid one among others,
\* only an invalid one, and types that differ.
MCRequests ==
    {<<>>, <<c1, c0>>, <<c0, c1, c0>>, <<c2, c1>>, <<c2>>, <<b0, b1>>, <<b1, b0, b1>>, <<c0, b0>>}
MCCovariateLists == {<<>>, <<"x">>, <<"y", "x">>}

\* A covariate that was not set counts as 0.
Situation(t0, t1, m0, m1, x, y) ==
    [theta |-> (c0 :> t0 @@ c1 :> t1 @@ b0 :> m0 @@ b1 :> m1), cov |-> ("x" :> x @@ "y" :> y)]
MCSituations ==
    {Situation(2, -1, 0, 0, 2, 3), Situation(-1, 1, 1, 0, 0, 1), Situation(1, 3, 1, 1, -1, 2)}
=============================================================================
