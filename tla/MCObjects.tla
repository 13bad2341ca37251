------------------------------ MODULE MCObjects ------------------------------
(* Instances of Objects: two objects of each kind, two values of each property. *)
EXTENDS Objects

CONSTANTS b1, b2, d1, d2, sp1, cv1, cv2, pt1, pt2, it1, it2, md1, md2

MCThings == {b1, b2, d1, d2, sp1, cv1, cv2, pt1, pt2, it1, it2, md1, md2}
TwoSizes == {<<2, "A">>, <<2, "B">>, <<3, "C">>}
MCQuotas == {<<>>, <<3>>, <<1, 2>>}
MCCounts == {1, 4}
MCMaxima == {<<>>, <<3>>}
MCDimLists == {<<>>, <<"c1", "c2">>}
MCKeys == {Null, "", "key"}
AllSubjects == DOMAIN Classes
Priors == {"estimate", "max_kl"}
===============================================================================
