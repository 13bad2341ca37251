--------------------------------- MODULE MCCatTest ---------------------------------
(***************************************************************************)
(* CatTest on a bank of five items with two models.                        *)
(***************************************************************************)
EXTENDS CatTest

MCDiscr == [m2pl |-> [i \in Items |-> (2 * i) % 5], m3pl |-> [i \in Items |-> 4 - i]]
MCDiff  == [m2pl |-> [i \in Items |-> i % 2], m3pl |-> [i \in Items |-> i \div 3]]

(* Equal quotas and unequal ones, two strata and three, with and without   *)
(* blocks, by either model.                                                *)
Equal   == [quota |-> <<1, 1>>, blocks |-> 0, key |-> "m2pl"]
Unequal == [quota |-> <<1, 2>>, blocks |-> 2, key |-> "m3pl"]
Three   == [quota |-> <<1, 1, 1>>, blocks |-> 2, key |-> "m2pl"]

MCSettings == {Equal, Unequal, Three}

===============================================================================
