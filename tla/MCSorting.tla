------------------------------ MODULE MCSorting ------------------------------
(***************************************************************************)
(* A program that sorts an item bank: it stratifies the bank again and     *)
(* again (StratifyCalls) or chooses items from it (Chooser).  The two do   *)
(* not interact, so that each instance does one or the other.              *)
(***************************************************************************)
EXTENDS StratifyCalls

CONSTANTS ChoiceItems,  \* the number of items of the bank to choose from
          Dists, Nums   \* as in Chooser

(* A bank has an item, numbers stand for the order of the criterion, and   *)
(* the property "num" is at least 1.                                       *)
ASSUME ChoiceAssumption ==
    ChoiceItems \in Nat \ {0} /\ Dists \subseteq Int /\ Nums \subseteq Nat \ {0}

VARIABLES use,          \* "stratify" or "choose"
          num, dist, eligible, choice

Choosing == INSTANCE Chooser WITH NumItems <- ChoiceItems

choosing == <<num, dist, eligible, choice>>

SortingInit ==
    \/ /\ use = "stratify" /\ Init
       /\ num = 1 /\ dist = <<>> /\ eligible = {} /\ choice = Choosing!NotCalled
    \/ /\ use = "choose" /\ Choosing!Init
       /\ stratify = Unstratified /\ f = <<>> /\ block = <<>> /\ n_blocks = 0

SortingNext ==
    \/ use = "stratify" /\ Next /\ UNCHANGED <<use, choosing>>
    \/ use = "choose" /\ Choosing!Next /\ UNCHANGED <<use, vars>>

SortingSpec == SortingInit /\ [][SortingNext]_<<use, vars, choosing>>

(* "A random item is chosen from among the num closest items": see Chooser.*)
AmongClosest == Choosing!AmongClosest

(* Of the items equally close the first ones are kept: see Chooser.        *)
EarlierOfEqual == Choosing!EarlierOfEqual
=============================================================================
