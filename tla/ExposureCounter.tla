----------------------------- MODULE ExposureCounter -----------------------------
(***************************************************************************)
(* The exposure counter algorithm (exposure_counter.c): a handler of       *)
(* ::initialize that counts the examinees and one of ::administered that   *)
(* counts the times each item was administered.                            *)
(***************************************************************************)
EXTENDS Naturals

CONSTANT Items      (* The items of the bank. *)

VARIABLES
  num_examinees,    (* The examinees tested.                               *)
  counts            (* The hash table; an item not in it counts as 0.      *)

vars == <<num_examinees, counts>>

Init ==
  /\ num_examinees = 0
  /\ counts = [i \in Items |-> 0]

(* initialize() *)
Initialize ==
  /\ num_examinees' = num_examinees + 1
  /\ UNCHANGED counts

(* administered() *)
Administered(item) ==
  /\ counts' = [counts EXCEPT ![item] = @ + 1]
  /\ UNCHANGED num_examinees

===============================================================================
