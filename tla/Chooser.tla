--------------------------------- MODULE Chooser ---------------------------------
(***************************************************************************)
(* The choice of the closest item (OscatsAlgChooser, chooser.c), which     *)
(* MaxFisher, MaxKl and ClosestDiff use to select.  The bank, the criterion*)
(* and the eligible items change; each call of choose is a step.           *)
(*                                                                         *)
(* The criterion is a function dist from Items to numbers; the eligible    *)
(* items are visited in the order of their index, as the iterator of the   *)
(* bit array visits them (GBitArray).                                      *)
(***************************************************************************)
EXTENDS Naturals, Integers, Sequences, FiniteSets

CONSTANTS
  NumItems,   (* The number of items of the bank.                          *)
  Dists,      (* The values of the criterion.                              *)
  Nums        (* The values of the "num" property, positive numbers.       *)

VARIABLES
  num,        (* The property, set at construction.                        *)
  dist,       (* The criterion, for the examinee at hand.                  *)
  eligible,   (* The items eligible.                                       *)
  choice      (* What the call returned: an item, NoItem or NotCalled.     *)

vars == <<num, dist, eligible, choice>>

Items == 0 .. NumItems - 1
NoItem == -1
NotCalled == -2

(* Broken: an item goes before those equally close.                        *)
PlaceBeforeEqual(kept, i) ==
  CHOOSE p \in 1 .. Len(kept) + 1 :
    /\ p <= Len(kept) => dist[i] <= dist[kept[p]]
    /\ \A q \in 1 .. p - 1 : dist[i] > dist[kept[q]]

(* Broken: it is compared with the last of the list only.                  *)
PlaceFirstIfCloser(kept, i) ==
  IF kept # <<>> /\ dist[i] < dist[kept[Len(kept)]] THEN 1 ELSE Len(kept) + 1

(* Where item i goes in the list of items kept so far: before the first    *)
(* that is farther.                                                        *)
Place(kept, i) ==
  CHOOSE p \in 1 .. Len(kept) + 1 :
    /\ p <= Len(kept) => dist[i] < dist[kept[p]]
    /\ \A q \in 1 .. p - 1 : dist[i] >= dist[kept[q]]

(* The list when item i has been visited: its first num items.             *)
Inserted(kept, i) ==
  LET p    == Place(kept, i)
      size == IF Len(kept) < num THEN Len(kept) + 1 ELSE num
  IN  [q \in 1 .. size |-> CASE q < p -> kept[q]
                             [] q = p -> i
                             [] q > p -> kept[q - 1]]

(* The items kept when the eligible ones below n have been visited.        *)
KeptBelow[n \in 0 .. NumItems] ==
  IF n = 0 THEN <<>>
  ELSE IF n - 1 \in eligible THEN Inserted(KeptBelow[n - 1], n - 1) ELSE KeptBelow[n - 1]

(* The num items kept, in order, when all have been visited.               *)
Kept == KeptBelow[NumItems]

(* The items a call may return.  The random index into the items kept is a *)
(* number of [0, num - 1) truncated, so that the last is never taken.      *)
MayChoose ==
  CASE eligible = {}               -> {NoItem}
    [] num = 1 /\ eligible # {}    -> {Kept[1]}
    [] num > 1 /\ eligible # {} /\ Cardinality(eligible) < num -> eligible
    [] num > 1 /\ Cardinality(eligible) >= num -> {Kept[p] : p \in 1 .. num - 1}

Init ==
  /\ num \in Nums
  /\ dist \in [Items -> Dists]
  /\ eligible \in SUBSET Items
  /\ choice = NotCalled

Choose(item) ==
  /\ item \in MayChoose
  /\ choice' = item
  /\ UNCHANGED <<num, dist, eligible>>

Next == \E item \in Items \union {NoItem} : Choose(item)

Spec == Init /\ [][Next]_vars

-------------------------------------------------------------------------------

Closer(i) == {j \in eligible : dist[j] < dist[i]}

(* "A random item is chosen from among the num closest items", all of them *)
(* eligible, and -1 only if no item is available.                          *)
AmongClosest ==
  choice # NotCalled =>
    /\ choice = NoItem <=> eligible = {}
    /\ choice # NoItem => /\ choice \in eligible
                          /\ Cardinality(Closer(choice)) < num

(* The choice depends on the index only between items equally close: of    *)
(* those that compete for the last places, the first in the bank are kept. *)
EarlierOfEqual ==
  num <= Cardinality(eligible) /\ choice \in Items =>
    Cardinality(Closer(choice) \union
                {j \in eligible : dist[j] = dist[choice] /\ j < choice}) < num

===============================================================================
