-------------------------------- MODULE Stratify --------------------------------
(***************************************************************************)
(* The stratification of an item bank (OscatsAlgStratify, stratify.c).     *)
(*                                                                         *)
(* The object is a record: strata is a function from 0 .. num-1 to the     *)
(* sets of items (the bit arrays), next the internal stratum iterator.     *)
(* The criterion functions are functions from Items to Nat; only the order *)
(* of their values matters.                                                *)
(***************************************************************************)
EXTENDS Naturals, FiniteSets

CONSTANT NumItems   (* The number of items of the bank. *)

ASSUME BankAssumption == NumItems \in Nat \ {0}

Items == 0 .. NumItems - 1

(* A new object; nothing has been stratified. *)
Unstratified == [strata |-> <<>>, next |-> 0]

(* The "num" property. *)
Num(stratify) == Cardinality(DOMAIN stratify.strata)

(* Broken: every part has the same size and the remainder is dropped.      *)
CutEqually(n, k) == [j \in 0 .. k |-> j * (n \div k)]

(* Broken: the last part takes the whole remainder.                        *)
CutLastTakesRest(n, k) == [j \in 0 .. k |-> IF j = k THEN n ELSE j * (n \div k)]

(* n things divided into k parts, each taking its share of what is left:   *)
(* Cut(n, k)[j] things are in the first j parts.                           *)
Cut(n, k) ==
  LET cut[j \in 0 .. k] ==
        IF j = 0 THEN 0
        ELSE cut[j - 1] + (n - cut[j - 1]) \div (k - (j - 1))
  IN  cut

(* The place of item i in the list of the items of S sorted by val.  An    *)
(* item is inserted before those equal to it, so of two equal items the    *)
(* later one, in the order of insertion, comes first.                      *)
Place(S, val, inserted, i) ==
  Cardinality({j \in S : \/ val[j] < val[i]
                         \/ val[j] = val[i] /\ inserted[j] > inserted[i]})

(* The bank sorted by the block criterion.                                 *)
ByBlock(block) ==
  LET index == [i \in Items |-> i]
  IN  [i \in Items |-> Place(Items, block, index, i)]

(* The items of block b of n_blocks.                                       *)
Block(n_blocks, block, b) ==
  {i \in Items : /\ Cut(NumItems, n_blocks)[b] <= ByBlock(block)[i]
                 /\ ByBlock(block)[i] < Cut(NumItems, n_blocks)[b + 1]}

(* The share of stratum s in block b.                                      *)
Share(n_strata, f, n_blocks, block, b, s) ==
  LET B == Block(n_blocks, block, b)
      cut == Cut(Cardinality(B), n_strata)
      place(i) == Place(B, f, ByBlock(block), i)
  IN  {i \in B : cut[s] <= place(i) /\ place(i) < cut[s + 1]}

(* oscats_alg_stratify_stratify.  With at most one block the block         *)
(* criterion is not called.  The iterator is left where it is.             *)
Stratified(stratify, n_strata, f, n_blocks, block) ==
  LET blocks == IF n_blocks > 1 THEN n_blocks ELSE 1
      val    == IF n_blocks > 1 THEN block ELSE [i \in Items |-> 0]
  IN  [stratify EXCEPT !.strata =
        [s \in 0 .. n_strata - 1 |->
           UNION {Share(n_strata, f, blocks, val, b, s) : b \in 0 .. blocks - 1}]]

(* oscats_alg_stratify_reset. *)
Rewound(stratify) == [stratify EXCEPT !.next = 0]

(* oscats_alg_stratify_next: whether there is a next stratum, the stratum, *)
(* and the object after the call.                                          *)
HasNext(stratify) == stratify.next < Num(stratify)
NextStratum(stratify) == stratify.strata[stratify.next]
Advanced(stratify) ==
  IF HasNext(stratify) THEN [stratify EXCEPT !.next = @ + 1] ELSE stratify

===============================================================================
